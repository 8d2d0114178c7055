----------------------------- MODULE Decimation -----------------------------
(***************************************************************************)
(* pickDecimation (helper/spyserver.go): the decimation stage of a         *)
(* SpyServer whose device has a given rate and number of stages, and the   *)
(* sample rate that Start then announces.  Every pass of the loop is one   *)
(* step.  Rates and stages are below 2^32 and d stops at the first rate    *)
(* below the target, so no uint32 of the code wraps.                       *)
(***************************************************************************)
EXTENDS Naturals

CONSTANTS
    Rates,   \* maximum rates of devices
    Stages,  \* numbers of decimation stages
    Target   \* TargetIQRate

ASSUME ConstantsOK ==
    /\ Rates \subseteq Nat \ {0}
    /\ Stages \subseteq Nat
    /\ Target \in Nat \ {0}

VARIABLES
    maxRate,  \* the arguments
    stages,
    d,        \* the stage looked at
    rate,     \* maxRate>>d
    best,     \* the stage picked so far
    found,
    picked,   \* maxRate>>best
    done

vars == <<maxRate, stages, d, rate, best, found, picked, done>>

------------------------------------------------------------------------------
Init ==
    /\ maxRate \in Rates
    /\ stages \in Stages
    /\ d = 0
    /\ rate = maxRate
    /\ best = 0
    /\ found = FALSE
    /\ picked = maxRate
    /\ done = FALSE

(* Mutant of Stage: a rate a little below the target will do.               *)
StageNearest ==
    /\ ~done
    /\ d <= stages
    /\ rate + rate \div 4 >= Target
    /\ best' = d
    /\ picked' = rate
    /\ found' = TRUE
    /\ d' = d + 1
    /\ rate' = rate \div 2
    /\ UNCHANGED <<maxRate, stages, done>>

(* A stage that still meets the target is lighter on the wire.              *)
Stage ==
    /\ ~done
    /\ d <= stages
    /\ rate >= Target
    /\ best' = d
    /\ picked' = rate
    /\ found' = TRUE
    /\ d' = d + 1
    /\ rate' = rate \div 2
    /\ UNCHANGED <<maxRate, stages, done>>

(* Mutant of Return: the last stage is left out.                            *)
ReturnEarly ==
    /\ ~done
    /\ d >= stages \/ rate < Target
    /\ done' = TRUE
    /\ best' = IF found THEN best ELSE 0
    /\ UNCHANGED <<maxRate, stages, d, rate, found, picked>>

(* Mutant of Return: the stage looked at last is returned.                  *)
ReturnLast ==
    /\ ~done
    /\ d > stages \/ rate < Target
    /\ done' = TRUE
    /\ best' = d
    /\ UNCHANGED <<maxRate, stages, d, rate, found, picked>>

(* The loop ends; without a stage found the widest is taken.                *)
Return ==
    /\ ~done
    /\ d > stages \/ rate < Target
    /\ done' = TRUE
    /\ best' = IF found THEN best ELSE 0
    /\ UNCHANGED <<maxRate, stages, d, rate, found, picked>>

Next == Stage \/ Return

Spec == Init /\ [][Next]_vars

------------------------------------------------------------------------------
(* Properties.                                                              *)

(* The stream never falls below the target rate, unless the device itself   *)
(* does, which is then not decimated at all.                                *)
NeverBelowTarget == done => picked >= Target \/ (maxRate < Target /\ best = 0)

(* The stage is the lightest there is: it is the last one, or one more      *)
(* would fall below the target.                                             *)
Lightest == done /\ maxRate >= Target => best = stages \/ picked \div 2 < Target

(* The result against its definition: the last of all stages whose rate     *)
(* meets the target, and the rate that belongs to it.                       *)
TwoTo[e \in Nat] == IF e = 0 THEN 1 ELSE 2 * TwoTo[e - 1]

Meets(e) == maxRate \div TwoTo[e] >= Target

AsDefined ==
    done => /\ best \in 0..stages
            /\ picked = maxRate \div TwoTo[best]
            /\ Meets(best) \/ best = 0
            /\ \A e \in 0..stages : Meets(e) => e <= best
=============================================================================
