------------------------------ MODULE MCHelper ------------------------------
(***************************************************************************)
(* The TLC instance of the helper as its user meets it: setting says       *)
(* whether launches that share one file are looked at (Launch), or one     *)
(* config page and its helper (ConfigPage).  The variables of the other    *)
(* side keep their initial values.                                         *)
(***************************************************************************)
EXTENDS Launch, PageSays

CONSTANTS com, a1, a2

TwoAddresses == {a1, a2}
Defaults     == [listen |-> a1, source |-> "meta"]

OnTheLine(l, s, o) == [listen |-> l, source |-> s, open |-> o]

(* A plain launch, one with -listen, one with an IQ source.                 *)
Flags == {OnTheLine(None, None, "always"), OnTheLine(a2, None, "firstrun"),
          OnTheLine(None, "iq", "never")}

Serial == [source |-> "serial", port |-> com]
Iq     == [source |-> "iq", port |-> Nothing]
Rig    == [source |-> "rigctld", port |-> Nothing]

Events(e, a, r, s, p, l) ==
    [edits |-> e, applies |-> a, refreshes |-> r, stops |-> s, plugs |-> p, losses |-> l]

(* An Apply after an edit; an edit with a Refresh and a port that comes or  *)
(* goes; an Apply that may not be saved and the end of the helper; two      *)
(* Applies; and one Apply while a rigctld server fails to answer.  The two  *)
(* largest start with the port plugged in.                                  *)
EditApply   == Events(1, 1, 0, 0, 0, 0)
EditRefresh == Events(1, 0, 1, 0, 1, 0)
ApplyStop   == Events(0, 1, 0, 1, 0, 1)
TwoApplies  == Events(0, 2, 0, 0, 0, 0)
JustApply   == Events(0, 1, 0, 0, 0, 0)

VARIABLES
    setting,
    iqMode, err, have, poll, plugged, good, title   \* ConfigPage

pageVars ==
    <<up, iqMode, live, src, err, have, poll, saved, plugged, good, form, options,
      formInit, halted, title, note, call, posted, racing, left>>
allVars == <<setting, vars, pageVars>>

(* One port, two requests in flight, and one kind of source that answers.   *)
P == INSTANCE ConfigPage
    WITH Port <- {com}, Slots <- 2, Saved <- {Serial, Iq, Rig},
         Answering <- {{"rigctld"}, {"serial"}},
         Plan <- {EditApply, EditRefresh, ApplyStop, TwoApplies, JustApply}

ASSUME AllConstantsOK == ConstantsOK /\ P!ConstantsOK

------------------------------------------------------------------------------
MCInit ==
    /\ setting \in {"page", "launch"}
    /\ Init /\ P!Init
    /\ setting # "page" =>
         live = Serial /\ plugged = {} /\ good = {"serial"} /\ left = TwoApplies
    /\ (left = JustApply) = (live = Rig) /\ (live = Rig => good = {"serial"})
    /\ setting = "page" /\ left \in {EditApply, ApplyStop} => plugged = {com}
    /\ setting # "launch" => file = NoFile

MCNext ==
    /\ UNCHANGED setting
    /\ \/ setting = "page" /\ P!Next /\ UNCHANGED vars
       \/ setting = "launch" /\ Next /\ UNCHANGED pageVars

(* The fairness of ConfigPage, in its setting.                              *)
MCFairness ==
    /\ WF_pageVars(setting = "page" /\ P!PollStep)
    /\ WF_pageVars(setting = "page" /\ P!Exit)
    /\ WF_pageVars(setting = "page" /\ P!Tick)
    /\ \A k \in P!Slot : WF_pageVars(setting = "page" /\ P!Request(k))

MCSpec == MCInit /\ [][MCNext]_allVars /\ MCFairness

------------------------------------------------------------------------------
(* The properties of ConfigPage; those of Launch and PageSays go by names.  *)

(* Every variable of the setting looked at has its type.                    *)
HelperTypeOK == IF setting = "page" THEN P!TypeOK ELSE TypeOK

(* web.go: the page comes to show the state of the live source.             *)
PageSettles == setting = "page" => P!StatusSettles
=============================================================================
