---------------------------- MODULE AnnounceBoard ----------------------------
(***************************************************************************)
(* What the wsiq lane promises the Bridges about stream announces, without *)
(* goroutines, gates or locks: a board of numbered announces.  A Bridge    *)
(* that has joined is shown announces of the board, in any order, but      *)
(* never one that was already superseded when it joined.                   *)
(***************************************************************************)
EXTENDS Naturals, FiniteSets

CONSTANTS Client, Centre, Rate, None

Announce == [n : Nat, centre : Centre, rate : Rate, ctl : BOOLEAN]

VARIABLES
    posted,   \* the announces on the board
    floor,    \* per Bridge: the oldest announce it may be shown, None = absent
    shown     \* per Bridge: the announce it acts on

vars == <<posted, floor, shown>>

Newest == Cardinality(posted)

Init ==
    /\ posted = {}
    /\ floor = [c \in Client |-> None]
    /\ shown = [c \in Client |-> None]

(* The source, or an accepted tune, puts the next announce on the board.    *)
Post ==
    /\ \E a \in [n : {Newest + 1}, centre : Centre, rate : Rate, ctl : BOOLEAN] :
         posted' = posted \cup {a}
    /\ UNCHANGED <<floor, shown>>

(* A Bridge connects.                                                       *)
Join(c) ==
    /\ floor[c] = None
    /\ floor' = [floor EXCEPT ![c] = Newest]
    /\ UNCHANGED <<posted, shown>>

(* A Bridge adopts an announce.                                             *)
Show(c) ==
    /\ floor[c] # None
    /\ \E a \in posted : a.n >= floor[c] /\ shown' = [shown EXCEPT ![c] = a]
    /\ UNCHANGED <<posted, floor>>

Next == Post \/ \E c \in Client : Join(c) \/ Show(c)

Spec == Init /\ [][Next]_vars
=============================================================================
