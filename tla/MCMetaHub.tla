----------------------------- MODULE MCMetaHub -----------------------------
(***************************************************************************)
(* The TLC instance of MetaHub, in two settings: two Bridges at one CAT    *)
(* source, and one Bridge at a source that fails and is swapped.           *)
(***************************************************************************)
EXTENDS MetaHub, TLC

CONSTANTS c1, c2, cat, rig

TwoClients  == {c1, c2}
Frequencies == {0, 4, 8}   \* StationHz is 5: two of them are one station
CatOnly     == {cat}

VARIABLE setting

(* A CAT source that can be steered and a rigctld source that cannot.       *)
Lone == INSTANCE MetaHub
    WITH Client <- {c1}, Freq <- {0, 4}, Sources <- {cat, rig}, Setters <- {cat},
         MaxSwaps <- 1, MaxErrors <- 1, MaxFaults <- 0

------------------------------------------------------------------------------
MCInit ==
    \/ setting = "pair" /\ Init
    \/ setting = "lone" /\ Lone!Init

InPair(A) == setting = "pair" /\ A /\ UNCHANGED setting
InLone(A) == setting = "lone" /\ A /\ UNCHANGED setting

MCNext == InPair(Next) \/ InLone(Lone!Next)

MCPoll == InPair(Poll) \/ InLone(Lone!Poll)

MCConnection(c) == InPair(Connection(c)) \/ InLone(c = c1 /\ Lone!Connection(c))

MCSpec ==
    /\ MCInit
    /\ [][MCNext]_<<setting, vars>>
    /\ WF_<<setting, vars>>(MCPoll)
    /\ \A c \in Client : WF_<<setting, vars>>(MCConnection(c))

------------------------------------------------------------------------------
(* TypeOK of the setting; the other properties are checked by their names.  *)
MCTypeOK == IF setting = "pair" THEN TypeOK ELSE Lone!TypeOK
=============================================================================
