------------------------------ MODULE Overlay ------------------------------
(***************************************************************************)
(* What the Bridge page keeps of a connection to a helper on the meta lane *)
(* (index.html, gws to metaVfoPending).  PageMeta is how it gets there.    *)
(***************************************************************************)
EXTENDS Integers

CONSTANT Nothing

VARIABLES
    gws, gctl,  \* the socket, gControllable
    vfo,        \* metaVfo
    pend,       \* metaVfoPending: [hz, held]: held for META_SETTLE_MS, or Nothing
    gbuttons,   \* enabled: [connect, disconnect]
    gconn,      \* each socket: "unused", "connecting", "open", "closing", "gone"
    twice       \* ghost: there have been two connections at a time

Live == {s \in DOMAIN gconn : gconn[s] \in {"connecting", "open", "closing"}}

------------------------------------------------------------------------------
(* Properties.                                                              *)

(* Without a connection nothing is left of one: catches log by PI, and the  *)
(* user can connect.  With one connection at a time the page also never     *)
(* forgets it.                                                              *)
OverlayOwned ==
    /\ Live = {} => /\ gws = Nothing /\ ~gctl /\ vfo = Nothing /\ pend = Nothing
                    /\ gbuttons = [connect |-> TRUE, disconnect |-> FALSE]
    /\ ~twice => \A s \in Live : gws = s
=============================================================================
