------------------------------ MODULE WsWrite ------------------------------
(***************************************************************************)
(* Goroutines that write WebSocket frames to one connection.  A frame is   *)
(* several conn.Writes: two on the helper's server side (helper/ws.go,     *)
(* wsWriteFrame under client.mu), three on its client side                 *)
(* (helper/wsclient.go, writeFrame, under no lock), one less without a     *)
(* payload.  A Write that runs into its deadline leaves its frame          *)
(* unfinished, and the connection stays in use.                            *)
(***************************************************************************)
EXTENDS Naturals

CONSTANTS
    Writer,      \* goroutines with frames for the connection
    Pieces,      \* conn.Writes of a frame with a payload
    Locked,      \* whether frames are written under a lock
    None,
    MaxFrames,   \* bound: frames begun
    MaxTimeouts  \* bound: writes that run into their deadline

ASSUME ConstantsOK ==
    /\ Pieces \in Nat \ {0, 1}
    /\ Locked \in BOOLEAN
    /\ None \notin Writer /\ None \notin [frame : Nat, piece : Nat]
    /\ MaxFrames \in Nat /\ MaxTimeouts \in Nat

VARIABLES
    next,      \* the piece a writer writes next, 0 outside a frame
    size,      \* the pieces of its frame
    frame,     \* the number of its frame
    mu,        \* who holds the lock
    rx,        \* the receiver: the [frame, piece] it waits for, None between frames
    garbled,   \* the receiver took the bytes of one frame for those of another
    begun,     \* frames begun
    timeouts   \* writes that ran into their deadline

vars == <<next, size, frame, mu, rx, garbled, begun, timeouts>>

------------------------------------------------------------------------------
(* Mutant of Begin: a writer does not wait for the lock.                    *)
BeginUnlocked(w, n) ==
    /\ next[w] = 0
    /\ begun < MaxFrames
    /\ begun' = begun + 1
    /\ next' = [next EXCEPT ![w] = 1]
    /\ size' = [size EXCEPT ![w] = n]
    /\ frame' = [frame EXCEPT ![w] = begun']
    /\ mu' = IF Locked THEN w ELSE mu
    /\ UNCHANGED <<rx, garbled, timeouts>>

(* The lock is taken, where there is one, and a frame is begun.             *)
Begin(w, n) ==
    /\ next[w] = 0
    /\ begun < MaxFrames
    /\ Locked => mu = None
    /\ begun' = begun + 1
    /\ next' = [next EXCEPT ![w] = 1]
    /\ size' = [size EXCEPT ![w] = n]
    /\ frame' = [frame EXCEPT ![w] = begun']
    /\ mu' = IF Locked THEN w ELSE mu
    /\ UNCHANGED <<rx, garbled, timeouts>>

(* The frame is over, whole or not, and the lock is released.               *)
End(w) ==
    /\ next' = [next EXCEPT ![w] = 0]
    /\ mu' = IF Locked THEN None ELSE mu

(* What the receiver makes of piece k of frame f, which has n pieces.       *)
Receive(f, k, n) ==
    IF IF rx = None THEN k = 1 ELSE rx = [frame |-> f, piece |-> k]
    THEN /\ rx' = IF k = n THEN None ELSE [frame |-> f, piece |-> k + 1]
         /\ UNCHANGED garbled
    ELSE garbled' = TRUE /\ UNCHANGED rx

(* One conn.Write.                                                          *)
Put(w) ==
    /\ next[w] # 0
    /\ Receive(frame[w], next[w], size[w])
    /\ IF next[w] = size[w] THEN End(w)
       ELSE next' = [next EXCEPT ![w] = @ + 1] /\ UNCHANGED mu
    /\ UNCHANGED <<size, frame, begun, timeouts>>

(* A conn.Write returns a timeout, with nothing or a part of it written.    *)
TimeOut(w) ==
    /\ next[w] # 0
    /\ timeouts < MaxTimeouts
    /\ timeouts' = timeouts + 1
    /\ End(w)
    /\ IF rx = None /\ next[w] = 1
       THEN rx' \in {None, [frame |-> frame[w], piece |-> 1]}
       ELSE UNCHANGED rx
    /\ UNCHANGED <<size, frame, garbled, begun>>

------------------------------------------------------------------------------
Init ==
    /\ next = [w \in Writer |-> 0]
    /\ size = [w \in Writer |-> Pieces]
    /\ frame = [w \in Writer |-> 0]
    /\ mu = None
    /\ rx = None
    /\ garbled = FALSE
    /\ begun = 0
    /\ timeouts = 0

Step(w) == (\E n \in {Pieces - 1, Pieces} : Begin(w, n)) \/ Put(w) \/ TimeOut(w)

Next == \E w \in Writer : Step(w)

Spec == Init /\ [][Next]_vars

------------------------------------------------------------------------------
(* Properties.                                                              *)

(* Every variable has its type.                                             *)
TypeOK ==
    /\ next \in [Writer -> 0..Pieces]
    /\ size \in [Writer -> {Pieces - 1, Pieces}]
    /\ frame \in [Writer -> 0..MaxFrames]
    /\ mu \in Writer \cup {None}
    /\ rx \in [frame : 0..MaxFrames, piece : 1..Pieces] \cup {None}
    /\ garbled \in BOOLEAN
    /\ begun \in 0..MaxFrames
    /\ timeouts \in 0..MaxTimeouts

(* Under the lock the receiver reads frames one after the other and whole,  *)
(* whichever goroutines write them, as long as no Write times out.          *)
FramesWhole == Locked /\ timeouts = 0 => ~garbled

------------------------------------------------------------------------------
(* What comments say, and the code does not keep.                           *)

(* wsclient.go: writes are safe with those of other goroutines; main.go: mu *)
(* guards socket writes.                                                    *)
NeverGarbled == ~garbled
=============================================================================
