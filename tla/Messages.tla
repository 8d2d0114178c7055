------------------------------ MODULE Messages ------------------------------
(***************************************************************************)
(* The messages that SDRconnect sends to the helper over its WebSocket, and*)
(* those that readMessage hands to its callers (helper/wsclient.go).       *)
(* WsRead is how they get from one to the other.                           *)
(***************************************************************************)
EXTENDS Naturals, Sequences, SequencesExt

VARIABLES
    sent,       \* the peer: the payloads of each message it began
    delivered,  \* the messages the callers took
    split,      \* ghost: a read deadline passed inside a frame
    deadlines   \* ghost: read deadlines that have passed

------------------------------------------------------------------------------
(* Properties.                                                              *)

(* wsclient.go: without a deadline the messages are those that were sent,   *)
(* in order and whole, however they were cut into frames and mixed with     *)
(* pings; one between two frames may lose a message, and never delivers a   *)
(* part of one, or two as one.                                              *)
Reassembled ==
    /\ deadlines = 0 => IsPrefix(delivered, sent)
    /\ ~split => ToSet(delivered) \subseteq ToSet(sent)
=============================================================================
