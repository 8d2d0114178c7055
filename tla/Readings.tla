------------------------------ MODULE Readings ------------------------------
(***************************************************************************)
(* What a serial source reads from its radio (helper/serial.go, read).     *)
(* SerialCat is how it gets there.                                         *)
(***************************************************************************)
EXTENDS Naturals

CONSTANT Nothing

VARIABLES
    reading,  \* what the last read() returned: query, and command answered
    coming    \* ghost: commands whose answer the query found not yet arrived

------------------------------------------------------------------------------
(* Properties.                                                              *)

(* serial.go: "drop any stale / unsolicited status frames": a reading is    *)
(* the whole answer to its own query, or an answer that was still on its    *)
(* way when the query was sent; never a part of a frame, nor one that had   *)
(* come before the query.                                                   *)
StaleOnlyInTransit == reading # Nothing => reading.of \in coming \cup {reading.query}
=============================================================================
