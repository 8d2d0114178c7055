------------------------------ MODULE MCPorts ------------------------------
(***************************************************************************)
(* The TLC instance of the helper's ports and sockets.  setting says what  *)
(* is looked at: the source that is polled, steered and swapped            *)
(* (SourceSwap), the CAT port under a serial source (SerialCat), a reader  *)
(* that joins frames to messages (WsRead) or the bytes of two frames       *)
(* (WsCodec).  The variables of the others keep their initial values.      *)
(***************************************************************************)
EXTENDS SourceSwap, Messages, Readings, WsCodec, TLC

CONSTANTS p1, p2, k1, boot, poll, com, a1

(* Two POSTs and a Bridge that steers; one serial port and one rigctld      *)
(* address.                                                                 *)
TwoPosts == {p1, p2}
OneSteer == {k1}
OnePort  == {com}
OneAddr  == {a1}
Symmetry == Permutations(TwoPosts)

Posted(s, p) == [source |-> s, port |-> p, addr |-> None]
Bodies   == {Posted("serial", com), Posted("serial", None), Posted("rigctld", None),
             Posted("iq", com)}
Defaults == [source |-> "serial", port |-> None, addr |-> a1]

(* Around the limits of the length field.                                   *)
Sizes   == {0, 1, 125, 126, 127, 128, 65535, 65536, 65537, 16777216}
Frames  == [op : {1, 9}, masked : BOOLEAN, n : Sizes]
NoFrame == [op |-> 1, masked |-> FALSE, n |-> 0]

VARIABLES
    setting,
    open, wire, hdr, msgOp, buf, pongs, broken, pings,                         \* WsRead
    port, asking, got, inbox, out, back, spent                                 \* SerialCat

readVars   == <<sent, delivered, split, deadlines, open, wire, hdr, msgOp, buf, pongs, broken,
                pings>>
serialVars == <<port, asking, got, inbox, out, back, reading, coming, spent>>
allVars    == <<setting, pair, vars, readVars, serialVars>>

(* Three commands, one frame unasked, one error.                            *)
C == INSTANCE SerialCat
    WITH MaxCommands <- 3, MaxStatus <- 1, MaxErrors <- 1, buf <- got

(* Three messages of up to three frames, two pings, one read deadline.      *)
R == INSTANCE WsRead
    WITH MaxMessages <- 3, MaxFrames <- 3, MaxPings <- 2, MaxDeadlines <- 1

ASSUME AllConstantsOK == C!ConstantsOK /\ R!ConstantsOK

------------------------------------------------------------------------------
MCInit ==
    /\ setting \in {"swap", "serial", "read", "codec"}
    /\ pair \in IF setting = "codec" THEN Frames \X Frames ELSE {<<NoFrame, NoFrame>>}
    /\ Init /\ R!Init /\ C!Init
    /\ setting # "swap" => cfg = Defaults

(* The reader and the CAT port come to rest at their bounds; the source     *)
(* that is polled never does.                                               *)
MCNext ==
    /\ UNCHANGED <<setting, pair>>
    /\ \/ setting = "swap" /\ Next /\ UNCHANGED <<readVars, serialVars>>
       \/ setting = "serial" /\ C!Next /\ UNCHANGED <<vars, readVars>>
       \/ setting = "read" /\ R!Next /\ UNCHANGED <<vars, serialVars>>
       \/ setting # "swap" /\ UNCHANGED <<vars, readVars, serialVars>>

MCSpec == MCInit /\ [][MCNext]_allVars

------------------------------------------------------------------------------
(* The types; the properties go by their names.                             *)

(* Every variable of the setting looked at has its type.                    *)
PortsTypeOK ==
    CASE setting = "serial" -> C!TypeOK
      [] setting = "read"   -> R!TypeOK
      [] OTHER              -> TypeOK
=============================================================================
