------------------------------- MODULE WsRead -------------------------------
(***************************************************************************)
(* The helper's WebSocket client reading messages (helper/wsclient.go,     *)
(* readMessage and readFrameRaw) and its callers: sdrConnect.settle, which *)
(* puts a read deadline on the connection for a while, and the loops of    *)
(* sdrConnect.Start, which do not (helper/sdrconnect.go).                  *)
(*                                                                         *)
(* The peer sends text messages in one or more frames, and pings between   *)
(* them.  A frame is two units on the wire, its header and its payload;    *)
(* the payload of a data frame is <<message, part>>, for its contents.     *)
(***************************************************************************)
EXTENDS Messages

CONSTANTS
    None,
    MaxMessages,  \* bound: messages the peer begins
    MaxFrames,    \* bound: frames of a message
    MaxPings,     \* bound: pings the peer sends
    MaxDeadlines  \* bound: read deadlines that pass; settle is called once

Op == {"data", "continuation", "ping"}

ConstantsOK ==
    /\ {MaxMessages, MaxFrames, MaxPings, MaxDeadlines} \subseteq Nat
    /\ MaxFrames # 0
    /\ None \notin (Nat \X Nat) \cup [unit : {"header"}, op : Op, fin : BOOLEAN]

VARIABLES
    open,    \* the last message is not finished
    wire,    \* units sent and not read
    hdr,     \* readFrameRaw: the header read, or None
    msgOp,   \* readMessage's local: a data frame was read in this call
    buf,     \* readMessage's local: the payloads so far
    pongs,   \* pongs written
    broken,  \* a payload was read as a header
    pings    \* ghost: pings sent

readVars == <<hdr, msgOp, buf, delivered, pongs, broken, split>>
vars == <<sent, open, wire, readVars, pings, deadlines>>

------------------------------------------------------------------------------
(* The peer.                                                                *)

Header(op, fin) == [unit |-> "header", op |-> op, fin |-> fin]
Payload(n)      == [unit |-> "payload", n |-> n]

(* A frame that begins or continues a message.                              *)
SendData(fin) ==
    /\ IF open THEN Len(sent[Len(sent)]) < MaxFrames ELSE Len(sent) < MaxMessages
    /\ LET m == IF open THEN Len(sent) ELSE Len(sent) + 1
           p == <<m, IF open THEN Len(sent[m]) + 1 ELSE 1>>
       IN  /\ sent' = IF open THEN [sent EXCEPT ![m] = Append(@, p)] ELSE Append(sent, <<p>>)
           /\ wire' = wire \o <<Header(IF open THEN "continuation" ELSE "data", fin),
                                Payload(p)>>
    /\ open' = ~fin
    /\ UNCHANGED <<readVars, pings, deadlines>>

SendPing ==
    /\ pings < MaxPings
    /\ pings' = pings + 1
    /\ wire' = wire \o <<Header("ping", TRUE), Payload(None)>>
    /\ UNCHANGED <<sent, open, readVars, deadlines>>

------------------------------------------------------------------------------
(* readFrameRaw and readMessage.                                            *)

(* The header.  A payload in its place is taken for one, and nothing read   *)
(* after that is what was sent.                                             *)
ReadHeader ==
    /\ ~broken
    /\ hdr = None
    /\ wire # <<>>
    /\ wire' = Tail(wire)
    /\ IF Head(wire).unit = "header"
       THEN hdr' = Head(wire) /\ UNCHANGED broken
       ELSE broken' = TRUE /\ UNCHANGED hdr
    /\ UNCHANGED <<sent, open, msgOp, buf, delivered, pongs, split, pings, deadlines>>

(* The payload of the frame, when it is there.                              *)
Take ==
    /\ hdr # None
    /\ wire # <<>>
    /\ wire' = Tail(wire)
    /\ hdr' = None
    /\ UNCHANGED <<sent, open, broken, split, pings, deadlines>>

(* Mutant of ReadPing: the message is begun anew after a ping.              *)
ReadPingResets ==
    /\ Take
    /\ hdr.op = "ping"
    /\ pongs' = pongs + 1
    /\ buf' = <<>>
    /\ UNCHANGED <<msgOp, delivered>>

(* A ping is answered and reading goes on.                                  *)
ReadPing ==
    /\ Take
    /\ hdr.op = "ping"
    /\ pongs' = pongs + 1
    /\ UNCHANGED <<msgOp, buf, delivered>>

(* A data frame begins a message, a continuation adds to it; with FIN the   *)
(* call returns, and its callers ignore a message without an opcode.        *)
ReadData ==
    /\ Take
    /\ hdr.op # "ping"
    /\ LET begun == msgOp \/ hdr.op = "data"
           b == (IF hdr.op = "data" THEN <<>> ELSE buf) \o <<Head(wire).n>>
       IN  IF hdr.fin
           THEN /\ delivered' = IF begun THEN Append(delivered, b) ELSE delivered
                /\ msgOp' = FALSE
                /\ buf' = <<>>
           ELSE msgOp' = begun /\ buf' = b /\ UNCHANGED delivered
    /\ UNCHANGED pongs

(* Mutant of Deadline: the message begun before the deadline is kept.       *)
DeadlineKeeps ==
    /\ ~broken
    /\ deadlines < MaxDeadlines
    /\ deadlines' = deadlines + 1
    /\ hdr' = None
    /\ msgOp' = TRUE
    /\ buf' = <<>>
    /\ split' = (split \/ hdr # None)
    /\ UNCHANGED <<sent, open, wire, delivered, pongs, broken, pings>>

(* settle's deadline passes: readMessage returns an error, what it had read *)
(* is lost, and the next call starts with a header.                         *)
Deadline ==
    /\ ~broken
    /\ deadlines < MaxDeadlines
    /\ deadlines' = deadlines + 1
    /\ hdr' = None
    /\ msgOp' = FALSE
    /\ buf' = <<>>
    /\ split' = (split \/ hdr # None)
    /\ UNCHANGED <<sent, open, wire, delivered, pongs, broken, pings>>

------------------------------------------------------------------------------
Init ==
    /\ sent = <<>>
    /\ open = FALSE
    /\ wire = <<>>
    /\ hdr = None
    /\ msgOp = FALSE
    /\ buf = <<>>
    /\ delivered = <<>>
    /\ pongs = 0
    /\ broken = FALSE
    /\ split = FALSE
    /\ pings = 0 /\ deadlines = 0

Peer == SendPing \/ \E fin \in BOOLEAN : SendData(fin)

Next == Peer \/ ReadHeader \/ ReadPing \/ ReadData \/ Deadline

Spec == Init /\ [][Next]_vars

------------------------------------------------------------------------------
(* Properties.                                                              *)

(* Every variable has its type; buf is only there inside a message.         *)
TypeOK ==
    /\ \A i \in DOMAIN sent : sent[i] \in Seq(Nat \X Nat) /\ Len(sent[i]) \in 1..MaxFrames
    /\ Len(sent) <= MaxMessages
    /\ open \in BOOLEAN /\ msgOp \in BOOLEAN /\ broken \in BOOLEAN /\ split \in BOOLEAN
    /\ open => sent # <<>>
    /\ hdr # None => hdr.unit = "header"
    /\ buf \in Seq(Nat \X Nat) /\ Len(buf) <= MaxFrames
    /\ msgOp => buf # <<>>
    /\ pongs \in 0..MaxPings
    /\ pings \in 0..MaxPings /\ deadlines \in 0..MaxDeadlines

------------------------------------------------------------------------------
(* What comments say, and the code does not keep.                           *)

(* wsclient.go: readMessage returns the next complete application message.  *)
NextComplete == ~broken
=============================================================================
