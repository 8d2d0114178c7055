--------------------------- MODULE WsWriteProofs ---------------------------
(***************************************************************************)
(* Proofs about a WebSocket connection, in three parts: writers that share *)
(* it, for every set of writers and every number of conn.Writes a frame    *)
(* takes (WsWrite); the client that reads messages from it, for every      *)
(* number of messages, frames of a message, pings and deadlines (WsRead,   *)
(* as the instance R); and the bytes of a frame, for every length below    *)
(* 2^31 (WsCodec).  In the last part the leaves name SMT, since Zenon      *)
(* writes numbers in unary.                                                *)
(***************************************************************************)
EXTENDS WsWrite, Messages, WsCodec, TLAPS

(* No writer is beyond the end of its frame.                                *)
InFrame == \A w \in Writer : next[w] <= size[w]

(* Under the lock only its holder is inside a frame.                        *)
Turn == Locked => \A w \in Writer : next[w] # 0 => mu = w

(* Until a Write times out, the receiver waits for the very piece that the  *)
(* holder of the lock writes next, or for the first piece of a frame.       *)
InStep ==
    Locked /\ timeouts = 0 =>
        /\ ~garbled
        /\ rx = None => \A w \in Writer : next[w] \in {0, 1}
        /\ rx # None => /\ mu \in Writer
                        /\ next[mu] > 1
                        /\ rx = [frame |-> frame[mu], piece |-> next[mu]]

IInv == TypeOK /\ InFrame /\ Turn /\ InStep

(* The receiver's state has its type whatever a writer inside a frame sends *)
(* it.                                                                      *)
LEMMA ReceiveTyped ==
    ASSUME TypeOK, InFrame, NEW w \in Writer, next[w] # 0,
           Receive(frame[w], next[w], size[w])
    PROVE  /\ rx' \in [frame : 0..MaxFrames, piece : 1..Pieces] \cup {None}
           /\ garbled' \in BOOLEAN
<1> DEFINE Place == [frame : 0..MaxFrames, piece : 1..Pieces]
<1>1. next[w] \in 1..Pieces /\ size[w] \in Nat /\ next[w] <= size[w] /\ size[w] <= Pieces
  BY ConstantsOK DEF ConstantsOK, TypeOK, InFrame
<1>2. frame[w] \in 0..MaxFrames
  BY DEF TypeOK
<1>3. CASE garbled' = TRUE /\ UNCHANGED rx
  BY <1>3 DEF TypeOK
<1>4. CASE rx' = None /\ UNCHANGED garbled
  BY <1>4 DEF TypeOK
<1>5. ASSUME next[w] # size[w], rx' = [frame |-> frame[w], piece |-> next[w] + 1],
             UNCHANGED garbled
      PROVE  rx' \in Place /\ garbled' \in BOOLEAN
  <2>1. next[w] + 1 \in 1..Pieces
    BY <1>1, <1>5, ConstantsOK DEF ConstantsOK
  <2> QED
    BY <1>2, <1>5, <2>1 DEF TypeOK
<1> QED
  BY <1>3, <1>4, <1>5 DEF Receive

(* One frame is begun.                                                      *)
LEMMA BeginKeeps ==
    ASSUME IInv, NEW w \in Writer, NEW n \in {Pieces - 1, Pieces}, Begin(w, n)
    PROVE  IInv'
<1> USE ConstantsOK DEF ConstantsOK
<1>1. TypeOK'
  BY DEF IInv, TypeOK, Begin
<1>2. InFrame'
  BY DEF IInv, TypeOK, InFrame, Begin
<1>3. Turn'
  BY DEF IInv, TypeOK, Turn, Begin
<1>4. InStep'
  BY DEF IInv, TypeOK, Turn, InStep, Begin
<1> QED
  BY <1>1, <1>2, <1>3, <1>4 DEF IInv

(* One piece is written.                                                    *)
LEMMA PutKeeps ==
    ASSUME IInv, NEW w \in Writer, Put(w)
    PROVE  IInv'
<1> USE ConstantsOK DEF ConstantsOK
<1>1. /\ next[w] \in 1..Pieces /\ size[w] \in 1..Pieces /\ next[w] <= size[w]
      /\ next' = [next EXCEPT ![w] = IF next[w] = size[w] THEN 0 ELSE next[w] + 1]
      /\ mu' = IF next[w] = size[w] /\ Locked THEN None ELSE mu
      /\ UNCHANGED <<size, frame, begun, timeouts>>
  BY DEF IInv, TypeOK, InFrame, Put, End
<1>2. TypeOK'
  <2>1. /\ rx' \in [frame : 0..MaxFrames, piece : 1..Pieces] \cup {None}
        /\ garbled' \in BOOLEAN
    BY ReceiveTyped DEF IInv, Put
  <2>2. next' \in [Writer -> 0..Pieces] /\ mu' \in Writer \cup {None}
    BY <1>1 DEF IInv, TypeOK
  <2> QED
    BY <1>1, <2>1, <2>2 DEF IInv, TypeOK
<1>3. InFrame'
  BY <1>1 DEF IInv, TypeOK, InFrame
<1>4. Turn'
  BY <1>1 DEF IInv, TypeOK, Turn
<1>5. InStep'
  <2> SUFFICES ASSUME Locked, timeouts = 0 PROVE InStep'
    BY <1>1 DEF InStep
  <2>1. mu = w /\ \A v \in Writer \ {w} : next[v] = 0
    BY <1>1 DEF IInv, TypeOK, Turn
  <2>2. IF rx = None THEN next[w] = 1
        ELSE rx = [frame |-> frame[w], piece |-> next[w]]
    BY <1>1, <2>1 DEF IInv, InStep
  <2>3. /\ rx' = IF next[w] = size[w] THEN None
                 ELSE [frame |-> frame[w], piece |-> next[w] + 1]
        /\ UNCHANGED garbled
    BY <2>2 DEF Put, Receive
  <2>4. ~garbled'
    BY <2>3 DEF IInv, InStep
  <2>5. CASE next[w] = size[w]
    <3>1. \A v \in Writer : next'[v] = 0
      BY <1>1, <2>1, <2>5 DEF IInv, TypeOK
    <3> QED
      BY <2>3, <2>4, <2>5, <3>1 DEF InStep
  <2>6. CASE next[w] # size[w]
    <3>1. rx' # None /\ mu' = w /\ next'[w] = next[w] + 1
      <4>1. frame[w] \in Nat /\ next[w] + 1 \in Nat
        BY <1>1 DEF IInv, TypeOK
      <4> QED
        BY <1>1, <2>1, <2>3, <2>6, <4>1 DEF IInv, TypeOK
    <3>2. next'[w] > 1 /\ rx' = [frame |-> frame'[w], piece |-> next'[w]]
      BY <1>1, <2>3, <2>6, <3>1
    <3> QED
      BY <2>4, <3>1, <3>2 DEF InStep
  <2> QED
    BY <2>5, <2>6
<1> QED
  BY <1>2, <1>3, <1>4, <1>5 DEF IInv

(* A Write times out: InStep says nothing any more.                         *)
LEMMA TimeOutKeeps ==
    ASSUME IInv, NEW w \in Writer, TimeOut(w)
    PROVE  IInv'
<1> USE ConstantsOK DEF ConstantsOK
<1>1. TypeOK'
  <2>1. rx' \in [frame : 0..MaxFrames, piece : 1..Pieces] \cup {None}
    BY DEF IInv, TypeOK, TimeOut
  <2> QED
    BY <2>1 DEF IInv, TypeOK, TimeOut, End
<1>2. InFrame' /\ Turn'
  BY DEF IInv, TypeOK, InFrame, Turn, TimeOut, End
<1>3. InStep'
  BY DEF IInv, TypeOK, InStep, TimeOut
<1> QED
  BY <1>1, <1>2, <1>3 DEF IInv

(* The invariant holds in every reachable state.                            *)
LEMMA Inductive == Spec => []IInv
<1>1. Init => IInv
  <2> SUFFICES ASSUME Init PROVE IInv
    OBVIOUS
  <2>1. TypeOK
    <3>1. 0 \in 0..MaxFrames /\ 0 \in 0..MaxTimeouts /\ 0 \in 0..Pieces
      BY ConstantsOK DEF ConstantsOK
    <3> QED
      BY <3>1 DEF Init, TypeOK
  <2>2. InFrame
    <3> SUFFICES ASSUME NEW w \in Writer PROVE next[w] <= size[w]
      BY DEF InFrame
    <3>1. next[w] = 0 /\ size[w] = Pieces
      BY DEF Init
    <3> QED
      BY <3>1, ConstantsOK DEF ConstantsOK
  <2>3. Turn
    BY DEF Init, Turn
  <2>4. InStep
    <3>1. ~garbled
      BY Zenon DEF Init
    <3>2. rx = None /\ \A w \in Writer : next[w] \in {0, 1}
      BY DEF Init
    <3> QED
      BY <3>1, <3>2 DEF InStep
  <2> QED
    BY <2>1, <2>2, <2>3, <2>4 DEF IInv
<1>2. IInv /\ [Next]_vars => IInv'
  <2>1. CASE UNCHANGED vars
    BY <2>1 DEF vars, IInv, TypeOK, InFrame, Turn, InStep
  <2> QED
    BY <2>1, BeginKeeps, PutKeeps, TimeOutKeeps DEF Next, Step
<1> QED
  BY <1>1, <1>2, PTL DEF Spec

(* What the writers of a connection and its receiver keep has its type, with*)
(* the lock and without it.                                                 *)
THEOREM WriteTyped == Spec => []TypeOK
<1>1. IInv => TypeOK
  BY DEF IInv
<1> QED
  BY <1>1, Inductive, PTL

(* client.mu and wsWriteFrame: whichever goroutines send, the frames reach  *)
(* the Bridge whole and one after the other, until a Write times out.       *)
THEOREM LockKeepsFramesWhole == Spec => []FramesWhole
<1>1. IInv => FramesWhole
  BY DEF IInv, InStep, FramesWhole
<1> QED
  BY <1>1, Inductive, PTL

------------------------------------------------------------------------------
(* The client reading messages.                                             *)

CONSTANTS MaxMessages, MaxParts, MaxPings, MaxDeadlines
VARIABLES open, wire, hdr, msgOp, buf, pongs, broken, pings

R == INSTANCE WsRead WITH MaxFrames <- MaxParts

Pair == (Nat \ {0}) \X (Nat \ {0})
Unit == [unit : {"header"}, op : R!Op, fin : BOOLEAN]
        \cup [unit : {"payload"}, n : Pair \cup {None}]

(* A data payload that was sent, and one that is still to be read.          *)
Sent(p)   == p \in Pair /\ p[1] <= Len(sent) /\ p[2] <= Len(sent[p[1]])
OnWire(p) == p \in Pair /\ \E i \in 1..Len(wire) : wire[i].unit = "payload" /\ wire[i].n = p
Data(i)   == wire[i].unit = "payload" /\ wire[i].n \in Pair

Before(p, q) == p[1] < q[1] \/ (p[1] = q[1] /\ p[2] < q[2])

(* A message has all its frames.                                            *)
Done(m) == m < Len(sent) \/ ~open

(* The messages number their payloads.                                      *)
SentTyped ==
    /\ sent \in Seq(Seq(Pair))
    /\ open \in BOOLEAN
    /\ open => sent # <<>>
    /\ \A m \in 1..Len(sent) :
         /\ Len(sent[m]) # 0
         /\ \A j \in 1..Len(sent[m]) : sent[m][j] = <<m, j>>

(* A header says what its payload is.                                       *)
Fits(h, n) ==
    /\ h.op = "ping" <=> n \notin Pair
    /\ n \in Pair =>
         /\ Sent(n)
         /\ h.op = "data" <=> n[2] = 1
         /\ h.fin <=> n[2] = Len(sent[n[1]]) /\ Done(n[1])

(* Headers and payloads alternate, and the reader knows which comes next.   *)
Framed ==
    /\ wire \in Seq(Unit)
    /\ \A i \in 1..Len(wire) : wire[i].unit = "header" =>
         i < Len(wire) /\ wire[i + 1].unit = "payload" /\ Fits(wire[i], wire[i + 1].n)
    /\ \A i \in 1..Len(wire) :
         wire[i].unit = "payload" /\ i < Len(wire) => wire[i + 1].unit = "header"

Parsed ==
    IF hdr = None THEN wire # <<>> => wire[1].unit = "header"
    ELSE /\ hdr \in [unit : {"header"}, op : R!Op, fin : BOOLEAN]
         /\ wire # <<>> /\ wire[1].unit = "payload" /\ Fits(hdr, wire[1].n)

(* What is on the wire is in order, and nothing is missing behind it.       *)
InOrder ==
    /\ \A i, k \in 1..Len(wire) :
         i < k /\ Data(i) /\ Data(k) => Before(wire[i].n, wire[k].n)
    /\ \A p, q : OnWire(p) /\ Sent(q) /\ Before(p, q) => OnWire(q)

(* Everything after q is still to be read.                                  *)
Ahead(q) == \A p : Sent(p) => (OnWire(p) <=> Before(q, p))

(* The message that is being read: its frames so far, and not its last one. *)
Begun ==
    msgOp =>
      \E m \in 1..Len(sent) :
        /\ buf \in Seq(Pair) /\ Len(buf) # 0 /\ Len(buf) <= Len(sent[m])
        /\ \A j \in 1..Len(buf) : buf[j] = <<m, j>>
        /\ Ahead(<<m, Len(buf)>>)
        /\ Len(buf) < Len(sent[m]) \/ ~Done(m)
        /\ deadlines = 0 => m = Len(delivered) + 1

(* The messages that were read are messages that were sent; without a       *)
(* deadline they are the first ones, and the next one comes next.           *)
Read ==
    /\ delivered \in Seq(Seq(Pair))
    /\ \A i \in 1..Len(delivered) :
         \E m \in 1..Len(sent) : Done(m) /\ delivered[i] = sent[m]
    /\ deadlines = 0 =>
         /\ Len(delivered) <= Len(sent)
         /\ \A i \in 1..Len(delivered) : Done(i) /\ delivered[i] = sent[i]
         /\ ~msgOp => Ahead(<<Len(delivered) + 1, 0>>)

ReadInv ==
    /\ SentTyped /\ deadlines \in Nat
    /\ split => deadlines # 0
    /\ ~split => /\ Framed /\ Parsed /\ InOrder /\ Begun /\ Read
                 /\ ~broken /\ msgOp \in BOOLEAN

------------------------------------------------------------------------------
(* Two orders on pairs.                                                     *)

LEMMA Orders ==
    ASSUME NEW p \in Pair, NEW q \in Pair
    PROVE  /\ ~(Before(p, q) /\ Before(q, p))
           /\ Before(p, q) \/ Before(q, p) \/ p = q
           /\ \A r \in Pair : Before(p, q) /\ Before(q, r) => Before(p, r)
  BY DEF Pair, Before

(* What is first on the wire comes before what else is there.               *)
LEMMA HeadLeast ==
    ASSUME wire \in Seq(Unit), wire # <<>>, InOrder, Data(1), NEW p, OnWire(p)
    PROVE  p = wire[1].n \/ Before(wire[1].n, p)
<1>1. PICK i \in 1..Len(wire) : p \in Pair /\ wire[i].unit = "payload" /\ wire[i].n = p
  BY DEF OnWire
<1>2. CASE i = 1
  BY <1>1, <1>2
<1>3. CASE i # 1
  <2>1. 1 \in 1..Len(wire) /\ 1 < i
    BY <1>3
  <2> QED
    BY <1>1, <2>1 DEF InOrder, Data
<1> QED
  BY <1>2, <1>3

(* A unit is read from the wire.                                            *)
LEMMA TailIs ==
    ASSUME wire \in Seq(Unit), wire # <<>>, wire' = Tail(wire)
    PROVE  /\ wire' \in Seq(Unit) /\ Len(wire') = Len(wire) - 1
           /\ \A i \in 1..Len(wire') : i + 1 \in 1..Len(wire) /\ wire'[i] = wire[i + 1]
  OBVIOUS

LEMMA TailOnWire ==
    ASSUME wire \in Seq(Unit), wire # <<>>, InOrder, wire' = Tail(wire)
    PROVE  \A p : OnWire(p)' <=> OnWire(p) /\ ~(Data(1) /\ p = wire[1].n)
<1> SUFFICES ASSUME NEW p PROVE OnWire(p)' <=> OnWire(p) /\ ~(Data(1) /\ p = wire[1].n)
  OBVIOUS
<1>1. ASSUME OnWire(p)' PROVE OnWire(p) /\ ~(Data(1) /\ p = wire[1].n)
  <2>1. PICK i \in 1..Len(wire') :
          p \in Pair /\ wire'[i].unit = "payload" /\ wire'[i].n = p
    BY <1>1 DEF OnWire
  <2>2. i + 1 \in 1..Len(wire) /\ wire[i + 1].unit = "payload" /\ wire[i + 1].n = p
    BY <2>1, TailIs
  <2>3. Data(1) => Before(wire[1].n, p)
    <3>1. 1 \in 1..Len(wire) /\ 1 < i + 1
      BY <2>2
    <3> QED
      BY <2>1, <2>2, <3>1 DEF InOrder, Data
  <2>4. ~(Data(1) /\ p = wire[1].n)
    BY <2>1, <2>3, Orders
  <2> QED
    BY <2>1, <2>2, <2>4 DEF OnWire
<1>2. ASSUME OnWire(p), ~(Data(1) /\ p = wire[1].n) PROVE OnWire(p)'
  <2>1. PICK i \in 1..Len(wire) : p \in Pair /\ wire[i].unit = "payload" /\ wire[i].n = p
    BY <1>2 DEF OnWire
  <2>2. i # 1
    BY <1>2, <2>1 DEF Data
  <2>3. i - 1 \in 1..Len(wire') /\ wire'[i - 1] = wire[(i - 1) + 1] /\ (i - 1) + 1 = i
    BY <2>1, <2>2, TailIs
  <2> QED
    BY <2>1, <2>3 DEF OnWire
<1> QED
  BY <1>1, <1>2

LEMMA TailOrder ==
    ASSUME wire \in Seq(Unit), wire # <<>>, InOrder, wire' = Tail(wire), sent' = sent
    PROVE  InOrder'
<1>1. ASSUME NEW i \in 1..Len(wire'), NEW k \in 1..Len(wire'), i < k, Data(i)', Data(k)'
      PROVE  Before(wire'[i].n, wire'[k].n)
  <2>1. /\ i + 1 \in 1..Len(wire) /\ k + 1 \in 1..Len(wire) /\ i + 1 < k + 1
        /\ wire'[i] = wire[i + 1] /\ wire'[k] = wire[k + 1]
    BY <1>1, TailIs
  <2>2. Data(i + 1) /\ Data(k + 1)
    BY <1>1, <2>1 DEF Data
  <2> QED
    BY <2>1, <2>2 DEF InOrder
<1>2. ASSUME NEW p, NEW q, OnWire(p)', Sent(q)', Before(p, q) PROVE OnWire(q)'
  <2>1. OnWire(p) /\ ~(Data(1) /\ p = wire[1].n) /\ Sent(q)
    BY <1>2, TailOnWire DEF Sent
  <2>2. OnWire(q)
    BY <1>2, <2>1 DEF InOrder
  <2>3. ~(Data(1) /\ q = wire[1].n)
    <3> SUFFICES ASSUME Data(1), q = wire[1].n PROVE FALSE
      OBVIOUS
    <3>1. Before(q, p) /\ p \in Pair /\ q \in Pair
      BY <2>1, HeadLeast DEF OnWire, Data
    <3> QED
      BY <1>2, <3>1, Orders
  <2> QED
    BY <2>2, <2>3, TailOnWire
<1> QED
  BY <1>1, <1>2 DEF InOrder

LEMMA TailFramed ==
    ASSUME Framed, wire # <<>>, wire' = Tail(wire), UNCHANGED <<sent, open>>
    PROVE  Framed'
<1>1. /\ wire' \in Seq(Unit) /\ Len(wire') = Len(wire) - 1 /\ Len(wire) \in Nat
      /\ \A i \in 1..Len(wire') : i + 1 \in 1..Len(wire) /\ wire'[i] = wire[i + 1]
  BY TailIs DEF Framed
<1>2. ASSUME NEW i \in 1..Len(wire'), wire'[i].unit = "header"
      PROVE  i < Len(wire') /\ wire'[i + 1].unit = "payload" /\ Fits(wire[i], wire[i + 1].n)'
  <2>1. i + 1 \in 1..Len(wire) /\ wire'[i] = wire[i + 1]
    BY <1>1
  <2>2. i + 1 < Len(wire) /\ wire[(i + 1) + 1].unit = "payload"
        /\ Fits(wire[i + 1], wire[(i + 1) + 1].n)
    BY <1>2, <2>1 DEF Framed
  <2>3. i + 1 \in 1..Len(wire') /\ wire'[i + 1] = wire[(i + 1) + 1]
    BY <1>1, <2>1, <2>2
  <2>4. Fits(wire[i], wire[i + 1].n)'
    BY <2>1, <2>2, <2>3 DEF Fits, Sent, Done
  <2> QED
    BY <1>1, <2>1, <2>2, <2>3, <2>4
<1>3. ASSUME NEW i \in 1..Len(wire'), wire'[i].unit = "payload", i < Len(wire')
      PROVE  wire'[i + 1].unit = "header"
  <2>1. i + 1 \in 1..Len(wire) /\ wire'[i] = wire[i + 1] /\ i + 1 < Len(wire)
    BY <1>1, <1>3
  <2>2. i + 1 \in 1..Len(wire') /\ wire'[i + 1] = wire[(i + 1) + 1]
    BY <1>1, <1>3, <2>1
  <2> QED
    BY <1>3, <2>1, <2>2 DEF Framed
<1> QED
  BY <1>1, <1>2, <1>3 DEF Framed

(* What was begun and read is not affected by a header or a ping.           *)
LEMMA Quiet ==
    ASSUME ReadInv, ~split, \A p : OnWire(p)' <=> OnWire(p),
           UNCHANGED <<sent, open, msgOp, buf, delivered, deadlines>>
    PROVE  Begun' /\ Read'
<1>1. Begun'
  <2>1. SUFFICES ASSUME msgOp PROVE Begun'
    BY DEF Begun
  <2>2. PICK m \in 1..Len(sent) :
          /\ buf \in Seq(Pair) /\ Len(buf) # 0 /\ Len(buf) <= Len(sent[m])
          /\ \A j \in 1..Len(buf) : buf[j] = <<m, j>>
          /\ Ahead(<<m, Len(buf)>>)
          /\ Len(buf) < Len(sent[m]) \/ ~Done(m)
          /\ deadlines = 0 => m = Len(delivered) + 1
    BY <2>1 DEF ReadInv, Begun
  <2>3. Ahead(<<m, Len(buf)>>)'
    BY <2>2 DEF Ahead, Sent
  <2> QED
    BY <2>2, <2>3 DEF Begun, Done
<1>2. Read'
  <2>1. ASSUME deadlines = 0, ~msgOp PROVE Ahead(<<Len(delivered) + 1, 0>>)'
    BY <2>1 DEF Ahead, Sent, ReadInv, Read
  <2> QED
    BY <2>1 DEF ReadInv, Read, Done
<1> QED
  BY <1>1, <1>2

LEMMA HeaderStep == ASSUME R!ConstantsOK, ReadInv, R!ReadHeader PROVE ReadInv'
<1> USE DEF R!ReadHeader
<1>1. SentTyped' /\ deadlines' \in Nat /\ (split' => deadlines' # 0)
  BY DEF ReadInv, SentTyped
<1>2. SUFFICES ASSUME ~split
               PROVE  /\ Framed' /\ Parsed' /\ InOrder' /\ Begun' /\ Read'
                      /\ ~broken' /\ msgOp' \in BOOLEAN
  BY <1>1 DEF ReadInv
<1>3. /\ wire \in Seq(Unit) /\ wire # <<>> /\ wire' = Tail(wire) /\ Head(wire) = wire[1]
      /\ wire[1].unit = "header" /\ 1 \in 1..Len(wire) /\ wire[1] \in Unit
  BY <1>2 DEF ReadInv, Framed, Parsed
<1>4. 1 < Len(wire) /\ wire[2].unit = "payload" /\ Fits(wire[1], wire[2].n)
  BY <1>2, <1>3 DEF ReadInv, Framed
<1>5. hdr' = wire[1] /\ ~broken' /\ msgOp' \in BOOLEAN
  BY <1>2, <1>3 DEF ReadInv
<1>6. 1 \in 1..Len(wire') /\ wire'[1] = wire[2] /\ wire' # <<>>
  <2>1. Len(wire') = Len(wire) - 1 /\ Len(wire) \in Nat
    BY <1>3, TailIs
  <2>2. 1 \in 1..Len(wire') /\ 1 + 1 = 2
    BY <1>4, <2>1
  <2>3. wire'[1] = wire[1 + 1]
    BY <1>3, <2>2, TailIs
  <2>4. wire' # <<>>
    BY <2>2
  <2> QED
    BY <2>2, <2>3, <2>4
<1>7. hdr' \in [unit : {"header"}, op : R!Op, fin : BOOLEAN] /\ hdr' # None
  BY <1>3, <1>5 DEF Unit, R!ConstantsOK
<1>8. Parsed'
  <2>1. Fits(hdr, wire[1].n)'
    BY <1>4, <1>5, <1>6 DEF Fits, Sent, Done
  <2> QED
    BY <1>4, <1>6, <1>7, <2>1 DEF Parsed
<1>9. Framed' /\ InOrder'
  BY <1>2, <1>3, TailFramed, TailOrder DEF ReadInv
<1>10. ~Data(1)
  BY <1>3 DEF Data
<1>11. Begun' /\ Read'
  <2>1. \A p : OnWire(p)' <=> OnWire(p)
    BY <1>2, <1>3, <1>10, TailOnWire DEF ReadInv
  <2> QED
    BY <1>2, <2>1, Quiet DEF ReadInv
<1> QED
  BY <1>5, <1>8, <1>9, <1>11

(* After a payload comes a header.                                          *)
LEMMA TakeStep ==
    ASSUME ReadInv, ~split, R!Take
    PROVE  /\ SentTyped' /\ deadlines' = deadlines /\ ~split'
           /\ Framed' /\ Parsed' /\ InOrder' /\ ~broken'
           /\ wire \in Seq(Unit) /\ wire # <<>> /\ wire' = Tail(wire)
           /\ Head(wire) = wire[1] /\ wire[1].unit = "payload" /\ Fits(hdr, wire[1].n)
           /\ wire[1].n \in Pair \cup {None} /\ hdr.op \in R!Op /\ hdr.fin \in BOOLEAN
           /\ UNCHANGED <<sent, open, deadlines>>
<1> USE DEF R!Take
<1>1. /\ wire \in Seq(Unit) /\ wire # <<>> /\ wire' = Tail(wire) /\ Head(wire) = wire[1]
      /\ wire[1].unit = "payload" /\ Fits(hdr, wire[1].n)
      /\ hdr.op \in R!Op /\ hdr.fin \in BOOLEAN
      /\ 1 \in 1..Len(wire) /\ wire[1] \in Unit
  BY DEF ReadInv, Framed, Parsed
<1>2. wire[1].n \in Pair \cup {None}
  BY <1>1 DEF Unit
<1>3. Framed' /\ InOrder'
  BY <1>1, TailFramed, TailOrder DEF ReadInv
<1>4. Parsed'
  <2>1. SUFFICES ASSUME wire' # <<>> PROVE wire'[1].unit = "header"
    BY DEF Parsed
  <2>2. 1 \in 1..Len(wire') /\ 1 < Len(wire) /\ wire'[1] = wire[1 + 1]
    BY <1>1, <2>1, TailIs
  <2> QED
    BY <1>1, <2>2 DEF ReadInv, Framed
<1> QED
  BY <1>1, <1>2, <1>3, <1>4 DEF ReadInv, SentTyped

LEMMA PingStep == ASSUME ReadInv, R!ReadPing PROVE ReadInv'
<1>1. SentTyped' /\ deadlines' \in Nat /\ (split' => deadlines' # 0)
  BY DEF ReadInv, SentTyped, R!ReadPing, R!Take
<1>2. SUFFICES ASSUME ~split
               PROVE  /\ Framed' /\ Parsed' /\ InOrder' /\ Begun' /\ Read'
                      /\ ~broken' /\ msgOp' \in BOOLEAN
  BY <1>1 DEF ReadInv, R!ReadPing, R!Take
<1>3. R!Take /\ hdr.op = "ping" /\ UNCHANGED <<msgOp, buf, delivered>>
  BY DEF R!ReadPing
<1>4. ~Data(1)
  BY <1>2, <1>3, TakeStep DEF Fits, Data
<1>5. Begun' /\ Read'
  <2>1. \A p : OnWire(p)' <=> OnWire(p)
    BY <1>2, <1>3, <1>4, TakeStep, TailOnWire DEF ReadInv
  <2> QED
    BY <1>2, <1>3, <2>1, TakeStep, Quiet DEF R!Take
<1> QED
  BY <1>2, <1>3, <1>5, TakeStep DEF ReadInv

LEMMA DeadlineStep == ASSUME ReadInv, R!Deadline PROVE ReadInv'
<1> USE DEF R!Deadline
<1>1. SentTyped' /\ deadlines' \in Nat /\ deadlines' # 0
  BY DEF ReadInv, SentTyped
<1>2. SUFFICES ASSUME ~split'
               PROVE  /\ Framed' /\ Parsed' /\ InOrder' /\ Begun' /\ Read'
                      /\ ~broken' /\ msgOp' \in BOOLEAN
  BY <1>1 DEF ReadInv
<1>3. ~split /\ hdr = None /\ hdr' = None /\ msgOp' = FALSE
      /\ UNCHANGED <<sent, open, wire, delivered, broken>>
  BY <1>2
<1>4. Framed' /\ InOrder'
  BY <1>3 DEF ReadInv, Framed, InOrder, Fits, Sent, OnWire, Data, Done
<1>5. Parsed' /\ Begun'
  BY <1>3 DEF ReadInv, Parsed, Begun
<1>6. Read'
  BY <1>1, <1>3 DEF ReadInv, Read, Done
<1>7. msgOp' \in BOOLEAN
  BY <1>3
<1>8. ~broken'
  BY <1>3 DEF ReadInv
<1> QED
  BY <1>4, <1>5, <1>6, <1>7, <1>8

(* A frame is put on the wire.                                              *)
LEMMA FrameIs ==
    ASSUME wire \in Seq(Unit), NEW op \in R!Op, NEW fin \in BOOLEAN, NEW n \in Pair \cup {None},
           wire' = wire \o <<R!Header(op, fin), R!Payload(n)>>
    PROVE  /\ wire' \in Seq(Unit) /\ Len(wire') = Len(wire) + 2 /\ Len(wire) \in Nat
           /\ \A i \in 1..Len(wire) : i \in 1..Len(wire') /\ wire'[i] = wire[i]
           /\ wire'[Len(wire) + 1] = R!Header(op, fin)
           /\ wire'[Len(wire) + 2] = R!Payload(n)
           /\ R!Header(op, fin).unit = "header" /\ R!Payload(n).unit = "payload"
           /\ R!Payload(n).n = n
<1>1. R!Header(op, fin) \in Unit /\ R!Payload(n) \in Unit
  BY DEF Unit, R!Header, R!Payload
<1>2. /\ R!Header(op, fin).unit = "header" /\ R!Payload(n).unit = "payload"
      /\ R!Payload(n).n = n
  BY DEF R!Header, R!Payload
<1> DEFINE a == R!Header(op, fin)
           b == R!Payload(n)
<1> HIDE DEF a, b
<1>3. /\ (wire \o <<a, b>>)[Len(wire) + 1] = a
      /\ (wire \o <<a, b>>)[Len(wire) + 2] = b
      /\ Len(wire \o <<a, b>>) = Len(wire) + 2 /\ Len(wire) \in Nat
      /\ \A i \in 1..Len(wire) : (wire \o <<a, b>>)[i] = wire[i]
  OBVIOUS
<1>4. a \in Unit /\ b \in Unit
  BY <1>1 DEF a, b
<1>5. wire \o <<a, b>> \in Seq(Unit)
  BY <1>4
<1> QED
  BY <1>2, <1>3, <1>5 DEF a, b

LEMMA FrameOnWire ==
    ASSUME wire \in Seq(Unit), NEW op \in R!Op, NEW fin \in BOOLEAN, NEW n \in Pair \cup {None},
           wire' = wire \o <<R!Header(op, fin), R!Payload(n)>>
    PROVE  \A p : OnWire(p)' <=> OnWire(p) \/ (p \in Pair /\ p = n)
<1> SUFFICES ASSUME NEW p PROVE OnWire(p)' <=> OnWire(p) \/ (p \in Pair /\ p = n)
  OBVIOUS
<1> DEFINE L == Len(wire)
<1>1. /\ Len(wire') = L + 2 /\ L \in Nat
      /\ \A i \in 1..L : i \in 1..Len(wire') /\ wire'[i] = wire[i]
      /\ wire'[L + 1].unit = "header"
      /\ wire'[L + 2].unit = "payload" /\ wire'[L + 2].n = n
  BY FrameIs
<1> HIDE DEF L
<1>2. ASSUME OnWire(p)' PROVE OnWire(p) \/ (p \in Pair /\ p = n)
  <2>1. PICK i \in 1..Len(wire') :
          p \in Pair /\ wire'[i].unit = "payload" /\ wire'[i].n = p
    BY <1>2 DEF OnWire
  <2>2. i \in 1..L \/ i = L + 1 \/ i = L + 2
    BY <1>1, <2>1
  <2>3. CASE i \in 1..L
    BY <1>1, <2>1, <2>3 DEF OnWire, L
  <2> QED
    BY <1>1, <2>1, <2>2, <2>3
<1>3. ASSUME OnWire(p) PROVE OnWire(p)'
  <2>1. PICK i \in 1..L : p \in Pair /\ wire[i].unit = "payload" /\ wire[i].n = p
    BY <1>3 DEF OnWire, L
  <2> QED
    BY <1>1, <2>1 DEF OnWire
<1>4. ASSUME p \in Pair, p = n PROVE OnWire(p)'
  <2>1. L + 2 \in 1..Len(wire')
    BY <1>1
  <2> QED
    BY <1>1, <1>4, <2>1 DEF OnWire
<1> QED
  BY <1>2, <1>3, <1>4

(* The part that the peer sends next, and what is sent with it.             *)
NewPart == <<IF open THEN Len(sent) ELSE Len(sent) + 1,
             IF open THEN Len(sent[Len(sent)]) + 1 ELSE 1>>

LEMMA Grown ==
    ASSUME SentTyped, NEW fin \in BOOLEAN, R!SendData(fin)
    PROVE  /\ NewPart \in Pair /\ SentTyped'
           /\ \A p : Sent(p)' <=> Sent(p) \/ p = NewPart
           /\ \A p : Sent(p) => Before(p, NewPart)
           /\ \A m \in 1..Len(sent) :
                /\ m \in 1..Len(sent')
                /\ Done(m) => Done(m)' /\ sent'[m] = sent[m]
                /\ ~Done(m) => /\ NewPart = <<m, Len(sent[m]) + 1>>
                               /\ Len(sent'[m]) = Len(sent[m]) + 1
           /\ open <=> NewPart[2] # 1
           /\ fin <=> NewPart[2] = Len(sent'[NewPart[1]]) /\ (NewPart[1] < Len(sent') \/ ~open')
           /\ NewPart[1] = IF open THEN Len(sent) ELSE Len(sent) + 1
<1>1. /\ sent \in Seq(Seq(Pair)) /\ open \in BOOLEAN /\ (open => sent # <<>>)
      /\ Len(sent) \in Nat /\ (open' <=> ~fin) /\ open' \in BOOLEAN
      /\ \A m \in 1..Len(sent) :
           /\ sent[m] \in Seq(Pair) /\ Len(sent[m]) \in Nat \ {0}
           /\ \A j \in 1..Len(sent[m]) : sent[m][j] = <<m, j>>
  <2>1. sent \in Seq(Seq(Pair)) /\ Len(sent) \in Nat
    BY DEF SentTyped
  <2>2. ASSUME NEW m \in 1..Len(sent)
        PROVE  /\ sent[m] \in Seq(Pair) /\ Len(sent[m]) \in Nat \ {0}
               /\ \A j \in 1..Len(sent[m]) : sent[m][j] = <<m, j>>
    <3>1. sent[m] \in Seq(Pair)
      BY <2>1
    <3>2. Len(sent[m]) \in Nat
      BY <3>1
    <3> QED
      BY <3>1, <3>2 DEF SentTyped
  <2>3. open \in BOOLEAN /\ (open => sent # <<>>)
    BY DEF SentTyped
  <2>4. open' = ~fin
    BY DEF R!SendData
  <2>5. (open' <=> ~fin) /\ open' \in BOOLEAN
    BY <2>4
  <2> QED
    BY <2>1, <2>2, <2>3, <2>5
<1> DEFINE L == Len(sent)
<1>2. CASE open
  <2> DEFINE K == Len(sent[L])
             q == <<L, K + 1>>
  <2>1. L \in Nat \ {0} /\ L \in 1..L /\ K \in Nat \ {0} /\ sent[L] \in Seq(Pair)
    BY <1>1, <1>2
  <2>2. NewPart = q /\ q \in Pair /\ q[1] = L /\ q[2] = K + 1
    BY <1>2, <2>1 DEF NewPart, Pair
  <2>3. sent' = [sent EXCEPT ![L] = Append(sent[L], q)]
    BY <1>2 DEF R!SendData
  <2> DEFINE a == Append(sent[L], q)
  <2>4. /\ a \in Seq(Pair) /\ Len(a) = K + 1 /\ a[K + 1] = q
        /\ \A j \in 1..K : a[j] = sent[L][j]
    BY <2>1, <2>2
  <2> HIDE DEF a, q
  <2>5. /\ sent' \in Seq(Seq(Pair)) /\ Len(sent') = L /\ sent'[L] = a
        /\ \A m \in 1..L : m # L => sent'[m] = sent[m]
    BY <1>1, <2>1, <2>3, <2>4 DEF a
  <2> HIDE DEF K, L
  <2>6. \A m \in 1..L : Done(m) <=> m # L
    BY <1>1, <1>2 DEF Done, L
  <2>7. ASSUME NEW m \in 1..L
        PROVE  /\ Len(sent'[m]) # 0
               /\ \A j \in 1..Len(sent'[m]) : sent'[m][j] = <<m, j>>
    <3>1. CASE m = L
      <4>1. ASSUME NEW j \in 1..(K + 1) PROVE a[j] = <<L, j>>
        <5>1. CASE j \in 1..K
          BY <1>1, <2>1, <2>4, <5>1 DEF K, L
        <5>2. CASE j = K + 1
          BY <2>4, <5>2 DEF q
        <5> QED
          BY <2>1, <5>1, <5>2
      <4> QED
        BY <2>1, <2>4, <2>5, <3>1, <4>1
    <3>2. CASE m # L
      BY <1>1, <2>5, <3>2 DEF L
    <3> QED
      BY <3>1, <3>2
  <2>8. SentTyped'
    <3>1. sent' # <<>>
      BY <2>1, <2>5
    <3> QED
      BY <1>1, <2>5, <2>7, <3>1 DEF SentTyped
  <2>9. ASSUME NEW p PROVE Sent(p)' <=> Sent(p) \/ p = q
    <3>1. CASE p \notin Pair
      BY <2>2, <3>1 DEF Sent
    <3>2. CASE p \in Pair
      <4>1. p = <<p[1], p[2]>> /\ p[1] \in Nat \ {0} /\ p[2] \in Nat \ {0}
        BY <3>2 DEF Pair
      <4>2. CASE p[1] = L
        BY <2>1, <2>2, <2>4, <2>5, <3>2, <4>1, <4>2 DEF Sent, K, L, q
      <4>3. CASE p[1] # L
        BY <2>1, <2>2, <2>5, <3>2, <4>1, <4>3 DEF Sent, L, q
      <4> QED
        BY <4>2, <4>3
    <3> QED
      BY <3>1, <3>2
  <2>10. ASSUME NEW p, Sent(p) PROVE Before(p, q)
    BY <2>1, <2>2, <2>10 DEF Sent, Before, Pair, K, L
  <2>11. fin <=> q[2] = Len(sent'[q[1]]) /\ (q[1] < Len(sent') \/ ~open')
    <3>1. q[2] = Len(sent'[q[1]]) /\ ~(q[1] < Len(sent'))
      BY <2>1, <2>2, <2>4, <2>5
    <3> QED
      BY <1>1, <3>1
  <2>12. ASSUME NEW m \in 1..L
         PROVE  /\ m \in 1..Len(sent')
                /\ Done(m) => Done(m)' /\ sent'[m] = sent[m]
                /\ ~Done(m) => q = <<m, Len(sent[m]) + 1>> /\ Len(sent'[m]) = Len(sent[m]) + 1
    <3>1. CASE m = L
      BY <2>4, <2>5, <2>6, <3>1 DEF K, L, q
    <3>2. CASE m # L
      BY <1>1, <2>1, <2>5, <2>6, <3>2 DEF Done, L
    <3> QED
      BY <3>1, <3>2
  <2> QED
    BY <1>2, <2>1, <2>2, <2>8, <2>9, <2>10, <2>11, <2>12 DEF L
<1>3. CASE ~open
  <2> DEFINE q == <<L + 1, 1>>
             w == <<q>>
  <2>1. L \in Nat
    BY <1>1
  <2>2. NewPart = q /\ q \in Pair /\ q[1] = L + 1 /\ q[2] = 1
    BY <1>3, <2>1 DEF NewPart, Pair
  <2>3. sent' = Append(sent, w)
    BY <1>3 DEF R!SendData
  <2>4. w \in Seq(Pair) /\ Len(w) = 1 /\ w[1] = q
    BY <2>2
  <2> HIDE DEF w, q
  <2>5. /\ sent' \in Seq(Seq(Pair)) /\ Len(sent') = L + 1 /\ sent'[L + 1] = w
        /\ \A m \in 1..L : sent'[m] = sent[m]
    BY <1>1, <2>3, <2>4
  <2> HIDE DEF L
  <2>6. \A m \in 1..L : Done(m)
    BY <1>3 DEF Done
  <2>7. ASSUME NEW m \in 1..(L + 1)
        PROVE  /\ Len(sent'[m]) # 0
               /\ \A j \in 1..Len(sent'[m]) : sent'[m][j] = <<m, j>>
    <3>1. CASE m = L + 1
      <4>1. ASSUME NEW j \in 1..Len(w) PROVE w[j] = <<m, j>>
        <5>1. j = 1
          BY <2>4
        <5> QED
          BY <2>4, <3>1, <5>1 DEF q
      <4>2. sent'[m] = w
        BY <2>1, <2>5, <3>1
      <4>3. Len(sent'[m]) = 1
        BY <2>4, <4>2
      <4>4. \A j \in 1..Len(sent'[m]) : sent'[m][j] = <<m, j>>
        BY <4>1, <4>2, Zenon
      <4> QED
        BY <4>3, <4>4
    <3>2. CASE m \in 1..L
      BY <1>1, <2>5, <3>2 DEF L
    <3> QED
      BY <2>1, <3>1, <3>2
  <2>8. SentTyped'
    <3>1. sent' # <<>>
      BY <2>1, <2>5
    <3> QED
      BY <1>1, <2>5, <2>7, <3>1 DEF SentTyped
  <2>9. ASSUME NEW p PROVE Sent(p)' <=> Sent(p) \/ p = q
    <3>1. CASE p \notin Pair
      BY <2>2, <3>1 DEF Sent
    <3>2. CASE p \in Pair
      <4>1. p = <<p[1], p[2]>> /\ p[1] \in Nat \ {0} /\ p[2] \in Nat \ {0}
        BY <3>2 DEF Pair
      <4>2. CASE p[1] = L + 1
        <5>1. Len(sent'[p[1]]) = 1 /\ p[1] <= Len(sent')
          BY <2>1, <2>4, <2>5, <4>2
        <5>2. Sent(p)' <=> p[2] <= 1
          BY <3>2, <5>1 DEF Sent
        <5>3. p[2] <= 1 <=> p[2] = 1
          BY <4>1
        <5>4. p = q <=> p[2] = 1
          BY <2>2, <4>1, <4>2 DEF q
        <5>5. ~Sent(p)
          BY <2>1, <4>2 DEF Sent, L
        <5> QED
          BY <5>2, <5>3, <5>4, <5>5
      <4>3. CASE p[1] # L + 1
        <5>1. Sent(p)' <=> Sent(p)
          BY <2>1, <2>5, <3>2, <4>1, <4>3 DEF Sent, L
        <5> QED
          BY <2>2, <4>3, <5>1
      <4> QED
        BY <4>2, <4>3
    <3> QED
      BY <3>1, <3>2
  <2>10. ASSUME NEW p, Sent(p) PROVE Before(p, q)
    BY <2>1, <2>2, <2>10 DEF Sent, Before, Pair, L
  <2>11. fin <=> q[2] = Len(sent'[q[1]]) /\ (q[1] < Len(sent') \/ ~open')
    <3>1. q[2] = Len(sent'[q[1]]) /\ ~(q[1] < Len(sent'))
      BY <2>1, <2>2, <2>4, <2>5
    <3> QED
      BY <1>1, <3>1
  <2>12. ASSUME NEW m \in 1..L
         PROVE  /\ m \in 1..Len(sent')
                /\ Done(m) => Done(m)' /\ sent'[m] = sent[m]
                /\ ~Done(m) => q = <<m, Len(sent[m]) + 1>> /\ Len(sent'[m]) = Len(sent[m]) + 1
    BY <2>1, <2>5, <2>6 DEF Done
  <2> QED
    BY <1>3, <2>1, <2>2, <2>8, <2>9, <2>10, <2>11, <2>12 DEF L
<1> QED
  BY <1>2, <1>3

(* What is on the wire was sent.                                            *)
LEMMA OnWireSent ==
    ASSUME ReadInv, ~split, NEW p, OnWire(p)
    PROVE  Sent(p)
<1>1. PICK i \in 1..Len(wire) : p \in Pair /\ wire[i].unit = "payload" /\ wire[i].n = p
  BY DEF OnWire
<1>2. CASE i = 1
  <2>1. wire # <<>>
    BY <1>2
  <2> QED
    BY <1>1, <1>2, <2>1 DEF ReadInv, Parsed, Fits
<1>3. CASE i # 1
  <2>1. i - 1 \in 1..Len(wire) /\ i - 1 < Len(wire) /\ (i - 1) + 1 = i
    BY <1>3 DEF ReadInv, Framed
  <2>2. wire[i - 1] \in Unit
    BY <2>1 DEF ReadInv, Framed
  <2>3. wire[i - 1].unit = "header"
    BY <1>1, <2>1, <2>2 DEF ReadInv, Framed, Unit
  <2>4. Fits(wire[i - 1], wire[i].n)
    BY <2>1, <2>3 DEF ReadInv, Framed
  <2> QED
    BY <1>1, <2>4 DEF Fits
<1> QED
  BY <1>2, <1>3

(* What a header says stays true while the peer goes on.                    *)
LEMMA FitsStay ==
    ASSUME SentTyped, NEW fin \in BOOLEAN, R!SendData(fin), NEW h, NEW n \in Pair, Sent(n),
           h.fin <=> n[2] = Len(sent[n[1]]) /\ Done(n[1])
    PROVE  /\ n[1] <= Len(sent') /\ n[2] <= Len(sent'[n[1]])
           /\ h.fin <=> n[2] = Len(sent'[n[1]]) /\ (n[1] < Len(sent') \/ ~open')
<1>1. n[1] \in 1..Len(sent) /\ n[2] \in Nat /\ n[2] <= Len(sent[n[1]])
  BY DEF Sent, Pair, SentTyped
<1>2. Len(sent[n[1]]) \in Nat
  BY <1>1 DEF SentTyped
<1>3. n[1] <= Len(sent')
  BY <1>1, Grown DEF SentTyped
<1>4. CASE Done(n[1])
  <2>1. sent'[n[1]] = sent[n[1]] /\ (n[1] < Len(sent') \/ ~open')
    BY <1>1, <1>4, Grown DEF Done
  <2> QED
    BY <1>1, <1>3, <1>4, <2>1
<1>5. CASE ~Done(n[1])
  <2>1. Len(sent'[n[1]]) = Len(sent[n[1]]) + 1
    BY <1>1, <1>5, Grown
  <2> QED
    BY <1>1, <1>2, <1>3, <1>5, <2>1
<1> QED
  BY <1>4, <1>5

LEMMA FrameFramed ==
    ASSUME Framed, NEW op \in R!Op, NEW fin \in BOOLEAN, NEW n \in Pair \cup {None},
           wire' = wire \o <<R!Header(op, fin), R!Payload(n)>>,
           Fits(R!Header(op, fin), n)',
           \A i \in 1..Len(wire) :
             i < Len(wire) /\ Fits(wire[i], wire[i + 1].n) /\ wire'[i] = wire[i]
               /\ wire'[i + 1] = wire[i + 1] => Fits(wire[i], wire[i + 1].n)'
    PROVE  Framed'
<1> DEFINE L == Len(wire)
<1>1. /\ wire' \in Seq(Unit) /\ Len(wire') = L + 2 /\ L \in Nat
      /\ \A i \in 1..L : i \in 1..Len(wire') /\ wire'[i] = wire[i]
      /\ wire'[L + 1] = R!Header(op, fin) /\ wire'[L + 2] = R!Payload(n)
      /\ R!Header(op, fin).unit = "header" /\ R!Payload(n).unit = "payload"
      /\ R!Payload(n).n = n
  BY FrameIs DEF Framed
<1>2. ASSUME NEW i \in 1..Len(wire'), wire'[i].unit = "header"
      PROVE  i < Len(wire') /\ wire'[i + 1].unit = "payload" /\ Fits(wire[i], wire[i + 1].n)'
  <2>1. CASE i \in 1..L
    <3>1. wire[i].unit = "header"
      BY <1>1, <1>2, <2>1
    <3>2. i < L /\ wire[i + 1].unit = "payload" /\ Fits(wire[i], wire[i + 1].n)
      BY <2>1, <3>1 DEF Framed
    <3>3. wire'[i] = wire[i] /\ wire'[i + 1] = wire[i + 1]
      BY <1>1, <2>1, <3>2
    <3>4. Fits(wire[i], wire[i + 1].n)'
      BY <2>1, <3>2, <3>3
    <3>5. i < Len(wire') /\ wire'[i + 1].unit = "payload"
      BY <1>1, <2>1, <3>2, <3>3
    <3> QED
      BY <3>4, <3>5
  <2>2. CASE i = L + 1
    <3>1. wire'[i] = R!Header(op, fin) /\ wire'[i + 1] = R!Payload(n) /\ i < Len(wire')
      BY <1>1, <2>2
    <3>2. Fits(wire[i], wire[i + 1].n)'
      <4>1. wire'[i + 1].n = n
        BY <1>1, <3>1
      <4> QED
        BY <3>1, <4>1, Zenon DEF Fits
    <3> QED
      BY <1>1, <3>1, <3>2
  <2>3. i # L + 2
    BY <1>1, <1>2
  <2> QED
    BY <1>1, <2>1, <2>2, <2>3
<1>3. ASSUME NEW i \in 1..Len(wire'), wire'[i].unit = "payload", i < Len(wire')
      PROVE  wire'[i + 1].unit = "header"
  <2>1. i # L + 1
    BY <1>1, <1>3
  <2>2. i \in 1..L /\ wire[i].unit = "payload"
    BY <1>1, <1>3, <2>1
  <2>3. CASE i = L
    BY <1>1, <2>3
  <2>4. CASE i < L
    <3>1. wire[i + 1].unit = "header" /\ i + 1 \in 1..L
      BY <1>1, <2>2, <2>4 DEF Framed
    <3> QED
      BY <1>1, <3>1
  <2> QED
    BY <1>1, <2>2, <2>3, <2>4
<1> QED
  BY <1>1, <1>2, <1>3 DEF Framed

(* The reader still knows which unit comes next.                            *)
LEMMA FrameParsed ==
    ASSUME Framed, Parsed, NEW op \in R!Op, NEW fin \in BOOLEAN, NEW n \in Pair \cup {None},
           wire' = wire \o <<R!Header(op, fin), R!Payload(n)>>, hdr' = hdr,
           wire # <<>> /\ Fits(hdr, wire[1].n) /\ wire'[1] = wire[1] => Fits(hdr, wire[1].n)'
    PROVE  Parsed'
<1>1. /\ Len(wire') = Len(wire) + 2 /\ Len(wire) \in Nat
      /\ \A i \in 1..Len(wire) : wire'[i] = wire[i]
      /\ wire'[Len(wire) + 1].unit = "header"
  BY FrameIs DEF Framed
<1>2. wire' # <<>>
  BY <1>1
<1>3. CASE wire # <<>>
  <2>1. 1 \in 1..Len(wire)
    BY <1>3 DEF Framed
  <2>2. wire'[1] = wire[1]
    BY <1>1, <2>1
  <2> QED
    BY <1>2, <1>3, <2>2 DEF Parsed
<1>4. CASE wire = <<>>
  <2>1. Len(wire) = 0
    BY <1>4
  <2> QED
    BY <1>1, <1>4, <2>1 DEF Parsed
<1> QED
  BY <1>3, <1>4

(* Sending leaves what is on the wire in order.                             *)
LEMMA SendInOrder ==
    ASSUME ReadInv, ~split, NEW op \in R!Op, NEW fin \in BOOLEAN, NEW n \in Pair \cup {None},
           None \notin Pair,
           wire' = wire \o <<R!Header(op, fin), R!Payload(n)>>,
           \A p : Sent(p)' <=> Sent(p) \/ (p \in Pair /\ p = n),
           n \in Pair => \A p : Sent(p) => Before(p, n)
    PROVE  InOrder'
<1> DEFINE L == Len(wire)
<1>1. /\ Len(wire') = L + 2 /\ L \in Nat
      /\ \A i \in 1..L : wire'[i] = wire[i]
      /\ wire'[L + 1].unit = "header" /\ wire'[L + 2].unit = "payload" /\ wire'[L + 2].n = n
  BY FrameIs DEF ReadInv, Framed
<1>2. \A p : OnWire(p)' <=> OnWire(p) \/ (p \in Pair /\ p = n)
  BY FrameOnWire DEF ReadInv, Framed
<1>3. ASSUME NEW i \in 1..Len(wire'), NEW k \in 1..Len(wire'), i < k, Data(i)', Data(k)'
      PROVE  Before(wire'[i].n, wire'[k].n)
  <2>1. i # L + 1 /\ k # L + 1
    BY <1>1, <1>3 DEF Data
  <2>2. i \in 1..L /\ (k \in 1..L \/ k = L + 2)
    BY <1>1, <1>3, <2>1
  <2>3. Data(i) /\ wire'[i] = wire[i]
    BY <1>1, <1>3, <2>2 DEF Data
  <2>4. CASE k \in 1..L
    <3>1. Data(k) /\ wire'[k] = wire[k]
      BY <1>1, <1>3, <2>4 DEF Data
    <3> QED
      BY <1>3, <2>2, <2>3, <2>4, <3>1 DEF ReadInv, InOrder
  <2>5. CASE k = L + 2
    <3>1. OnWire(wire[i].n)
      BY <2>2, <2>3 DEF OnWire, Data
    <3>2. Sent(wire[i].n)
      BY <3>1, OnWireSent
    <3> QED
      BY <1>1, <1>3, <2>3, <2>5, <3>2 DEF Data
  <2> QED
    BY <2>2, <2>4, <2>5
<1>4. ASSUME NEW p, NEW q, OnWire(p)', Sent(q)', Before(p, q) PROVE OnWire(q)'
  <2>1. CASE q \in Pair /\ q = n
    BY <1>2, <2>1
  <2>2. CASE Sent(q) /\ ~(q \in Pair /\ q = n)
    <3>1. p \in Pair /\ q \in Pair
      BY <1>4, <2>2 DEF OnWire, Sent
    <3>2. ~(p = n)
      BY <1>4, <2>2, <3>1, Orders
    <3>3. OnWire(p)
      BY <1>2, <1>4, <3>2
    <3> QED
      BY <1>2, <1>4, <2>2, <3>3 DEF ReadInv, InOrder
  <2> QED
    BY <1>4, <2>1, <2>2
<1> QED
  BY <1>3, <1>4 DEF InOrder

LEMMA SendPingStep == ASSUME R!ConstantsOK, ReadInv, R!SendPing PROVE ReadInv'
<1>1. SentTyped' /\ deadlines' \in Nat /\ (split' => deadlines' # 0)
  BY DEF ReadInv, SentTyped, R!SendPing, R!readVars
<1>2. SUFFICES ASSUME ~split
               PROVE  /\ Framed' /\ Parsed' /\ InOrder' /\ Begun' /\ Read'
                      /\ ~broken' /\ msgOp' \in BOOLEAN
  BY <1>1 DEF ReadInv, R!SendPing, R!readVars
<1>3. /\ UNCHANGED <<sent, open, hdr, msgOp, buf, delivered, broken, split, deadlines>>
      /\ wire' = wire \o <<R!Header("ping", TRUE), R!Payload(None)>>
  BY DEF R!SendPing, R!readVars
<1>4. None \notin Pair /\ "ping" \in R!Op /\ TRUE \in BOOLEAN /\ None \in Pair \cup {None}
  BY DEF R!ConstantsOK, R!Op, Pair
<1>5. Framed'
  <2>1. Fits(R!Header("ping", TRUE), None)'
    BY <1>4 DEF Fits, R!Header
  <2>2. \A i \in 1..Len(wire) :
          i < Len(wire) /\ Fits(wire[i], wire[i + 1].n) /\ wire'[i] = wire[i]
            /\ wire'[i + 1] = wire[i + 1] => Fits(wire[i], wire[i + 1].n)'
    BY <1>3 DEF Fits, Sent, Done
  <2> QED
    BY <1>2, <1>3, <1>4, <2>1, <2>2, FrameFramed DEF ReadInv
<1>6. Parsed'
  <2>1. wire # <<>> /\ Fits(hdr, wire[1].n) /\ wire'[1] = wire[1] => Fits(hdr, wire[1].n)'
    BY <1>3 DEF Fits, Sent, Done
  <2> QED
    BY <1>2, <1>3, <1>4, <2>1, FrameParsed DEF ReadInv
<1>7. InOrder'
  <2>1. \A p : Sent(p)' <=> Sent(p) \/ (p \in Pair /\ p = None)
    BY <1>3, <1>4 DEF Sent
  <2> QED
    BY <1>2, <1>3, <1>4, <2>1, SendInOrder
<1>8. Begun' /\ Read'
  <2>1. \A p : OnWire(p)' <=> OnWire(p)
    BY <1>2, <1>3, <1>4, FrameOnWire DEF ReadInv, Framed
  <2> QED
    BY <1>2, <1>3, <2>1, Quiet
<1>9. ~broken' /\ msgOp' \in BOOLEAN
  BY <1>2, <1>3 DEF ReadInv
<1> QED
  BY <1>5, <1>6, <1>7, <1>8, <1>9

(* What is sent next is still to be read, after everything that was.        *)
LEMMA AheadStays ==
    ASSUME SentTyped, NEW fin \in BOOLEAN, R!SendData(fin),
           \A p : OnWire(p)' <=> OnWire(p) \/ (p \in Pair /\ p = NewPart),
           NEW q, Ahead(q), Before(q, NewPart)
    PROVE  \A p : Sent(p)' => (OnWire(p)' <=> Before(q, p))
<1> TAKE p
<1> HAVE Sent(p)'
<1>1. NewPart \in Pair /\ (Sent(p) \/ p = NewPart)
  BY Grown
<1>2. CASE p = NewPart
  BY <1>1, <1>2
<1>3. CASE Sent(p) /\ p # NewPart
  BY <1>3 DEF Ahead
<1> QED
  BY <1>1, <1>2, <1>3

LEMMA SendDataStep ==
    ASSUME R!ConstantsOK, ReadInv, NEW fin \in BOOLEAN, R!SendData(fin) PROVE ReadInv'
<1>1. SentTyped' /\ deadlines' \in Nat /\ (split' => deadlines' # 0)
  BY Grown DEF ReadInv, R!SendData, R!readVars
<1>2. SUFFICES ASSUME ~split
               PROVE  /\ Framed' /\ Parsed' /\ InOrder' /\ Begun' /\ Read'
                      /\ ~broken' /\ msgOp' \in BOOLEAN
  BY <1>1 DEF ReadInv, R!SendData, R!readVars
<1>3. PICK op, n : op = (IF open THEN "continuation" ELSE "data") /\ n = NewPart
  OBVIOUS
<1>4. /\ UNCHANGED <<hdr, msgOp, buf, delivered, broken, split, deadlines>>
      /\ wire' = wire \o <<R!Header(op, fin), R!Payload(n)>>
  <2>1. CASE open
    BY <1>3, <2>1 DEF R!SendData, R!readVars, NewPart
  <2>2. CASE ~open
    BY <1>3, <2>2 DEF R!SendData, R!readVars, NewPart
  <2> QED
    BY <2>1, <2>2
<1>5. /\ op \in R!Op /\ op # "ping" /\ n \in Pair /\ n \in Pair \cup {None}
      /\ None \notin Pair /\ SentTyped /\ Framed /\ Parsed /\ InOrder /\ Begun /\ Read
      /\ open \in BOOLEAN
  BY <1>3, <1>2, Grown DEF R!ConstantsOK, R!Op, Pair, ReadInv, SentTyped
<1>6. op = "data" <=> n[2] = 1
  <2>1. open <=> n[2] # 1
    BY <1>5, <1>3, Grown
  <2> QED
    BY <1>3, <1>5, <2>1
<1>7. Fits(R!Header(op, fin), n)'
  <2>1. R!Header(op, fin).op = op /\ R!Header(op, fin).fin = fin
    BY DEF R!Header
  <2>2. Sent(n)'
    BY <1>5, <1>3, Grown
  <2>3. fin <=> n[2] = Len(sent'[n[1]]) /\ (n[1] < Len(sent') \/ ~open')
    BY <1>5, <1>3, Grown
  <2> QED
    BY <1>5, <1>6, <2>1, <2>2, <2>3 DEF Fits, Done
<1>8. ASSUME NEW h, NEW q, Fits(h, q)
      PROVE  /\ h.op = "ping" <=> q \notin Pair
             /\ q \in Pair =>
                  /\ q[1] <= Len(sent') /\ q[2] <= Len(sent'[q[1]])
                  /\ h.op = "data" <=> q[2] = 1
                  /\ h.fin <=> q[2] = Len(sent'[q[1]]) /\ (q[1] < Len(sent') \/ ~open')
  BY <1>5, <1>8, FitsStay DEF Fits
<1>9. Framed'
  <2>1. ASSUME NEW i \in 1..Len(wire), i < Len(wire), Fits(wire[i], wire[i + 1].n),
               wire'[i] = wire[i], wire'[i + 1] = wire[i + 1]
        PROVE  Fits(wire[i], wire[i + 1].n)'
    BY <1>8, <2>1 DEF Fits, Sent, Done
  <2> QED
    BY <1>4, <1>5, <1>7, <2>1, FrameFramed
<1>10. Parsed'
  <2>1. ASSUME wire # <<>>, Fits(hdr, wire[1].n), wire'[1] = wire[1]
        PROVE  Fits(hdr, wire[1].n)'
    BY <1>4, <1>8, <2>1 DEF Fits, Sent, Done
  <2> QED
    BY <1>4, <1>5, <2>1, FrameParsed
<1>11. InOrder'
  <2>1. \A p : Sent(p)' <=> Sent(p) \/ (p \in Pair /\ p = n)
    BY <1>5, <1>3, Grown
  <2>2. \A p : Sent(p) => Before(p, n)
    BY <1>5, <1>3, Grown
  <2> QED
    BY <1>2, <1>4, <1>5, <2>1, <2>2, SendInOrder
<1>12. \A p : OnWire(p)' <=> OnWire(p) \/ (p \in Pair /\ p = NewPart)
  BY <1>4, <1>3, <1>5, FrameOnWire DEF Framed
<1>13. Len(sent) \in Nat /\ \A m \in 1..Len(sent) : Len(sent[m]) \in Nat \ {0}
  BY <1>5 DEF SentTyped
<1>14. Begun'
  <2>1. SUFFICES ASSUME msgOp PROVE Begun'
    BY <1>4 DEF Begun
  <2>2. PICK m \in 1..Len(sent) :
          /\ buf \in Seq(Pair) /\ Len(buf) # 0 /\ Len(buf) <= Len(sent[m])
          /\ \A j \in 1..Len(buf) : buf[j] = <<m, j>>
          /\ Ahead(<<m, Len(buf)>>)
          /\ Len(buf) < Len(sent[m]) \/ ~Done(m)
          /\ deadlines = 0 => m = Len(delivered) + 1
    BY <1>5, <2>1 DEF Begun
  <2>3. Len(buf) \in Nat \ {0} /\ Len(sent[m]) \in Nat /\ m \in Nat \ {0}
    BY <1>13, <2>2
  <2>4. Sent(<<m, Len(buf)>>)
    BY <1>13, <2>2, <2>3 DEF Sent, Pair
  <2>5. Ahead(<<m, Len(buf)>>)'
    BY <1>4, <1>5, <1>12, <2>2, <2>4, Grown, AheadStays DEF Ahead
  <2>6. m \in 1..Len(sent') /\ Len(buf) <= Len(sent'[m])
        /\ (Len(buf) < Len(sent'[m]) \/ ~Done(m)')
    <3>1. CASE Done(m)
      BY <1>5, <2>2, <3>1, Grown
    <3>2. CASE ~Done(m)
      <4>1. m \in 1..Len(sent') /\ Len(sent'[m]) = Len(sent[m]) + 1
        BY <1>5, <3>2, Grown
      <4> QED
        BY <2>2, <2>3, <4>1
    <3> QED
      BY <3>1, <3>2
  <2> QED
    BY <1>4, <2>2, <2>5, <2>6 DEF Begun
<1>15. Read'
  <2>1. ASSUME NEW i \in 1..Len(delivered)
        PROVE  \E m \in 1..Len(sent') : Done(m)' /\ delivered[i] = sent'[m]
    <3>1. PICK m \in 1..Len(sent) : Done(m) /\ delivered[i] = sent[m]
      BY <1>5 DEF Read
    <3>2. m \in 1..Len(sent') /\ Done(m)' /\ sent'[m] = sent[m]
      BY <1>5, <3>1, Grown
    <3> QED
      BY <3>1, <3>2
  <2>2. ASSUME deadlines = 0
        PROVE  /\ Len(delivered) <= Len(sent')
               /\ \A i \in 1..Len(delivered) : Done(i)' /\ delivered[i] = sent'[i]
               /\ ~msgOp => \A p : Sent(p)' => (OnWire(p)' <=> Before(<<Len(delivered) + 1, 0>>, p))
    <3> DEFINE D == Len(delivered)
    <3>1. /\ D \in Nat /\ D <= Len(sent)
          /\ \A i \in 1..D : i \in 1..Len(sent) /\ Done(i) /\ delivered[i] = sent[i]
          /\ ~msgOp => Ahead(<<D + 1, 0>>)
      BY <1>5, <1>13, <2>2 DEF Read
    <3> HIDE DEF D
    <3>2. \A i \in 1..D : i \in 1..Len(sent') /\ Done(i)' /\ delivered[i] = sent'[i]
      BY <1>5, <3>1, Grown
    <3>3. D <= Len(sent')
      <4>1. Len(sent') \in Nat
        BY <1>1 DEF SentTyped
      <4>2. D = 0 \/ D \in 1..D
        BY <3>1
      <4> QED
        BY <3>1, <3>2, <4>1, <4>2
    <3>4. Before(<<D + 1, 0>>, NewPart)
      <4>1. NewPart[1] = IF open THEN Len(sent) ELSE Len(sent) + 1
        BY <1>5, Grown
      <4>2. NewPart[2] \in Nat \ {0} /\ NewPart[1] \in Nat
        BY <1>5, <1>3 DEF Pair
      <4>3. open => D # Len(sent)
        <5>1. SUFFICES ASSUME open, D = Len(sent) PROVE FALSE
          OBVIOUS
        <5>2. D \in 1..D
          BY <1>5, <1>13, <3>1, <5>1 DEF SentTyped
        <5> QED
          BY <1>13, <3>1, <5>1, <5>2 DEF Done
      <4>4. D + 1 <= NewPart[1]
        BY <1>5, <1>13, <3>1, <4>1, <4>3
      <4> QED
        BY <3>1, <4>2, <4>4 DEF Before
    <3>5. ASSUME ~msgOp
          PROVE  \A p : Sent(p)' => (OnWire(p)' <=> Before(<<D + 1, 0>>, p))
      BY <1>5, <1>12, <3>1, <3>4, <3>5, AheadStays
    <3> QED
      BY <3>2, <3>3, <3>5 DEF D
  <2> QED
    BY <1>4, <1>5, <2>1, <2>2 DEF Read, Ahead
<1>16. ~broken' /\ msgOp' \in BOOLEAN
  BY <1>2, <1>4 DEF ReadInv
<1> QED
  BY <1>9, <1>10, <1>11, <1>14, <1>15, <1>16

(* The payload that is read next is the first that is still to be read.     *)
LEMMA NextPart ==
    ASSUME ReadInv, ~split, wire # <<>>, Data(1), NEW q, Ahead(q)
    PROVE  /\ Sent(wire[1].n) /\ Before(q, wire[1].n)
           /\ \A r : Sent(r) /\ Before(q, r) => r = wire[1].n \/ Before(wire[1].n, r)
<1>1. wire \in Seq(Unit) /\ 1 \in 1..Len(wire) /\ InOrder
  BY DEF ReadInv, Framed
<1>2. OnWire(wire[1].n)
  BY <1>1 DEF OnWire, Data
<1>3. Sent(wire[1].n)
  BY <1>2, OnWireSent
<1>4. ASSUME NEW r, Sent(r), Before(q, r) PROVE r = wire[1].n \/ Before(wire[1].n, r)
  BY <1>1, <1>4, HeadLeast DEF Ahead
<1> QED
  BY <1>2, <1>3, <1>4 DEF Ahead

(* After part k of a message, and not its last, the next one is read.       *)
LEMMA NextIs ==
    ASSUME ReadInv, ~split, wire # <<>>, Data(1), NEW n, n = wire[1].n,
           NEW m \in 1..Len(sent), NEW k \in Nat \ {0}, k <= Len(sent[m]),
           Ahead(<<m, k>>), k < Len(sent[m]) \/ ~Done(m)
    PROVE  n = <<m, k + 1>>
<1>1. m \in Nat \ {0} /\ Len(sent) \in Nat /\ m <= Len(sent) /\ Len(sent[m]) \in Nat
  BY DEF ReadInv, SentTyped
<1>2. /\ Sent(n) /\ Before(<<m, k>>, n)
      /\ \A r : Sent(r) /\ Before(<<m, k>>, r) => r = n \/ Before(n, r)
  BY NextPart
<1>3. /\ n \in Pair /\ n[1] \in Nat \ {0} /\ n[2] \in Nat \ {0} /\ n = <<n[1], n[2]>>
      /\ n[1] <= Len(sent) /\ n[2] <= Len(sent[n[1]])
  BY <1>2 DEF Sent, Pair
<1>4. m < n[1] \/ (m = n[1] /\ k < n[2])
  BY <1>2 DEF Before
<1>5. k < Len(sent[m])
  <2>1. SUFFICES ASSUME ~Done(m) PROVE k < Len(sent[m])
    OBVIOUS
  <2>2. m = Len(sent)
    BY <1>1, <2>1 DEF Done
  <2>3. m = n[1] /\ k < n[2]
    BY <1>1, <1>3, <1>4, <2>2
  <2> QED
    BY <1>1, <1>3, <2>3
<1>6. Sent(<<m, k + 1>>) /\ Before(<<m, k>>, <<m, k + 1>>)
  BY <1>1, <1>5 DEF Sent, Pair, Before
<1>7. <<m, k + 1>> = n \/ Before(n, <<m, k + 1>>)
  BY <1>2, <1>6
<1>8. CASE n[1] < m \/ (n[1] = m /\ n[2] < k + 1)
  BY <1>1, <1>3, <1>4, <1>8
<1> QED
  BY <1>7, <1>8 DEF Before

(* The frame that is read continues the message that was begun, ...         *)
LEMMA NextOfBegun ==
    ASSUME ReadInv, ~split, msgOp, wire # <<>>, Data(1), NEW n, n = wire[1].n
    PROVE  /\ n[1] \in 1..Len(sent) /\ n[2] = Len(buf) + 1 /\ n[2] # 1
           /\ buf \in Seq(Pair) /\ \A j \in 1..Len(buf) : buf[j] = <<n[1], j>>
           /\ deadlines = 0 => n[1] = Len(delivered) + 1
<1>1. PICK m \in 1..Len(sent) :
        /\ buf \in Seq(Pair) /\ Len(buf) # 0 /\ Len(buf) <= Len(sent[m])
        /\ \A j \in 1..Len(buf) : buf[j] = <<m, j>>
        /\ Ahead(<<m, Len(buf)>>)
        /\ Len(buf) < Len(sent[m]) \/ ~Done(m)
        /\ deadlines = 0 => m = Len(delivered) + 1
  BY DEF ReadInv, Begun
<1>2. Len(buf) \in Nat \ {0}
  BY <1>1
<1>3. n = <<m, Len(buf) + 1>>
  BY <1>1, <1>2, NextIs
<1>4. n[1] = m /\ n[2] = Len(buf) + 1
  BY <1>3
<1> QED
  BY <1>1, <1>2, <1>4

(* ... and without a deadline a frame read outside one begins the next one. *)
LEMMA NextOfRead ==
    ASSUME ReadInv, ~split, ~msgOp, deadlines = 0, wire # <<>>, Data(1), NEW n, n = wire[1].n
    PROVE  n[1] = Len(delivered) + 1 /\ n[2] = 1
<1>1. PICK d : d = Len(delivered) + 1
  OBVIOUS
<1>2. d \in Nat \ {0} /\ d - 1 <= Len(sent) /\ Len(sent) \in Nat /\ Ahead(<<d, 0>>)
  BY <1>1 DEF ReadInv, Read, SentTyped
<1>3. /\ Sent(n) /\ Before(<<d, 0>>, n)
      /\ \A r : Sent(r) /\ Before(<<d, 0>>, r) => r = n \/ Before(n, r)
  BY <1>2, NextPart
<1>4. /\ n \in Pair /\ n[1] \in Nat \ {0} /\ n[2] \in Nat \ {0} /\ n = <<n[1], n[2]>>
      /\ n[1] <= Len(sent) /\ n[2] <= Len(sent[n[1]])
  BY <1>3 DEF Sent, Pair
<1>5. d <= n[1]
  BY <1>2, <1>3, <1>4 DEF Before
<1>6. d \in 1..Len(sent)
  BY <1>2, <1>4, <1>5
<1>7. Len(sent[d]) \in Nat \ {0}
  <2>1. sent \in Seq(Seq(Pair)) /\ Len(sent[d]) # 0
    BY <1>6 DEF ReadInv, SentTyped
  <2>2. sent[d] \in Seq(Pair)
    BY <1>6, <2>1
  <2>3. Len(sent[d]) \in Nat
    BY <2>2
  <2> QED
    BY <2>1, <2>3
<1>8. Sent(<<d, 1>>) /\ Before(<<d, 0>>, <<d, 1>>)
  BY <1>2, <1>6, <1>7 DEF Sent, Pair, Before
<1>9. <<d, 1>> = n \/ Before(n, <<d, 1>>)
  BY <1>3, <1>8
<1>10. n[1] = d /\ n[2] = 1
  <2>1. CASE <<d, 1>> = n
    BY <2>1
  <2>2. CASE n[1] < d \/ (n[1] = d /\ n[2] < 1)
    BY <1>2, <1>4, <1>5, <2>2
  <2> QED
    BY <1>9, <2>1, <2>2 DEF Before
<1> QED
  BY <1>1, <1>10

(* A sequence of parts 1..n of message m, all there are, is the message.    *)
LEMMA AllParts ==
    ASSUME SentTyped, NEW m \in 1..Len(sent), NEW b \in Seq(Pair), Len(b) = Len(sent[m]),
           \A j \in 1..Len(b) : b[j] = <<m, j>>
    PROVE  b = sent[m]
<1>1. sent[m] \in Seq(Pair) /\ \A j \in 1..Len(sent[m]) : sent[m][j] = <<m, j>>
  BY DEF SentTyped
<1>2. \A j \in 1..Len(b) : b[j] = sent[m][j]
  BY <1>1
<1> QED
  BY <1>1, <1>2

(* The last frame of a message: the message is delivered.                   *)
LEMMA LastFrame ==
    ASSUME SentTyped, Read, NEW n, NEW b, n[1] \in 1..Len(sent), Done(n[1]), b = sent[n[1]],
           n[2] = Len(sent[n[1]]),
           deadlines = 0 => n[1] = Len(delivered) + 1,
           \A p : Sent(p) => (OnWire(p)' <=> Before(n, p)),
           delivered' = Append(delivered, b), UNCHANGED <<sent, open, deadlines>>
    PROVE  Read'
<1>1. /\ sent \in Seq(Seq(Pair)) /\ Len(sent) \in Nat /\ b \in Seq(Pair)
      /\ Len(delivered) \in Nat /\ delivered \in Seq(Seq(Pair))
  BY DEF SentTyped, Read
<1>2. PICK d : d = Len(delivered)
  OBVIOUS
<1>3. /\ delivered' \in Seq(Seq(Pair)) /\ Len(delivered') = d + 1 /\ delivered'[d + 1] = b
      /\ \A i \in 1..d : delivered'[i] = delivered[i]
  BY <1>1, <1>2
<1>4. ASSUME NEW i \in 1..Len(delivered')
      PROVE  \E m \in 1..Len(sent) : Done(m) /\ delivered'[i] = sent[m]
  <2>1. CASE i = d + 1
    BY <1>3, <2>1
  <2>2. CASE i \in 1..d
    BY <1>2, <1>3, <2>2 DEF Read
  <2> QED
    BY <1>1, <1>2, <1>3, <2>1, <2>2
<1>5. ASSUME deadlines = 0
      PROVE  /\ d + 1 <= Len(sent)
             /\ \A i \in 1..(d + 1) : Done(i) /\ delivered'[i] = sent[i]
             /\ \A p : Sent(p) => (OnWire(p)' <=> Before(<<d + 2, 0>>, p))
  <2>1. n[1] = d + 1 /\ d + 1 <= Len(sent)
    BY <1>2, <1>5
  <2>2. ASSUME NEW i \in 1..(d + 1) PROVE Done(i) /\ delivered'[i] = sent[i]
    <3>1. CASE i = d + 1
      BY <1>3, <2>1, <3>1
    <3>2. CASE i \in 1..d
      BY <1>2, <1>3, <1>5, <3>2 DEF Read
    <3> QED
      BY <1>1, <1>2, <3>1, <3>2
  <2>3. ASSUME NEW p, Sent(p) PROVE OnWire(p)' <=> Before(<<d + 2, 0>>, p)
    <3>1. /\ p[1] \in Nat \ {0} /\ p[2] \in Nat \ {0}
          /\ p[1] <= Len(sent) /\ p[2] <= Len(sent[p[1]])
      BY <2>3 DEF Sent, Pair
    <3>2. Len(sent[p[1]]) \in Nat
      BY <1>1, <3>1
    <3>3. Before(n, p) <=> d + 1 < p[1]
      BY <1>1, <1>2, <2>1, <3>1, <3>2 DEF Before
    <3>4. Before(<<d + 2, 0>>, p) <=> d + 1 < p[1]
      <4>1. Before(<<d + 2, 0>>, p) <=> d + 2 < p[1] \/ (d + 2 = p[1] /\ 0 < p[2])
        BY DEF Before
      <4>2. d \in Nat
        BY <1>1, <1>2
      <4> QED
        BY <3>1, <4>1, <4>2
    <3> QED
      BY <2>3, <3>3, <3>4
  <2> QED
    BY <2>1, <2>2, <2>3
<1>6. deadlines' = 0 => (~msgOp' => Ahead(<<Len(delivered) + 1, 0>>)')
  <2>1. SUFFICES ASSUME deadlines = 0 PROVE Ahead(<<Len(delivered) + 1, 0>>)'
    OBVIOUS
  <2>2. Len(delivered') + 1 = d + 2
    BY <1>1, <1>2, <1>3
  <2> QED
    BY <1>5, <2>1, <2>2 DEF Ahead, Sent
<1> QED
  BY <1>3, <1>4, <1>5, <1>6 DEF Read, Done

(* Behind the payload that is read, the rest is still to be read.           *)
LEMMA RestAhead ==
    ASSUME ReadInv, ~split, wire # <<>>, wire' = Tail(wire), Data(1), NEW n, n = wire[1].n
    PROVE  \A p : Sent(p) => (OnWire(p)' <=> Before(n, p))
<1> SUFFICES ASSUME NEW p, Sent(p) PROVE OnWire(p)' <=> Before(n, p)
  OBVIOUS
<1>1. wire \in Seq(Unit) /\ 1 \in 1..Len(wire) /\ InOrder /\ n \in Pair
  BY DEF ReadInv, Framed, Data
<1>2. OnWire(n)
  BY <1>1 DEF OnWire, Data
<1>3. OnWire(p)' <=> OnWire(p) /\ p # n
  BY <1>1, TailOnWire
<1>4. OnWire(p) => p = n \/ Before(n, p)
  BY <1>1, HeadLeast
<1>5. Before(n, p) => OnWire(p)
  BY <1>1, <1>2 DEF InOrder
<1>6. Before(n, p) => p # n
  BY <1>1, Orders
<1> QED
  BY <1>3, <1>4, <1>5, <1>6

LEMMA ReadDataStep == ASSUME ReadInv, R!ReadData PROVE ReadInv'
<1>1. SentTyped' /\ deadlines' \in Nat /\ (split' => deadlines' # 0)
  BY DEF ReadInv, SentTyped, R!ReadData, R!Take
<1>2. SUFFICES ASSUME ~split
               PROVE  /\ Framed' /\ Parsed' /\ InOrder' /\ Begun' /\ Read'
                      /\ ~broken' /\ msgOp' \in BOOLEAN
  BY <1>1 DEF ReadInv, R!ReadData, R!Take
<1>3. R!Take /\ hdr.op # "ping" /\ SentTyped /\ InOrder /\ Begun /\ Read
  BY <1>2 DEF R!ReadData, ReadInv
<1>4. PICK n : n = wire[1].n
  OBVIOUS
<1>5. /\ Framed' /\ Parsed' /\ InOrder' /\ ~broken'
      /\ wire \in Seq(Unit) /\ wire # <<>> /\ wire' = Tail(wire) /\ Head(wire).n = n
      /\ UNCHANGED <<sent, open, deadlines>> /\ hdr.fin \in BOOLEAN
      /\ wire[1].unit = "payload" /\ n \in Pair /\ Sent(n)
      /\ (hdr.op = "data" <=> n[2] = 1)
      /\ (hdr.fin <=> n[2] = Len(sent[n[1]]) /\ Done(n[1]))
  BY <1>2, <1>3, <1>4, TakeStep DEF Fits
<1>6. Data(1) /\ 1 \in 1..Len(wire) /\ OnWire(n)
  BY <1>4, <1>5 DEF Data, OnWire
<1>7. \A p : Sent(p) => (OnWire(p)' <=> Before(n, p))
  BY <1>2, <1>4, <1>5, <1>6, RestAhead
<1>8. /\ n[1] \in 1..Len(sent) /\ n[2] \in Nat \ {0} /\ n[2] <= Len(sent[n[1]])
      /\ Len(sent[n[1]]) \in Nat /\ msgOp \in BOOLEAN
  BY <1>2, <1>3, <1>5 DEF Sent, Pair, SentTyped, ReadInv
<1>9. PICK b : b = (IF hdr.op = "data" THEN <<>> ELSE buf) \o <<n>>
  OBVIOUS
<1>10. PICK inMsg \in BOOLEAN : inMsg <=> msgOp \/ hdr.op = "data"
  <2>1. (msgOp \/ hdr.op = "data") \in BOOLEAN
    OBVIOUS
  <2> QED
    BY <2>1
<1>11. /\ hdr.fin => /\ inMsg => delivered' = Append(delivered, b)
                     /\ ~inMsg => delivered' = delivered
                     /\ msgOp' = FALSE
       /\ ~hdr.fin => delivered' = delivered /\ buf' = b /\ msgOp' = inMsg
  BY <1>5, <1>9, <1>10 DEF R!ReadData
<1>12. msgOp' \in BOOLEAN
  BY <1>5, <1>10, <1>11
<1>13. CASE ~inMsg
  <2>1. deadlines # 0
    BY <1>2, <1>4, <1>5, <1>6, <1>8, <1>10, <1>13, NextOfRead
  <2>2. delivered' = delivered /\ msgOp' = FALSE
    BY <1>5, <1>10, <1>11, <1>13
  <2>3. Begun' /\ Read'
    BY <1>3, <1>5, <2>1, <2>2 DEF Begun, Read, Done
  <2> QED
    BY <1>5, <1>12, <2>3
<1>14. CASE inMsg
  <2>1. /\ b \in Seq(Pair) /\ Len(b) = n[2] /\ \A j \in 1..Len(b) : b[j] = <<n[1], j>>
        /\ deadlines = 0 => n[1] = Len(delivered) + 1
    <3>1. n = <<n[1], n[2]>>
      BY <1>5 DEF Pair
    <3>2. CASE msgOp
      <4>1. /\ n[2] = Len(buf) + 1 /\ n[2] # 1
            /\ buf \in Seq(Pair) /\ \A j \in 1..Len(buf) : buf[j] = <<n[1], j>>
            /\ deadlines = 0 => n[1] = Len(delivered) + 1
        BY <1>2, <1>4, <1>5, <1>6, <3>2, NextOfBegun
      <4>2. b = buf \o <<n>>
        BY <1>5, <1>9, <4>1
      <4>3. /\ b \in Seq(Pair) /\ Len(b) = Len(buf) + 1 /\ b[Len(buf) + 1] = n
            /\ Len(buf) \in Nat /\ \A j \in 1..Len(buf) : b[j] = buf[j]
        BY <1>5, <4>1, <4>2
      <4>4. ASSUME NEW j \in 1..Len(b) PROVE b[j] = <<n[1], j>>
        <5>1. CASE j = Len(buf) + 1
          BY <3>1, <4>1, <4>3, <5>1
        <5>2. CASE j \in 1..Len(buf)
          BY <4>1, <4>3, <5>2
        <5> QED
          BY <4>3, <5>1, <5>2
      <4> QED
        BY <4>1, <4>3, <4>4
    <3>3. CASE ~msgOp
      <4>1. n[2] = 1 /\ hdr.op = "data"
        BY <1>5, <1>10, <1>14, <3>3
      <4>2. b = <<n>>
        BY <1>9, <4>1
      <4>3. b \in Seq(Pair) /\ Len(b) = 1 /\ b[1] = n
        BY <1>5, <4>2
      <4>4. ASSUME NEW j \in 1..Len(b) PROVE b[j] = <<n[1], j>>
        <5>1. j = 1
          BY <4>3
        <5> QED
          BY <3>1, <4>1, <4>3, <5>1
      <4>5. deadlines = 0 => n[1] = Len(delivered) + 1
        BY <1>2, <1>4, <1>5, <1>6, <3>3, NextOfRead
      <4> QED
        BY <4>1, <4>3, <4>4, <4>5
    <3> QED
      BY <1>8, <3>2, <3>3
  <2>2. CASE hdr.fin
    <3>1. delivered' = Append(delivered, b) /\ msgOp' = FALSE
      BY <1>11, <1>14, <2>2
    <3>2. n[2] = Len(sent[n[1]]) /\ Done(n[1])
      BY <1>5, <2>2
    <3>3. b = sent[n[1]]
      BY <1>3, <1>8, <2>1, <3>2, AllParts
    <3>4. Read'
      BY <1>3, <1>5, <1>7, <1>8, <2>1, <3>1, <3>2, <3>3, LastFrame
    <3>5. Begun'
      BY <3>1 DEF Begun
    <3> QED
      BY <1>5, <1>12, <3>4, <3>5
  <2>3. CASE ~hdr.fin
    <3>1. delivered' = delivered /\ msgOp' = TRUE /\ buf' = b
      BY <1>11, <1>14, <2>3
    <3>2. Read'
      BY <1>3, <1>5, <3>1 DEF Read, Done
    <3>3. Ahead(<<n[1], n[2]>>)'
      <4>1. n = <<n[1], n[2]>>
        BY <1>5 DEF Pair
      <4> QED
        BY <1>5, <1>7, <4>1 DEF Ahead, Sent
    <3>4. n[2] < Len(sent[n[1]]) \/ ~Done(n[1])
      BY <1>5, <1>8, <2>3
    <3>5. Begun'
      BY <1>5, <1>8, <2>1, <3>1, <3>3, <3>4 DEF Begun, Done
    <3> QED
      BY <1>5, <1>12, <3>2, <3>5
  <2> QED
    BY <1>5, <2>2, <2>3
<1> QED
  BY <1>13, <1>14

(* The invariant holds at first, and every step keeps it.                   *)
LEMMA ReadStart == R!Init => ReadInv
<1> SUFFICES ASSUME R!Init PROVE ReadInv
  OBVIOUS
<1> USE DEF R!Init
<1>1. sent = <<>> /\ Len(sent) = 0 /\ wire = <<>> /\ Len(wire) = 0
      /\ delivered = <<>> /\ Len(delivered) = 0
  OBVIOUS
<1>2. SentTyped
  <2>1. sent \in Seq(Seq(Pair))
    BY <1>1
  <2>2. open = FALSE /\ 1..Len(sent) = {}
    BY <1>1
  <2>3. open \in BOOLEAN /\ ~open
    BY <2>2
  <2> QED
    BY <2>1, <2>2, <2>3 DEF SentTyped
<1>3. deadlines \in Nat /\ ~split /\ ~broken /\ msgOp \in BOOLEAN
  OBVIOUS
<1>4. Framed /\ Parsed /\ InOrder
  BY <1>1 DEF Framed, Parsed, InOrder, OnWire
<1>5. Begun
  BY DEF Begun
<1>6. \A p : ~Sent(p)
  <2>1. SUFFICES ASSUME NEW p, Sent(p) PROVE FALSE
    OBVIOUS
  <2>2. p[1] \in Nat \ {0} /\ p[1] <= 0
    BY <1>1, <2>1 DEF Sent, Pair
  <2> QED
    BY <2>2
<1>7. Read
  BY <1>1, <1>6 DEF Read, Ahead
<1> QED
  BY <1>2, <1>4, <1>5, <1>7, <1>3 DEF ReadInv

LEMMA ReadKept ==
    R!ConstantsOK /\ ReadInv /\ [R!Next]_R!vars => ReadInv'
<1> SUFFICES ASSUME R!ConstantsOK, ReadInv, [R!Next]_R!vars PROVE ReadInv'
  OBVIOUS
<1>1. CASE R!SendPing
  BY <1>1, SendPingStep
<1>2. CASE \E fin \in BOOLEAN : R!SendData(fin)
  BY <1>2, SendDataStep
<1>3. CASE R!ReadHeader
  BY <1>3, HeaderStep
<1>4. CASE R!ReadPing
  BY <1>4, PingStep
<1>5. CASE R!ReadData
  BY <1>5, ReadDataStep
<1>6. CASE R!Deadline
  BY <1>6, DeadlineStep
<1>7. CASE UNCHANGED R!vars
  <2>1. UNCHANGED <<sent, open, wire, hdr, msgOp, buf, delivered, broken, split, deadlines>>
    BY <1>7 DEF R!vars, R!readVars
  <2>2. SentTyped' /\ deadlines' \in Nat /\ (split' => deadlines' # 0)
    BY <2>1 DEF ReadInv, SentTyped
  <2>3. ASSUME ~split
        PROVE  /\ Framed' /\ Parsed' /\ InOrder' /\ Begun' /\ Read'
               /\ ~broken' /\ msgOp' \in BOOLEAN
    <3>1. Framed'
      BY <2>1, <2>3 DEF ReadInv, Framed, Fits, Sent, Done
    <3>2. Parsed'
      BY <2>1, <2>3 DEF ReadInv, Parsed, Fits, Sent, Done
    <3>3. \A p : OnWire(p)' <=> OnWire(p)
      BY <2>1 DEF OnWire
    <3>4. InOrder'
      BY <2>1, <2>3 DEF ReadInv, InOrder, OnWire, Sent, Data
    <3>5. Begun' /\ Read'
      BY <2>1, <2>3, <3>3, Quiet
    <3> QED
      BY <2>1, <2>3, <3>1, <3>2, <3>4, <3>5 DEF ReadInv
  <2> QED
    BY <2>1, <2>2, <2>3 DEF ReadInv
<1> QED
  BY <1>1, <1>2, <1>3, <1>4, <1>5, <1>6, <1>7 DEF R!Next, R!Peer

(* wsclient.go: without a deadline the messages are those that were sent,   *)
(* in order and whole, however they were cut into frames and mixed with     *)
(* pings; one between two frames never delivers a part of a message.        *)
THEOREM MessagesWhole == ASSUME R!ConstantsOK PROVE R!Spec => []Reassembled
<1>1. ReadInv => Reassembled
  <2> SUFFICES ASSUME ReadInv PROVE Reassembled
    OBVIOUS
  <2>1. ASSUME deadlines = 0 PROVE IsPrefix(delivered, sent)
    <3>1. ~split /\ Read /\ SentTyped
      BY <2>1 DEF ReadInv
    <3>2. /\ delivered \in Seq(Seq(Pair)) /\ sent \in Seq(Seq(Pair))
          /\ Len(delivered) <= Len(sent)
          /\ \A i \in 1..Len(delivered) : delivered[i] = sent[i]
      BY <2>1, <3>1 DEF Read, SentTyped
    <3>3. SubSeq(delivered, 1, Len(delivered)) = SubSeq(sent, 1, Len(delivered))
      BY <3>2
    <3> QED
      BY <3>2, <3>3 DEF IsPrefix
  <2>2. ASSUME ~split PROVE ToSet(delivered) \subseteq ToSet(sent)
    <3>1. Read /\ SentTyped
      BY <2>2 DEF ReadInv
    <3>2. DOMAIN delivered = 1..Len(delivered) /\ DOMAIN sent = 1..Len(sent)
      BY <3>1 DEF Read, SentTyped
    <3> QED
      BY <3>1, <3>2 DEF Read, ToSet
  <2> QED
    BY <2>1, <2>2 DEF Reassembled
<1> QED
  BY <1>1, ReadStart, ReadKept, PTL DEF R!Spec

------------------------------------------------------------------------------
(* The types of the client.                                                 *)

(* The payloads read since the last message end before what is still to be  *)
(* read, in the same message.                                               *)
Collected ==
    buf # <<>> =>
      \E m \in 1..Len(sent), k \in Nat \ {0} :
        /\ k <= Len(sent[m]) /\ Ahead(<<m, k>>)
        /\ k < Len(sent[m]) \/ ~Done(m)
        /\ Len(buf) <= k

(* The pings that are not answered have numbers above those that are.       *)
Ping(i)  == wire[i].unit = "header" /\ wire[i].op = "ping"
Answered == pongs + (IF hdr # None /\ hdr.op = "ping" THEN 1 ELSE 0)

PingsNumbered ==
    \E c \in [1..Len(wire) -> Nat] :
      /\ \A i \in 1..Len(wire) : Ping(i) => Answered < c[i] /\ c[i] <= pings
      /\ \A i, k \in 1..Len(wire) : i < k /\ Ping(i) /\ Ping(k) => c[i] < c[k]

(* After a deadline inside a frame the reader meets its payload next.       *)
OutOfStep ==
    /\ hdr = None /\ buf = <<>> /\ ~msgOp
    /\ broken \/ (wire # <<>> /\ wire[1].unit = "payload")

ReadTyped ==
    /\ wire \in Seq(Unit) /\ buf \in Seq(Pair)
    /\ Len(sent) <= MaxMessages /\ \A m \in 1..Len(sent) : Len(sent[m]) <= MaxParts
    /\ pongs \in Nat /\ pings \in 0..MaxPings /\ deadlines \in 0..MaxDeadlines
    /\ msgOp \in BOOLEAN /\ broken \in BOOLEAN /\ split \in BOOLEAN
    /\ msgOp => buf # <<>>
    /\ Answered <= pings
    /\ IF split THEN OutOfStep ELSE Collected /\ PingsNumbered

LEMMA TypedHeader ==
    ASSUME R!ConstantsOK, ReadInv, ReadTyped, R!ReadHeader PROVE ReadTyped'
<1> USE DEF R!ReadHeader
<1>1. /\ wire \in Seq(Unit) /\ wire # <<>> /\ wire' = Tail(wire) /\ Head(wire) = wire[1]
      /\ 1 \in 1..Len(wire) /\ wire[1] \in Unit /\ hdr = None
      /\ UNCHANGED <<sent, open, msgOp, buf, pongs, split, pings, deadlines>>
  BY DEF ReadTyped
<1>2. wire' \in Seq(Unit)
  BY <1>1, TailIs
<1>3. CASE split
  <2>1. broken' = TRUE /\ hdr' = None
    BY <1>1, <1>3 DEF ReadTyped, OutOfStep
  <2>2. Answered' = Answered
    BY <1>1, <2>1 DEF Answered
  <2>3. OutOfStep'
    BY <1>1, <1>3, <2>1 DEF ReadTyped, OutOfStep
  <2> QED
    BY <1>1, <1>2, <1>3, <2>1, <2>2, <2>3 DEF ReadTyped
<1>4. CASE ~split
  <2>1. wire[1].unit = "header" /\ hdr' = wire[1] /\ broken' = broken /\ hdr' # None
    BY <1>1, <1>4 DEF ReadInv, Parsed, Unit, R!ConstantsOK
  <2>2. Collected'
    <3>1. \A p : OnWire(p)' <=> OnWire(p)
      BY <1>1, <1>4, <2>1, TailOnWire DEF ReadInv, Data
    <3>2. ASSUME NEW q, Ahead(q) PROVE Ahead(q)'
      BY <1>1, <3>1, <3>2 DEF Ahead, Sent
    <3> QED
      BY <1>1, <1>4, <3>2 DEF ReadTyped, Collected, Done
  <2>3. PICK c \in [1..Len(wire) -> Nat] :
          /\ \A i \in 1..Len(wire) : Ping(i) => Answered < c[i] /\ c[i] <= pings
          /\ \A i, k \in 1..Len(wire) : i < k /\ Ping(i) /\ Ping(k) => c[i] < c[k]
    BY <1>4 DEF ReadTyped, PingsNumbered
  <2>4. /\ Answered = pongs /\ pongs \in Nat /\ pings \in Nat /\ pongs <= pings
        /\ Ping(1) => Answered' = pongs + 1
        /\ ~Ping(1) => Answered' = pongs
    BY <1>1, <2>1 DEF Answered, Ping, ReadTyped
  <2>5. Answered' <= pings
    <3>1. CASE Ping(1)
      <4>1. c[1] \in Nat /\ pongs < c[1] /\ c[1] <= pings
        BY <1>1, <2>3, <2>4, <3>1
      <4> QED
        BY <2>4, <3>1, <4>1
    <3>2. CASE ~Ping(1)
      BY <2>4, <3>2
    <3> QED
      BY <3>1, <3>2
  <2>6. PingsNumbered'
    <3> DEFINE d == [i \in 1..Len(wire') |-> c[i + 1]]
    <3>1. \A i \in 1..Len(wire') : i + 1 \in 1..Len(wire) /\ wire'[i] = wire[i + 1]
      BY <1>1, TailIs
    <3>2. d \in [1..Len(wire') -> Nat] /\ \A i \in 1..Len(wire') : d[i] = c[i + 1]
      BY <3>1
    <3> HIDE DEF d
    <3>3. ASSUME NEW i \in 1..Len(wire'), Ping(i)' PROVE Answered' < d[i] /\ d[i] <= pings
      <4>1. Ping(i + 1) /\ i + 1 \in 1..Len(wire) /\ 1 < i + 1 /\ d[i] = c[i + 1]
        BY <3>1, <3>2, <3>3 DEF Ping
      <4>2. Ping(1) => c[1] < c[i + 1] /\ pongs < c[1]
        BY <1>1, <2>3, <2>4, <4>1
      <4>3. pongs < c[i + 1] /\ c[i + 1] <= pings
        BY <2>3, <2>4, <4>1
      <4>4. c[1] \in Nat /\ c[i + 1] \in Nat
        BY <1>1, <4>1
      <4> QED
        BY <2>4, <4>1, <4>2, <4>3, <4>4
    <3>4. ASSUME NEW i \in 1..Len(wire'), NEW k \in 1..Len(wire'), i < k, Ping(i)', Ping(k)'
          PROVE  d[i] < d[k]
      <4>1. /\ Ping(i + 1) /\ i + 1 \in 1..Len(wire) /\ d[i] = c[i + 1]
            /\ Ping(k + 1) /\ k + 1 \in 1..Len(wire) /\ d[k] = c[k + 1] /\ i + 1 < k + 1
        BY <3>1, <3>2, <3>4 DEF Ping
      <4> QED
        BY <2>3, <4>1
    <3> QED
      BY <1>1, <3>2, <3>3, <3>4 DEF PingsNumbered
  <2> QED
    BY <1>1, <1>2, <1>4, <2>1, <2>2, <2>5, <2>6 DEF ReadTyped
<1> QED
  BY <1>3, <1>4

(* A payload is no ping: the numbers go on with the rest of the wire.       *)
LEMMA TypedTake ==
    ASSUME ReadInv, ReadTyped, R!Take, pings' = pings, Answered' = Answered
    PROVE  ~split /\ wire' \in Seq(Unit) /\ PingsNumbered'
<1>1. ~split
  BY DEF R!Take, ReadTyped, OutOfStep
<1>2. wire \in Seq(Unit) /\ wire # <<>> /\ wire' = Tail(wire)
  BY <1>1, TakeStep
<1>3. PICK c \in [1..Len(wire) -> Nat] :
        /\ \A i \in 1..Len(wire) : Ping(i) => Answered < c[i] /\ c[i] <= pings
        /\ \A i, k \in 1..Len(wire) : i < k /\ Ping(i) /\ Ping(k) => c[i] < c[k]
  BY <1>1 DEF ReadTyped, PingsNumbered
<1> DEFINE d == [i \in 1..Len(wire') |-> c[i + 1]]
<1>4. \A i \in 1..Len(wire') : i + 1 \in 1..Len(wire) /\ wire'[i] = wire[i + 1]
  BY <1>2, TailIs
<1>5. d \in [1..Len(wire') -> Nat] /\ \A i \in 1..Len(wire') : d[i] = c[i + 1]
  BY <1>4
<1> HIDE DEF d
<1>6. \A i \in 1..Len(wire') : Ping(i)' => Ping(i + 1)
  BY <1>4 DEF Ping
<1>7. \A i, k \in 1..Len(wire') : i < k => i + 1 < k + 1
  OBVIOUS
<1>8. \A i \in 1..Len(wire') : Ping(i)' => Answered' < d[i] /\ d[i] <= pings'
  BY <1>3, <1>4, <1>5, <1>6
<1>9. \A i, k \in 1..Len(wire') : i < k /\ Ping(i)' /\ Ping(k)' => d[i] < d[k]
  BY <1>3, <1>4, <1>5, <1>6, <1>7
<1>10. PingsNumbered'
  BY <1>5, <1>8, <1>9 DEF PingsNumbered
<1> QED
  BY <1>1, <1>2, <1>10, TailIs

LEMMA TypedPing == ASSUME ReadInv, ReadTyped, R!ReadPing PROVE ReadTyped'
<1>1. R!Take /\ hdr.op = "ping" /\ pongs' = pongs + 1 /\ UNCHANGED <<msgOp, buf, delivered>>
  BY DEF R!ReadPing
<1>2. hdr # None /\ hdr' = None /\ UNCHANGED <<sent, open, broken, split, pings, deadlines>>
  BY <1>1 DEF R!Take
<1>3. Answered' = Answered /\ pongs' \in Nat
  BY <1>1, <1>2 DEF Answered, ReadTyped
<1>4. ~split /\ wire' \in Seq(Unit) /\ PingsNumbered'
  BY <1>1, <1>2, <1>3, TypedTake
<1>5. Collected'
  <2>1. ~Data(1) /\ wire \in Seq(Unit) /\ wire # <<>> /\ wire' = Tail(wire)
    BY <1>1, <1>4, TakeStep DEF Fits, Data
  <2>2. \A p : OnWire(p)' <=> OnWire(p)
    BY <1>4, <2>1, TailOnWire DEF ReadInv
  <2>3. ASSUME NEW q, Ahead(q) PROVE Ahead(q)'
    BY <1>2, <2>2, <2>3 DEF Ahead, Sent
  <2> QED
    BY <1>1, <1>2, <1>4, <2>3 DEF ReadTyped, Collected, Done
<1> QED
  BY <1>1, <1>2, <1>3, <1>4, <1>5 DEF ReadTyped

LEMMA TypedData == ASSUME ReadInv, ReadTyped, R!ReadData PROVE ReadTyped'
<1>1. R!Take /\ hdr.op # "ping" /\ pongs' = pongs
  BY DEF R!ReadData
<1>2. hdr # None /\ hdr' = None /\ UNCHANGED <<sent, open, broken, split, pings, deadlines>>
  BY <1>1 DEF R!Take
<1>3. Answered' = Answered /\ pongs \in Nat /\ msgOp \in BOOLEAN /\ buf \in Seq(Pair)
  BY <1>1, <1>2 DEF Answered, ReadTyped
<1>4. ~split /\ wire' \in Seq(Unit) /\ PingsNumbered'
  BY <1>1, <1>2, <1>3, TypedTake
<1>5. PICK n : n = wire[1].n
  OBVIOUS
<1>6. /\ wire \in Seq(Unit) /\ wire # <<>> /\ wire' = Tail(wire) /\ Head(wire).n = n
      /\ wire[1].unit = "payload" /\ n \in Pair /\ Sent(n) /\ hdr.fin \in BOOLEAN
      /\ (hdr.op = "data" <=> n[2] = 1)
      /\ (hdr.fin <=> n[2] = Len(sent[n[1]]) /\ Done(n[1]))
  BY <1>1, <1>4, <1>5, TakeStep DEF Fits
<1>7. Data(1)
  BY <1>5, <1>6 DEF Data
<1>8. PICK b : b = (IF hdr.op = "data" THEN <<>> ELSE buf) \o <<n>>
  OBVIOUS
<1>9. IF hdr.fin THEN msgOp' = FALSE /\ buf' = <<>>
      ELSE msgOp' = (msgOp \/ hdr.op = "data") /\ buf' = b
  BY <1>6, <1>8 DEF R!ReadData
<1>10. b \in Seq(Pair) /\ b # <<>>
  BY <1>3, <1>6, <1>8
<1>11. msgOp' \in BOOLEAN /\ buf' \in Seq(Pair) /\ (msgOp' => buf' # <<>>)
  <2>1. CASE hdr.fin
    <3>1. msgOp' = FALSE /\ buf' = <<>>
      BY <1>9, <2>1
    <3>2. <<>> \in Seq(Pair) /\ FALSE \in BOOLEAN
      OBVIOUS
    <3> QED
      BY <3>1, <3>2
  <2>2. CASE ~hdr.fin
    <3>1. (msgOp \/ hdr.op = "data") \in BOOLEAN
      OBVIOUS
    <3> QED
      BY <1>9, <1>10, <2>2, <3>1
  <2> QED
    BY <2>1, <2>2
<1>12. Collected'
  <2>1. SUFFICES ASSUME ~hdr.fin PROVE Collected'
    BY <1>9 DEF Collected
  <2>2. /\ n[1] \in 1..Len(sent) /\ n[2] \in Nat \ {0} /\ n[2] <= Len(sent[n[1]])
        /\ Len(sent[n[1]]) \in Nat /\ n = <<n[1], n[2]>>
    BY <1>6 DEF Sent, Pair, ReadInv, SentTyped
  <2>3. n[2] < Len(sent[n[1]]) \/ ~Done(n[1])
    BY <1>6, <2>1, <2>2
  <2>4. Ahead(<<n[1], n[2]>>)'
    BY <1>2, <1>4, <1>5, <1>6, <1>7, <2>2, RestAhead DEF Ahead, Sent
  <2>5. Len(b) <= n[2]
    <3>1. CASE hdr.op = "data" \/ buf = <<>>
      BY <1>6, <1>8, <2>2, <3>1
    <3>2. CASE hdr.op # "data" /\ buf # <<>>
      <4>1. PICK m \in 1..Len(sent), k \in Nat \ {0} :
              /\ k <= Len(sent[m]) /\ Ahead(<<m, k>>)
              /\ k < Len(sent[m]) \/ ~Done(m)
              /\ Len(buf) <= k
        BY <1>4, <3>2 DEF ReadTyped, Collected
      <4>2. n = <<m, k + 1>>
        BY <1>4, <1>5, <1>6, <1>7, <4>1, NextIs
      <4>3. Len(b) = Len(buf) + 1 /\ Len(buf) \in Nat
        BY <1>3, <1>8, <3>2
      <4> QED
        BY <4>1, <4>2, <4>3
    <3> QED
      BY <3>1, <3>2
  <2> QED
    BY <1>2, <1>9, <2>1, <2>2, <2>3, <2>4, <2>5 DEF Collected, Done
<1> QED
  BY <1>1, <1>2, <1>3, <1>4, <1>11, <1>12 DEF ReadTyped

LEMMA TypedDeadline ==
    ASSUME R!ConstantsOK, ReadInv, ReadTyped, R!Deadline PROVE ReadTyped'
<1> USE DEF R!Deadline
<1>1. /\ hdr' = None /\ msgOp' = FALSE /\ buf' = <<>> /\ split' = (split \/ hdr # None)
      /\ UNCHANGED <<sent, open, wire, pongs, broken, pings>> /\ deadlines' = deadlines + 1
  OBVIOUS
<1>2. deadlines' \in 0..MaxDeadlines /\ split' \in BOOLEAN /\ buf' \in Seq(Pair)
  BY DEF ReadTyped, R!ConstantsOK
<1>3. pongs \in Nat /\ pings \in Nat /\ Answered' = pongs /\ pongs <= Answered
  BY <1>1 DEF Answered, ReadTyped
<1>4. Answered' <= pings
  BY <1>3 DEF ReadTyped, Answered
<1>5. CASE split'
  <2>1. broken \/ (wire # <<>> /\ wire[1].unit = "payload")
    BY <1>1, <1>5 DEF ReadTyped, OutOfStep, ReadInv, Parsed
  <2> QED
    BY <1>1, <1>2, <1>4, <1>5, <2>1 DEF ReadTyped, OutOfStep
<1>6. CASE ~split'
  <2>1. ~split /\ hdr = None /\ Answered' = Answered
    BY <1>1, <1>6 DEF Answered
  <2>2. PingsNumbered'
    BY <1>1, <2>1 DEF ReadTyped, PingsNumbered, Ping
  <2>3. Collected'
    BY <1>1 DEF Collected
  <2> QED
    BY <1>1, <1>2, <1>4, <1>6, <2>2, <2>3 DEF ReadTyped
<1> QED
  BY <1>5, <1>6

(* A frame is sent: the numbers go on with the new header.                  *)
LEMMA TypedFrame ==
    ASSUME R!ConstantsOK, ReadTyped,
           NEW op \in R!Op, NEW fin \in BOOLEAN, NEW n \in Pair \cup {None},
           wire' = wire \o <<R!Header(op, fin), R!Payload(n)>>,
           UNCHANGED <<hdr, pongs>>, op = "ping" => pings' = pings + 1,
           pings' \in Nat, pings <= pings'
    PROVE  /\ wire' \in Seq(Unit) /\ Answered' = Answered /\ Answered' <= pings'
           /\ wire # <<>> => wire' # <<>> /\ wire'[1] = wire[1]
           /\ PingsNumbered => PingsNumbered'
<1> DEFINE L == Len(wire)
<1>1. /\ wire' \in Seq(Unit) /\ Len(wire') = L + 2 /\ L \in Nat
      /\ \A i \in 1..L : i \in 1..Len(wire') /\ wire'[i] = wire[i]
      /\ wire'[L + 1] = R!Header(op, fin) /\ wire'[L + 2] = R!Payload(n)
      /\ R!Payload(n).unit = "payload" /\ R!Header(op, fin).op = op
  <2>1. wire \in Seq(Unit)
    BY DEF ReadTyped
  <2>2. R!Header(op, fin).op = op
    BY DEF R!Header
  <2> QED
    BY <2>1, <2>2, FrameIs
<1>2. wire # <<>> => 1 \in 1..L
  BY DEF ReadTyped
<1> HIDE DEF L
<1>3. wire # <<>> => wire' # <<>> /\ wire'[1] = wire[1]
  BY <1>1, <1>2
<1>4. Answered' = Answered /\ Answered \in Nat /\ pings \in Nat /\ Answered <= pings
  BY DEF Answered, ReadTyped
<1>5. ASSUME PingsNumbered PROVE PingsNumbered'
  <2>1. PICK c \in [1..L -> Nat] :
          /\ \A i \in 1..L : Ping(i) => Answered < c[i] /\ c[i] <= pings
          /\ \A i, k \in 1..L : i < k /\ Ping(i) /\ Ping(k) => c[i] < c[k]
    BY <1>5 DEF PingsNumbered, L
  <2> DEFINE d == [i \in 1..Len(wire') |-> IF i \in 1..L THEN c[i] ELSE pings + 1]
  <2>2. /\ d \in [1..Len(wire') -> Nat]
        /\ \A i \in 1..Len(wire') : d[i] = IF i \in 1..L THEN c[i] ELSE pings + 1
    BY <1>4
  <2> HIDE DEF d
  <2>3. ASSUME NEW i \in 1..Len(wire'), Ping(i)'
        PROVE  IF i \in 1..L THEN Ping(i) ELSE i = L + 1 /\ op = "ping"
    <3>1. CASE i \in 1..L
      BY <1>1, <2>3, <3>1 DEF Ping
    <3>2. CASE i = L + 1
      BY <1>1, <2>3, <3>2 DEF Ping
    <3>3. CASE i = L + 2
      BY <1>1, <2>3, <3>3 DEF Ping
    <3> QED
      BY <1>1, <3>1, <3>2, <3>3
  <2>4. ASSUME NEW i \in 1..Len(wire'), Ping(i)' PROVE Answered' < d[i] /\ d[i] <= pings'
    BY <1>4, <2>1, <2>2, <2>3, <2>4
  <2>5. ASSUME NEW i \in 1..Len(wire'), NEW k \in 1..Len(wire'), i < k, Ping(i)', Ping(k)'
        PROVE  d[i] < d[k]
    <3>1. i \in 1..L /\ Ping(i)
      BY <1>1, <2>3, <2>5
    <3>2. CASE k \in 1..L
      BY <2>1, <2>2, <2>3, <2>5, <3>1, <3>2
    <3>3. CASE k \notin 1..L
      <4>1. c[i] <= pings /\ c[i] \in Nat /\ d[i] = c[i] /\ d[k] = pings + 1
        BY <2>1, <2>2, <3>1, <3>3
      <4> QED
        BY <1>4, <4>1
    <3> QED
      BY <3>2, <3>3
  <2> QED
    BY <2>2, <2>4, <2>5 DEF PingsNumbered
<1> QED
  BY <1>1, <1>3, <1>4, <1>5

LEMMA TypedSendPing ==
    ASSUME R!ConstantsOK, ReadInv, ReadTyped, R!SendPing PROVE ReadTyped'
<1>1. /\ UNCHANGED <<sent, open, hdr, msgOp, buf, delivered, pongs, broken, split, deadlines>>
      /\ wire' = wire \o <<R!Header("ping", TRUE), R!Payload(None)>>
      /\ pings < MaxPings /\ pings' = pings + 1
  BY DEF R!SendPing, R!readVars
<1>2. "ping" \in R!Op /\ TRUE \in BOOLEAN /\ None \in Pair \cup {None} /\ None \notin Pair
  BY DEF R!ConstantsOK, R!Op, Pair
<1>3. pings' \in 0..MaxPings /\ pings' \in Nat /\ pings <= pings'
  BY <1>1 DEF ReadTyped, R!ConstantsOK
<1>4. /\ wire' \in Seq(Unit) /\ Answered' <= pings'
      /\ wire # <<>> => wire' # <<>> /\ wire'[1] = wire[1]
      /\ PingsNumbered => PingsNumbered'
  BY <1>1, <1>2, <1>3, TypedFrame
<1>5. CASE split
  <2>1. OutOfStep'
    BY <1>1, <1>4, <1>5 DEF ReadTyped, OutOfStep
  <2> QED
    BY <1>1, <1>3, <1>4, <1>5, <2>1 DEF ReadTyped
<1>6. CASE ~split
  <2>1. \A p : OnWire(p)' <=> OnWire(p)
    BY <1>1, <1>2, FrameOnWire DEF ReadTyped
  <2>2. ASSUME NEW q, Ahead(q) PROVE Ahead(q)'
    BY <1>1, <2>1, <2>2 DEF Ahead, Sent
  <2>3. Collected'
    BY <1>1, <1>6, <2>2 DEF ReadTyped, Collected, Done
  <2> QED
    BY <1>1, <1>3, <1>4, <1>6, <2>3 DEF ReadTyped
<1> QED
  BY <1>5, <1>6

LEMMA TypedSendData ==
    ASSUME R!ConstantsOK, ReadInv, ReadTyped, NEW fin \in BOOLEAN, R!SendData(fin)
    PROVE  ReadTyped'
<1>1. PICK op : op = (IF open THEN "continuation" ELSE "data")
  OBVIOUS
<1>2. /\ UNCHANGED <<hdr, msgOp, buf, delivered, pongs, broken, split, pings, deadlines>>
      /\ wire' = wire \o <<R!Header(op, fin), R!Payload(NewPart)>>
  <2>1. CASE open
    BY <1>1, <2>1 DEF R!SendData, R!readVars, NewPart
  <2>2. CASE ~open
    BY <1>1, <2>2 DEF R!SendData, R!readVars, NewPart
  <2> QED
    BY <2>1, <2>2
<1>3. /\ op \in R!Op /\ op # "ping" /\ SentTyped /\ open \in BOOLEAN
      /\ NewPart \in Pair /\ NewPart \in Pair \cup {None} /\ None \notin Pair
  BY <1>1, Grown DEF R!ConstantsOK, R!Op, Pair, ReadInv, SentTyped
<1>4. pings \in Nat /\ pings' = pings
  BY <1>2 DEF ReadTyped
<1>5. /\ wire' \in Seq(Unit) /\ Answered' <= pings'
      /\ wire # <<>> => wire' # <<>> /\ wire'[1] = wire[1]
      /\ PingsNumbered => PingsNumbered'
  BY <1>2, <1>3, <1>4, TypedFrame
<1>6. /\ sent \in Seq(Seq(Pair)) /\ Len(sent) \in Nat
      /\ \A m \in 1..Len(sent) : sent[m] \in Seq(Pair) /\ Len(sent[m]) \in Nat \ {0}
  BY <1>3 DEF SentTyped
<1>7. Len(sent') <= MaxMessages /\ \A m \in 1..Len(sent') : Len(sent'[m]) <= MaxParts
  <2>1. CASE open
    <3> DEFINE q == NewPart
               l == Len(sent)
               a == Append(sent[l], q)
    <3>1. l \in 1..l /\ l \in Nat
      BY <1>3, <1>6, <2>1 DEF SentTyped
    <3>2. sent' = [sent EXCEPT ![l] = a] /\ Len(sent[l]) < MaxParts
      BY <2>1 DEF R!SendData, NewPart
    <3>3. a \in Seq(Pair) /\ Len(a) = Len(sent[l]) + 1 /\ Len(sent[l]) \in Nat
      BY <1>3, <1>6, <3>1
    <3> HIDE DEF a, q
    <3>4. /\ Len(sent') = l /\ sent'[l] = a
          /\ \A m \in 1..l : m # l => sent'[m] = sent[m]
      BY <1>6, <3>1, <3>2, <3>3
    <3>5. Len(a) <= MaxParts
      BY <3>2, <3>3 DEF R!ConstantsOK
    <3> QED
      BY <3>1, <3>4, <3>5 DEF ReadTyped
  <2>2. CASE ~open
    <3> DEFINE w == <<NewPart>>
               l == Len(sent)
    <3>1. sent' = Append(sent, w) /\ l < MaxMessages
      BY <2>2 DEF R!SendData, NewPart
    <3>2. w \in Seq(Pair) /\ Len(w) = 1
      BY <1>3
    <3> HIDE DEF w
    <3>3. /\ Len(sent') = l + 1 /\ sent'[l + 1] = w
          /\ \A m \in 1..l : sent'[m] = sent[m]
      BY <1>6, <3>1, <3>2
    <3>4. 1 <= MaxParts /\ l + 1 <= MaxMessages
      BY <1>6, <3>1 DEF R!ConstantsOK
    <3>5. ASSUME NEW m \in 1..Len(sent') PROVE Len(sent'[m]) <= MaxParts
      <4>1. CASE m = l + 1
        BY <3>2, <3>3, <3>4, <4>1
      <4>2. CASE m # l + 1
        <5>1. m \in 1..l
          BY <1>6, <3>3, <4>2
        <5> QED
          BY <3>3, <5>1 DEF ReadTyped
      <4> QED
        BY <4>1, <4>2
    <3> QED
      BY <3>3, <3>4, <3>5
  <2> QED
    BY <1>3, <2>1, <2>2
<1>8. CASE split
  <2>1. OutOfStep'
    BY <1>2, <1>5, <1>8 DEF ReadTyped, OutOfStep
  <2> QED
    BY <1>2, <1>5, <1>7, <1>8, <2>1 DEF ReadTyped
<1>9. CASE ~split
  <2>1. \A p : OnWire(p)' <=> OnWire(p) \/ (p \in Pair /\ p = NewPart)
    BY <1>2, <1>3, FrameOnWire DEF ReadTyped
  <2>2. Collected'
    <3>1. SUFFICES ASSUME buf # <<>> PROVE Collected'
      BY <1>2 DEF Collected
    <3>2. PICK m \in 1..Len(sent), k \in Nat \ {0} :
            /\ k <= Len(sent[m]) /\ Ahead(<<m, k>>)
            /\ k < Len(sent[m]) \/ ~Done(m)
            /\ Len(buf) <= k
      BY <1>9, <3>1 DEF ReadTyped, Collected
    <3>3. Sent(<<m, k>>)
      BY <1>6, <3>2 DEF Sent, Pair
    <3>4. Ahead(<<m, k>>)'
      BY <1>3, <2>1, <3>2, <3>3, Grown, AheadStays DEF Ahead
    <3>5. m \in 1..Len(sent') /\ k <= Len(sent'[m]) /\ (k < Len(sent'[m]) \/ ~Done(m)')
      <4>1. CASE Done(m)
        BY <1>3, <3>2, <4>1, Grown
      <4>2. CASE ~Done(m)
        <5>1. m \in 1..Len(sent') /\ Len(sent'[m]) = Len(sent[m]) + 1
          BY <1>3, <4>2, Grown
        <5> QED
          BY <1>6, <3>2, <5>1
      <4> QED
        BY <4>1, <4>2
    <3> QED
      BY <1>2, <3>2, <3>4, <3>5 DEF Collected
  <2> QED
    BY <1>2, <1>5, <1>7, <1>9, <2>2 DEF ReadTyped
<1> QED
  BY <1>8, <1>9

LEMMA TypedStutter == ASSUME ReadInv, ReadTyped, UNCHANGED R!vars PROVE ReadTyped'
<1>1. UNCHANGED <<sent, open, wire, hdr, msgOp, buf, pongs, broken, split, pings, deadlines>>
  BY DEF R!vars, R!readVars
<1>2. PingsNumbered' <=> PingsNumbered
  BY <1>1 DEF PingsNumbered, Ping, Answered
<1>3. ASSUME NEW q PROVE Ahead(q)' <=> Ahead(q)
  BY <1>1 DEF Ahead, Sent, OnWire
<1>4. Collected => Collected'
  BY <1>1, <1>3 DEF Collected, Done
<1>5. OutOfStep' <=> OutOfStep
  BY <1>1 DEF OutOfStep
<1>6. Answered' = Answered
  BY <1>1 DEF Answered
<1> QED
  BY <1>1, <1>2, <1>4, <1>5, <1>6 DEF ReadTyped

(* wsclient.go: every variable has its type.  What a call has collected is  *)
(* never longer than one message, also when a deadline took its beginning,  *)
(* and there are not more pongs than pings.                                 *)
THEOREM ReaderTyped == ASSUME R!ConstantsOK PROVE R!Spec => []R!TypeOK
<1>1. R!Init => ReadTyped
  <2> SUFFICES ASSUME R!Init PROVE ReadTyped
    OBVIOUS
  <2> USE DEF R!Init
  <2>1. /\ sent = <<>> /\ Len(sent) = 0 /\ wire = <<>> /\ Len(wire) = 0 /\ 1..Len(wire) = {}
        /\ wire \in Seq(Unit) /\ buf = <<>> /\ buf \in Seq(Pair) /\ ~msgOp /\ ~split
    OBVIOUS
  <2>2. /\ pongs \in Nat /\ pings \in 0..MaxPings /\ deadlines \in 0..MaxDeadlines
        /\ Len(sent) <= MaxMessages /\ 1..Len(sent) = {}
    <3>1. MaxPings \in Nat /\ MaxDeadlines \in Nat /\ MaxMessages \in Nat
      BY DEF R!ConstantsOK
    <3>2. pongs = 0 /\ pings = 0 /\ deadlines = 0 /\ 1..0 = {}
      OBVIOUS
    <3> QED
      BY <2>1, <3>1, <3>2
  <2>3. Answered = 0 /\ pings = 0
    BY DEF Answered
  <2>4. Collected
    BY <2>1 DEF Collected
  <2>5. PingsNumbered
    <3>1. [i \in 1..Len(wire) |-> 0] \in [1..Len(wire) -> Nat]
      OBVIOUS
    <3> QED
      BY <2>1, <3>1 DEF PingsNumbered
  <2> QED
    <3>1. msgOp \in BOOLEAN /\ broken \in BOOLEAN /\ split \in BOOLEAN
      OBVIOUS
    <3>2. \A m \in 1..Len(sent) : Len(sent[m]) <= MaxParts
      BY <2>2
    <3> QED
      BY <2>1, <2>2, <2>3, <2>4, <2>5, <3>1, <3>2 DEF ReadTyped
<1>2. ReadInv /\ ReadTyped /\ [R!Next]_R!vars => ReadTyped'
  <2> SUFFICES ASSUME ReadInv, ReadTyped, [R!Next]_R!vars PROVE ReadTyped'
    OBVIOUS
  <2>1. CASE R!SendPing
    BY <2>1, TypedSendPing
  <2>2. CASE \E fin \in BOOLEAN : R!SendData(fin)
    BY <2>2, TypedSendData
  <2>3. CASE R!ReadHeader
    BY <2>3, TypedHeader
  <2>4. CASE R!ReadPing
    BY <2>4, TypedPing
  <2>5. CASE R!ReadData
    BY <2>5, TypedData
  <2>6. CASE R!Deadline
    BY <2>6, TypedDeadline
  <2>7. CASE UNCHANGED R!vars
    BY <2>7, TypedStutter
  <2> QED
    BY <2>1, <2>2, <2>3, <2>4, <2>5, <2>6, <2>7 DEF R!Next, R!Peer
<1>3. ReadInv /\ ReadTyped => R!TypeOK
  <2> SUFFICES ASSUME ReadInv, ReadTyped PROVE R!TypeOK
    OBVIOUS
  <2>1. /\ sent \in Seq(Seq(Pair)) /\ DOMAIN sent = 1..Len(sent) /\ open \in BOOLEAN
        /\ open => sent # <<>>
        /\ \A m \in 1..Len(sent) : sent[m] \in Seq(Pair) /\ Len(sent[m]) \in Nat \ {0}
    BY DEF ReadInv, SentTyped
  <2>2. Seq(Pair) \subseteq Seq(Nat \X Nat)
    BY DEF Pair
  <2>3. \A m \in DOMAIN sent : sent[m] \in Seq(Nat \X Nat) /\ Len(sent[m]) \in 1..MaxParts
    BY <2>1, <2>2 DEF ReadTyped, R!ConstantsOK
  <2>4. hdr # None => hdr.unit = "header"
    BY DEF ReadInv, Parsed, ReadTyped, OutOfStep
  <2>5. Len(buf) <= MaxParts
    <3>1. CASE buf = <<>>
      BY <3>1 DEF R!ConstantsOK
    <3>2. CASE buf # <<>>
      <4>1. PICK m \in 1..Len(sent), k \in Nat \ {0} : k <= Len(sent[m]) /\ Len(buf) <= k
        BY <3>2 DEF ReadTyped, Collected, OutOfStep
      <4>2. Len(sent[m]) <= MaxParts /\ Len(buf) \in Nat /\ Len(sent[m]) \in Nat
        BY <2>1 DEF ReadTyped
      <4> QED
        BY <4>1, <4>2 DEF R!ConstantsOK
    <3> QED
      BY <3>1, <3>2
  <2>6. pongs \in 0..MaxPings
    <3>1. pongs \in Nat /\ pongs <= Answered /\ Answered \in Nat
      BY DEF ReadTyped, Answered
    <3> QED
      BY <3>1 DEF ReadTyped, R!ConstantsOK
  <2> QED
    BY <2>1, <2>2, <2>3, <2>4, <2>5, <2>6 DEF ReadTyped, R!TypeOK
<1> QED
  BY <1>1, <1>2, <1>3, ReadStart, ReadKept, PTL DEF R!Spec

------------------------------------------------------------------------------
(* The bytes of a frame.                                                    *)

Octet == {b \in Nat : b < 256}

(* What goes over the wire.                                                 *)
Token == Nat \cup {"m"} \cup [bytes : Nat, masked : BOOLEAN]

(* The bytes of a length, and the length of the bytes.                      *)
LEMMA BytesAdd ==
    ASSUME NEW n \in Nat, n <= MaxLength
    PROVE  /\ Byte(n, 1) \in Octet /\ Byte(n, 256) \in Octet
           /\ Byte(n, 65536) \in Octet /\ Byte(n, 16777216) \in Octet
           /\ n <= 65535 => n = 256 * Byte(n, 256) + Byte(n, 1)
           /\ n = 256 * (256 * (256 * Byte(n, 16777216) + Byte(n, 65536)) + Byte(n, 256))
                  + Byte(n, 1)
<1>1. n \in Nat /\ Byte(n, 1) = n % 256
  BY SMT DEF Byte
<1>2. PICK a \in Nat, b \in Octet : n = 256 * a + b
  <2>1. n \div 256 \in Nat /\ n % 256 \in Octet /\ n = 256 * (n \div 256) + (n % 256)
    BY SMT DEF Octet, MaxLength
  <2> QED
    BY <2>1, SMT
<1>3. PICK c \in Nat, d \in Octet : a = 256 * c + d
  <2>1. a \div 256 \in Nat /\ a % 256 \in Octet /\ a = 256 * (a \div 256) + (a % 256)
    BY SMT DEF Octet, MaxLength
  <2> QED
    BY <2>1, SMT
<1>4. PICK e \in Nat, g \in Octet : c = 256 * e + g
  <2>1. c \div 256 \in Nat /\ c % 256 \in Octet /\ c = 256 * (c \div 256) + (c % 256)
    BY SMT DEF Octet, MaxLength
  <2> QED
    BY <2>1, SMT
<1>5. Byte(n, 1) = b
  BY <1>2, SMT DEF Byte, Octet
<1>6. Byte(n, 256) = d
  BY <1>2, <1>3, SMT DEF Byte, Octet
<1>7. Byte(n, 65536) = g
  BY <1>2, <1>3, <1>4, SMT DEF Byte, Octet
<1>8. e < 128
  BY <1>2, <1>3, <1>4, SMT DEF Octet, MaxLength
<1>9. Byte(n, 16777216) = e
  BY <1>2, <1>3, <1>4, <1>8, SMT DEF Byte, Octet
<1>10. n <= 65535 => c = 0
  BY <1>2, <1>3, <1>4, SMT DEF Octet, MaxLength
<1> QED
  BY <1>2, <1>3, <1>4, <1>5, <1>6, <1>7, <1>8, <1>9, <1>10, SMT DEF Octet, MaxLength

(* How many bytes of length follow the first, and what the first says.      *)
Wide(n)  == IF n <= 125 THEN 0 ELSE IF n <= 65535 THEN 2 ELSE 8
Short(n) == IF n <= 125 THEN n ELSE IF n <= 65535 THEN 126 ELSE 127

LEMMA LengthTyped ==
    ASSUME NEW n \in Nat, n <= MaxLength
    PROVE  /\ Length(n) \in Seq(Nat) /\ Len(Length(n)) = 1 + Wide(n)
           /\ Length(n)[1] = Short(n) /\ Short(n) \in Nat /\ Short(n) < 128
<1>1. PICK a \in Nat, b \in Nat, c \in Nat, d \in Nat :
        a = Byte(n, 1) /\ b = Byte(n, 256) /\ c = Byte(n, 65536) /\ d = Byte(n, 16777216)
  BY BytesAdd, SMT DEF Octet
<1>2. PICK t, s, k : t = Length(n) /\ s = Short(n) /\ k = Wide(n)
  OBVIOUS
<1>3. s \in Nat /\ s < 128
  BY <1>2, SMT DEF Short
<1>4. CASE n <= 125
  <2>1. t = <<n>> /\ s = n /\ k = 0
    BY <1>2, <1>4, SMT DEF Length, Short, Wide
  <2>2. t \in Seq(Nat) /\ Len(t) = 1 + k /\ t[1] = s
    BY <2>1, SMT
  <2> QED
    BY <1>2, <1>3, <2>2, SMT
<1>5. CASE ~(n <= 125) /\ n <= 65535
  <2>1. t = <<126, b, a>> /\ s = 126 /\ k = 2
    BY <1>1, <1>2, <1>5, SMT DEF Length, Short, Wide
  <2>2. t \in Seq(Nat) /\ Len(t) = 1 + k /\ t[1] = s
    BY <2>1, SMT
  <2> QED
    BY <1>2, <1>3, <2>2, SMT
<1>6. CASE ~(n <= 125) /\ ~(n <= 65535)
  <2>1. t = <<127, 0, 0, 0, 0, d, c, b, a>> /\ s = 127 /\ k = 8
    BY <1>1, <1>2, <1>6, SMT DEF Length, Short, Wide
  <2>2. t \in Seq(Nat)
    BY <2>1, SMT
  <2>3. Len(t) = 1 + k /\ t[1] = s
    BY <2>1, SMT
  <2> QED
    BY <1>2, <1>3, <2>2, <2>3, SMT
<1> QED
  BY <1>4, <1>5, <1>6, SMT

LEMMA LengthOfTwo ==
    ASSUME NEW n \in Nat, n <= MaxLength, Short(n) = 126
    PROVE  n = 256 * Length(n)[2] + Length(n)[3]
<1>1. ~(n <= 125) /\ n <= 65535
  BY SMT DEF Short
<1>2. PICK a, b : a = Byte(n, 1) /\ b = Byte(n, 256)
  OBVIOUS
<1>3. Length(n) = <<126, b, a>>
  BY <1>1, <1>2, SMT DEF Length
<1>4. Length(n)[2] = b /\ Length(n)[3] = a
  BY <1>3, SMT
<1>5. n = 256 * b + a
  BY <1>1, <1>2, BytesAdd, SMT
<1> QED
  BY <1>4, <1>5, SMT

LEMMA LengthOfEight ==
    ASSUME NEW n \in Nat, n <= MaxLength, Short(n) = 127
    PROVE  /\ \A i \in 2..5 : Length(n)[i] = 0
           /\ n = 256 * (256 * (256 * Length(n)[6] + Length(n)[7]) + Length(n)[8])
                  + Length(n)[9]
<1>1. ~(n <= 125) /\ ~(n <= 65535)
  BY SMT DEF Short
<1>2. PICK a, b, c, d :
        a = Byte(n, 1) /\ b = Byte(n, 256) /\ c = Byte(n, 65536) /\ d = Byte(n, 16777216)
  BY SMT
<1>3. PICK t : t = Length(n)
  OBVIOUS
<1>4. t = <<127, 0, 0, 0, 0, d, c, b, a>>
  BY <1>1, <1>2, <1>3, SMT DEF Length
<1>5. t[2] = 0 /\ t[3] = 0 /\ t[4] = 0 /\ t[5] = 0
  BY <1>4, SMT
<1>6. t[6] = d /\ t[7] = c /\ t[8] = b /\ t[9] = a
  BY <1>4, SMT
<1>7. ASSUME NEW i \in 2..5 PROVE t[i] = 0
  <2>1. i = 2 \/ i = 3 \/ i = 4 \/ i = 5
    BY SMT
  <2> QED
    BY <1>5, <2>1, SMT
<1>8. n = 256 * (256 * (256 * d + c) + b) + a
  BY <1>2, BytesAdd, SMT
<1> QED
  BY <1>3, <1>6, <1>7, <1>8, SMT

(* Two sequences joined.                                                    *)
LEMMA JoinedTyped ==
    ASSUME NEW S, NEW s \in Seq(S), NEW t \in Seq(S), NEW u, u = s \o t
    PROVE  u \in Seq(S) /\ Len(u) = Len(s) + Len(t) /\ Len(s) \in Nat /\ Len(t) \in Nat
  OBVIOUS

LEMMA JoinedFirst ==
    ASSUME NEW S, NEW s \in Seq(S), NEW t \in Seq(S), NEW u, u = s \o t
    PROVE  \A i \in 1..Len(s) : u[i] = s[i]
  OBVIOUS

LEMMA JoinedRest ==
    ASSUME NEW S, NEW s \in Seq(S), NEW t \in Seq(S), NEW u, u = s \o t
    PROVE  /\ \A i \in 1..Len(t) : u[Len(s) + i] = t[i]
           /\ SubSeq(u, Len(s) + 1, Len(u)) = t
<1>1. \A i \in 1..Len(t) : u[Len(s) + i] = t[i]
  OBVIOUS
<1>2. PICK v : v = SubSeq(u, Len(s) + 1, Len(u))
  OBVIOUS
<1>3. u \in Seq(S) /\ Len(u) = Len(s) + Len(t) /\ Len(s) \in Nat /\ Len(t) \in Nat
  BY JoinedTyped
<1>4. v \in Seq(S) /\ Len(v) = Len(t) /\ \A i \in 1..Len(t) : v[i] = u[Len(s) + i]
  BY <1>2, <1>3
<1>5. \A i \in 1..Len(t) : v[i] = t[i]
  BY <1>1, <1>4
<1>6. v = t
  BY <1>4, <1>5
<1> QED
  BY <1>1, <1>2, <1>6

(* Where the parts of a frame are.                                          *)
Ends(f) == 2 + Wide(f.n) + (IF f.masked THEN 4 ELSE 0)

LEMMA HeaderIs ==
    ASSUME NEW f \in Frame
    PROVE  /\ Header(f) \in Seq(Token) /\ Len(Header(f)) = Ends(f)
           /\ Header(f)[1] = 128 + f.op
           /\ Header(f)[2] = Short(f.n) + (IF f.masked THEN 128 ELSE 0)
           /\ \A i \in 2..(1 + Wide(f.n)) : Header(f)[i + 1] = Length(f.n)[i]
<1>1. PICK L, k, c, m :
        L = Length(f.n) /\ k = Wide(f.n) /\ c = Short(f.n) /\ m = (IF f.masked THEN 4 ELSE 0)
  OBVIOUS
<1>2. f.op \in Nat /\ f.masked \in BOOLEAN /\ f.n \in Nat /\ f.n <= MaxLength
  BY SMT DEF Frame
<1>3. L \in Seq(Nat) /\ Len(L) = 1 + k /\ L[1] = c /\ c \in Nat /\ k \in Nat
  <2>1. Wide(f.n) \in Nat
    BY SMT DEF Wide
  <2> QED
    BY <1>1, <1>2, <2>1, LengthTyped
<1>4. L \in Seq(Token)
  <2>1. \A i \in 1..Len(L) : L[i] \in Token
    BY <1>3 DEF Token
  <2> QED
    BY <1>3, <2>1
<1>5. m \in {0, 4} /\ Ends(f) = 2 + k + m
  BY <1>1, SMT DEF Ends
<1>6. ASSUME NEW T, T \in Seq(Token), Len(T) = 1 + k + m, Header(f) = <<128 + f.op>> \o T,
             T[1] = c + (IF f.masked THEN 128 ELSE 0), \A i \in 2..(1 + k) : T[i] = L[i]
      PROVE  /\ Header(f) \in Seq(Token) /\ Len(Header(f)) = Ends(f)
             /\ Header(f)[1] = 128 + f.op
             /\ Header(f)[2] = c + (IF f.masked THEN 128 ELSE 0)
             /\ \A i \in 2..(1 + k) : Header(f)[i + 1] = L[i]
  <2>1. PICK H, b : H = Header(f) /\ b = <<128 + f.op>>
    OBVIOUS
  <2>2. b \in Seq(Token) /\ Len(b) = 1 /\ b[1] = 128 + f.op
    <3>1. 128 + f.op \in Token
      BY <1>2, SMT DEF Token
    <3> QED
      BY <2>1, <3>1
  <2>3. H = b \o T /\ b \in Seq(Token) /\ T \in Seq(Token)
    BY <1>6, <2>1, <2>2
  <2>4. H \in Seq(Token) /\ Len(H) = Len(b) + Len(T)
    BY <2>3, JoinedTyped
  <2>5. \A i \in 1..Len(b) : H[i] = b[i]
    BY <2>3, JoinedFirst
  <2>6. \A i \in 1..Len(T) : H[Len(b) + i] = T[i]
    BY <2>3, JoinedRest
  <2>7. Len(H) = Ends(f) /\ H[1] = 128 + f.op
    BY <1>3, <1>5, <1>6, <2>2, <2>4, <2>5
  <2>8. \A i \in 1..(1 + k) : H[i + 1] = T[i]
    <3>1. SUFFICES ASSUME NEW i \in 1..(1 + k) PROVE H[i + 1] = T[i]
      OBVIOUS
    <3>2. i \in 1..Len(T) /\ Len(b) + i = i + 1
      BY <1>3, <1>5, <1>6, <2>2
    <3> QED
      BY <2>6, <3>2
  <2>9. 1 \in 1..(1 + k) /\ 1 + 1 = 2 /\ \A i \in 2..(1 + k) : i \in 1..(1 + k)
    BY <1>3
  <2>10. H[2] = T[1]
    BY <2>8, <2>9
  <2>11. \A i \in 2..(1 + k) : H[i + 1] = L[i]
    BY <1>6, <2>8, <2>9
  <2> QED
    BY <1>6, <2>1, <2>4, <2>7, <2>10, <2>11
<1>7. CASE f.masked
  <2>1. PICK M, K, T : M = Masking(L) /\ K = <<"m", "m", "m", "m">> /\ T = M \o K
    OBVIOUS
  <2>2. M = [L EXCEPT ![1] = L[1] + 128]
    BY <2>1 DEF Masking
  <2>3. 1 \in 1..Len(L) /\ L[1] + 128 \in Nat
    BY <1>3
  <2>4. M \in Seq(Nat) /\ Len(M) = 1 + k /\ M[1] = c + 128 /\ \A i \in 2..(1 + k) : M[i] = L[i]
    BY <1>3, <2>2, <2>3
  <2>5. M \in Seq(Token)
    <3>1. \A i \in 1..Len(M) : M[i] \in Token
      BY <2>4 DEF Token
    <3> QED
      BY <2>4, <3>1
  <2>6. K \in Seq(Token) /\ Len(K) = 4
    <3>1. "m" \in Token
      BY DEF Token
    <3> QED
      BY <2>1, <3>1
  <2>7. T \in Seq(Token) /\ Len(T) = Len(M) + Len(K)
    BY <2>1, <2>5, <2>6, JoinedTyped
  <2>8. \A i \in 1..Len(M) : T[i] = M[i]
    BY <2>1, <2>5, <2>6, JoinedFirst
  <2>9. Header(f) = <<128 + f.op>> \o T
    BY <1>1, <1>7, <2>1 DEF Header
  <2>10. m = 4 /\ (IF f.masked THEN 128 ELSE 0) = 128
    BY <1>1, <1>7
  <2>11. 1 \in 1..Len(M) /\ \A i \in 2..(1 + k) : i \in 1..Len(M)
    BY <1>3, <2>4
  <2>12. Len(T) = 1 + k + m
    BY <1>3, <2>4, <2>6, <2>7, <2>10
  <2>13. T[1] = c + 128 /\ \A i \in 2..(1 + k) : T[i] = L[i]
    BY <2>4, <2>8, <2>11
  <2>14. T[1] = c + (IF f.masked THEN 128 ELSE 0)
    BY <2>10, <2>13
  <2>15. Length(f.n) = L /\ Wide(f.n) = k /\ Short(f.n) = c
    BY <1>1
  <2> QED
    BY <1>6, <2>7, <2>9, <2>12, <2>13, <2>14, <2>15
<1>8. CASE ~f.masked
  <2>1. m = 0 /\ (IF f.masked THEN 128 ELSE 0) = 0 /\ c + 0 = c /\ 1 + k + 0 = 1 + k
    BY <1>1, <1>3, <1>8
  <2>2. Header(f) = <<128 + f.op>> \o L
    BY <1>1, <1>8 DEF Header
  <2> QED
    BY <1>1, <1>3, <1>4, <1>6, <2>1, <2>2
<1> QED
  BY <1>2, <1>7, <1>8

(* A frame of n bytes, read from there on.                                  *)
Reading(w, op, fin, masked, n, from) ==
    [frame |-> [op |-> op, fin |-> fin, masked |-> masked, n |-> n],
     whole |-> n # 0 => from <= Len(w) /\ w[from] = Payload(n, masked),
     rest  |-> SubSeq(w, from + (IF n # 0 THEN 1 ELSE 0), Len(w))]

(* A reader that finds the length and the mask at their places.             *)
LEMMA FrameRead ==
    ASSUME NEW f \in Frame, NEW w,
           w[1] = 128 + f.op, w[2] = Short(f.n) + (IF f.masked THEN 128 ELSE 0),
           \A i \in 2..(1 + Wide(f.n)) : w[i + 1] = Length(f.n)[i]
    PROVE  /\ FrameOf(w).frame = [op |-> f.op, fin |-> TRUE, masked |-> f.masked, n |-> f.n]
           /\ FrameOf(w).whole <=>
                (f.n # 0 => Ends(f) + 1 <= Len(w) /\ w[Ends(f) + 1] = Payload(f.n, f.masked))
           /\ FrameOf(w).rest =
                SubSeq(w, Ends(f) + 1 + (IF f.n # 0 THEN 1 ELSE 0), Len(w))
<1>1. /\ f.op \in Nat /\ f.op < 16 /\ f.masked \in BOOLEAN
      /\ f.n \in Nat /\ f.n <= MaxLength
  BY SMT DEF Frame
<1> DEFINE L == Length(f.n)
           s == Short(f.n)
<1>2. L \in Seq(Nat) /\ Len(L) = 1 + Wide(f.n)
  BY <1>1, LengthTyped
<1>3. /\ s \in Nat /\ s < 128
      /\ s = 126 => f.n = 256 * L[2] + L[3]
      /\ s = 127 => /\ \A i \in 2..5 : L[i] = 0
                    /\ f.n = 256 * (256 * (256 * L[6] + L[7]) + L[8]) + L[9]
  <2>1. s \in Nat /\ s < 128
    BY <1>1, LengthTyped
  <2>2. s = 126 => f.n = 256 * L[2] + L[3]
    BY <1>1, LengthOfTwo
  <2>3. s = 127 => /\ \A i \in 2..5 : L[i] = 0
                  /\ f.n = 256 * (256 * (256 * L[6] + L[7]) + L[8]) + L[9]
    BY <1>1, LengthOfEight
  <2> QED
    BY <2>1, <2>2, <2>3
<1>4. /\ s = 126 => Wide(f.n) = 2
      /\ s = 127 => Wide(f.n) = 8
      /\ s # 126 /\ s # 127 => Wide(f.n) = 0 /\ s = f.n
  BY <1>1, SMT DEF Short, Wide
<1> HIDE DEF s, L
<1>5. (w[1] >= 128) = TRUE /\ w[1] % 16 = f.op
  BY <1>1, SMT
<1>6. (w[2] >= 128) = f.masked /\ w[2] % 128 = s
  <2>1. w[2] = s + (IF f.masked THEN 128 ELSE 0)
    BY DEF s
  <2>2. CASE f.masked
    <3>1. w[2] >= 128 /\ w[2] % 128 = s
      BY <1>3, <2>1, <2>2, SMT
    <3> QED
      BY <1>1, <2>2, <3>1
  <2>3. CASE ~f.masked
    <3>1. ~(w[2] >= 128) /\ w[2] % 128 = s
      BY <1>3, <2>1, <2>3, SMT
    <3> QED
      BY <1>1, <2>3, <3>1
  <2> QED
    BY <2>2, <2>3
<1>7. s = 126 => Uint16(w) = f.n
  <2>1. SUFFICES ASSUME s = 126 PROVE Uint16(w) = f.n
    OBVIOUS
  <2>2. 2 \in 2..(1 + Wide(f.n)) /\ 3 \in 2..(1 + Wide(f.n))
    BY <1>4, <2>1, SMT
  <2>3. w[2 + 1] = L[2] /\ w[3 + 1] = L[3]
    BY <2>2 DEF L
  <2> QED
    BY <1>3, <2>1, <2>3, SMT DEF Uint16
<1>8. s = 127 => Uint64(w) = f.n
  <2>1. SUFFICES ASSUME s = 127 PROVE Uint64(w) = f.n
    OBVIOUS
  <2>2. \A i \in 2..9 : w[i + 1] = L[i]
    BY <1>4, <2>1, SMT DEF L
  <2>3. /\ w[3] = L[2] /\ w[4] = L[3] /\ w[5] = L[4] /\ w[6] = L[5]
        /\ w[7] = L[6] /\ w[8] = L[7] /\ w[9] = L[8] /\ w[10] = L[9]
    BY <2>2, SMT
  <2>4. L[2] = 0 /\ L[3] = 0 /\ L[4] = 0 /\ L[5] = 0
    BY <1>3, <2>1, SMT
  <2>5. f.n = 256 * (256 * (256 * L[6] + L[7]) + L[8]) + L[9]
    BY <1>3, <2>1
  <2>6. L[6] \in Nat /\ L[7] \in Nat /\ L[8] \in Nat /\ L[9] \in Nat
    <3>1. Len(L) = 9
      BY <1>4, <1>2, <2>1, SMT
    <3>2. 6 \in 1..Len(L) /\ 7 \in 1..Len(L) /\ 8 \in 1..Len(L) /\ 9 \in 1..Len(L)
      BY <3>1
    <3>3. \A i \in 1..Len(L) : L[i] \in Nat
      BY <1>2
    <3> QED
      BY <3>2, <3>3
  <2> QED
    BY <2>3, <2>4, <2>5, <2>6, SMT DEF Uint64
<1> DEFINE short == w[2] % 128
           n     == IF short = 126 THEN Uint16(w) ELSE IF short = 127 THEN Uint64(w) ELSE short
           wide  == IF short = 126 THEN 2 ELSE IF short = 127 THEN 8 ELSE 0
           from  == 3 + wide + (IF w[2] >= 128 THEN 4 ELSE 0)
<1>9. n = f.n
  BY <1>4, <1>6, <1>7, <1>8
<1>10. from = Ends(f) + 1
  <2>1. wide = Wide(f.n)
    BY <1>4, <1>6
  <2>2. Wide(f.n) \in Nat
    BY SMT DEF Wide
  <2> HIDE DEF wide, short
  <2>3. CASE f.masked
    <3>1. w[2] >= 128
      BY <1>6, <2>3
    <3> QED
      BY <2>1, <2>2, <2>3, <3>1, SMT DEF Ends
  <2>4. CASE ~f.masked
    <3>1. ~(w[2] >= 128)
      BY <1>6, <2>4
    <3> QED
      BY <2>1, <2>2, <2>4, <3>1, SMT DEF Ends
  <2> QED
    BY <2>3, <2>4
<1>11. FrameOf(w) = Reading(w, w[1] % 16, w[1] >= 128, w[2] >= 128, n, from)
  BY DEF FrameOf, Reading
<1> HIDE DEF n, from, short, wide
<1> DEFINE e == Ends(f) + 1
<1>12. FrameOf(w) =
         [frame |-> [op |-> f.op, fin |-> TRUE, masked |-> f.masked, n |-> f.n],
          whole |-> f.n # 0 => e <= Len(w) /\ w[e] = Payload(f.n, f.masked),
          rest  |-> SubSeq(w, e + (IF f.n # 0 THEN 1 ELSE 0), Len(w))]
  <2>1. FrameOf(w) = Reading(w, f.op, TRUE, f.masked, f.n, e)
    BY <1>5, <1>6, <1>9, <1>10, <1>11
  <2> QED
    BY <2>1 DEF Reading
<1> HIDE DEF e
<1>13. /\ FrameOf(w).frame = [op |-> f.op, fin |-> TRUE, masked |-> f.masked, n |-> f.n]
       /\ FrameOf(w).whole = (f.n # 0 => e <= Len(w) /\ w[e] = Payload(f.n, f.masked))
       /\ FrameOf(w).rest = SubSeq(w, e + (IF f.n # 0 THEN 1 ELSE 0), Len(w))
  <2>1. PICK a, b, c :
          /\ a = [op |-> f.op, fin |-> TRUE, masked |-> f.masked, n |-> f.n]
          /\ b = (f.n # 0 => e <= Len(w) /\ w[e] = Payload(f.n, f.masked))
          /\ c = SubSeq(w, e + (IF f.n # 0 THEN 1 ELSE 0), Len(w))
    OBVIOUS
  <2>2. FrameOf(w) = [frame |-> a, whole |-> b, rest |-> c]
    BY <1>12, <2>1, Zenon
  <2>3. FrameOf(w).frame = a /\ FrameOf(w).whole = b /\ FrameOf(w).rest = c
    BY <2>2
  <2> QED
    BY <2>1, <2>3, Zenon
<1> QED
  BY <1>13, Zenon DEF e

(* What is behind the header.                                               *)
Behind(P, f) ==
    /\ P \in Seq(Token) /\ Written(f) = Header(f) \o P
    /\ Len(P) = IF f.n # 0 THEN 1 ELSE 0
    /\ f.n # 0 => P[1] = Payload(f.n, f.masked)

LEMMA WrittenIs == ASSUME NEW f \in Frame PROVE \E P : Behind(P, f)
<1>1. f.n \in Nat /\ Payload(f.n, f.masked) \in Token
  BY SMT DEF Frame, Payload, Token
<1>2. PICK p, e : p = Payload(f.n, f.masked) /\ e = <<>>
  OBVIOUS
<1>3. CASE f.n > 0
  <2>1. <<p>> \in Seq(Token) /\ Len(<<p>>) = 1 /\ <<p>>[1] = p
    BY <1>1, <1>2
  <2>2. Written(f) = Header(f) \o <<p>> /\ f.n # 0
    BY <1>1, <1>2, <1>3 DEF Written
  <2>3. Behind(<<p>>, f)
    BY <1>2, <2>1, <2>2 DEF Behind
  <2> QED
    BY <2>3
<1>4. CASE ~(f.n > 0)
  <2>1. f.n = 0
    BY <1>1, <1>4
  <2>2. Written(f) = Header(f) \o e
    BY <1>2, <1>4, Zenon DEF Written
  <2>3. e \in Seq(Token) /\ Len(e) = 0
    BY <1>2
  <2>4. Behind(e, f)
    BY <2>1, <2>2, <2>3 DEF Behind
  <2> QED
    BY <2>4
<1> QED
  BY <1>3, <1>4

(* ws.go, wsclient.go: every frame is read as it was written, masked or     *)
(* not, whatever its length below 2^31, and so is the frame behind it.      *)
THEOREM FramesReadBack == ASSUME pair \in Frame \X Frame PROVE ReadAsWritten
<1>1. PICK f, g : f = pair[1] /\ g = pair[2]
  OBVIOUS
<1>2. f \in Frame /\ g \in Frame /\ f.n \in Nat
  BY <1>1, SMT DEF Frame
<1>3. PICK P : Behind(P, f)
  BY <1>2, WrittenIs
<1>4. /\ P \in Seq(Token) /\ Written(f) = Header(f) \o P
      /\ Len(P) = IF f.n # 0 THEN 1 ELSE 0
      /\ f.n # 0 => P[1] = Payload(f.n, f.masked)
  BY <1>3 DEF Behind
<1>5. Written(g) \in Seq(Token)
  <2>1. PICK Q : Q \in Seq(Token) /\ Written(g) = Header(g) \o Q
    BY <1>2, WrittenIs DEF Behind
  <2>2. Header(g) \in Seq(Token)
    BY <1>2, HeaderIs
  <2> QED
    BY <2>1, <2>2, JoinedTyped
<1>6. PICK H, G, F, w : H = Header(f) /\ G = Written(g) /\ F = H \o P /\ w = F \o G
  OBVIOUS
<1>7. /\ H \in Seq(Token) /\ Len(H) = Ends(f) /\ G \in Seq(Token)
      /\ Written(f) = F
  BY <1>2, <1>4, <1>5, <1>6, HeaderIs
<1>8. /\ F \in Seq(Token) /\ Len(F) = Len(H) + Len(P) /\ Len(H) \in Nat /\ Len(P) \in Nat
      /\ \A i \in 1..Len(H) : F[i] = H[i]
      /\ \A i \in 1..Len(P) : F[Len(H) + i] = P[i]
  <2>1. F = H \o P /\ H \in Seq(Token) /\ P \in Seq(Token)
    BY <1>4, <1>6, <1>7
  <2>2. F \in Seq(Token) /\ Len(F) = Len(H) + Len(P) /\ Len(H) \in Nat /\ Len(P) \in Nat
    BY <2>1, JoinedTyped
  <2>3. \A i \in 1..Len(H) : F[i] = H[i]
    BY <2>1, JoinedFirst
  <2>4. \A i \in 1..Len(P) : F[Len(H) + i] = P[i]
    BY <2>1, JoinedRest
  <2> QED
    BY <2>2, <2>3, <2>4
<1>9. /\ Len(w) = Len(F) + Len(G) /\ Len(G) \in Nat
      /\ \A i \in 1..Len(F) : w[i] = F[i]
      /\ SubSeq(w, Len(F) + 1, Len(w)) = G
  <2>1. w = F \o G /\ F \in Seq(Token) /\ G \in Seq(Token)
    BY <1>6, <1>7, <1>8
  <2>2. Len(w) = Len(F) + Len(G) /\ Len(G) \in Nat
    BY <2>1, JoinedTyped
  <2>3. \A i \in 1..Len(F) : w[i] = F[i]
    BY <2>1, JoinedFirst
  <2>4. SubSeq(w, Len(F) + 1, Len(w)) = G
    BY <2>1, JoinedRest
  <2> QED
    BY <2>2, <2>3, <2>4
<1>10. \A i \in 1..Ends(f) : w[i] = H[i]
  <2>1. \A i \in 1..Len(H) : i \in 1..Len(F)
    BY <1>8, SMT
  <2> QED
    BY <1>7, <1>8, <1>9, <2>1, Zenon
<1>11. Wide(f.n) \in Nat /\ 2 + Wide(f.n) <= Ends(f) /\ Ends(f) \in Nat
  BY SMT DEF Ends, Wide
<1>12. /\ w[1] = 128 + f.op /\ w[2] = Short(f.n) + (IF f.masked THEN 128 ELSE 0)
       /\ \A i \in 2..(1 + Wide(f.n)) : w[i + 1] = Length(f.n)[i]
  <2>1. 1 \in 1..Ends(f) /\ 2 \in 1..Ends(f)
        /\ \A i \in 2..(1 + Wide(f.n)) : i + 1 \in 1..Ends(f)
    BY <1>11
  <2>2. /\ H[1] = 128 + f.op /\ H[2] = Short(f.n) + (IF f.masked THEN 128 ELSE 0)
        /\ \A i \in 2..(1 + Wide(f.n)) : H[i + 1] = Length(f.n)[i]
    BY <1>2, <1>6, HeaderIs
  <2> QED
    BY <1>10, <2>1, <2>2
<1>13. /\ FrameOf(w).frame = [op |-> f.op, fin |-> TRUE, masked |-> f.masked, n |-> f.n]
       /\ FrameOf(w).whole <=>
            (f.n # 0 => Ends(f) + 1 <= Len(w) /\ w[Ends(f) + 1] = Payload(f.n, f.masked))
       /\ FrameOf(w).rest =
            SubSeq(w, Ends(f) + 1 + (IF f.n # 0 THEN 1 ELSE 0), Len(w))
  BY <1>2, <1>12, FrameRead
<1>14. FrameOf(w).whole
  <2>1. SUFFICES ASSUME f.n # 0
                 PROVE  Ends(f) + 1 <= Len(w) /\ w[Ends(f) + 1] = Payload(f.n, f.masked)
    BY <1>13
  <2>2. Len(P) = 1 /\ P[1] = Payload(f.n, f.masked) /\ 1 \in 1..Len(P)
    BY <1>4, <2>1
  <2>3. Ends(f) + 1 \in 1..Len(F) /\ F[Ends(f) + 1] = P[1]
    BY <1>7, <1>8, <1>11, <2>2
  <2> QED
    BY <1>8, <1>9, <2>2, <2>3
<1>15. FrameOf(w).rest = G
  <2>1. Ends(f) + 1 + (IF f.n # 0 THEN 1 ELSE 0) = Len(F) + 1
    BY <1>4, <1>7, <1>8, <1>11
  <2> QED
    BY <1>9, <1>13, <2>1
<1>16. w = Written(f) \o Written(g)
  BY <1>6, <1>7
<1> QED
  BY <1>1, <1>6, <1>13, <1>14, <1>15, <1>16 DEF ReadAsWritten
=============================================================================
