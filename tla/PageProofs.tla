----------------------------- MODULE PageProofs -----------------------------
(***************************************************************************)
(* Theorems about the page: its lane (PageIq), the frequency overlay       *)
(* (PageMeta) and the recorder (Recorder), for any number of sockets,      *)
(* frequencies, tunes, retunes by others, drops and clicks, any span, and  *)
(* a ring and frames of any size.                                          *)
(*                                                                         *)
(* DialHeard speaks of a quiet lane only, so it is not inductive: a step   *)
(* that makes the lane quiet must find it right already.  Follows says     *)
(* what holds of an active lane at any time: either it has a second or a   *)
(* closing socket, whose close event will end the session, or whatever is  *)
(* still wrong with centre and dial is repaired by a frame on the way.     *)
(* That the frame brings the helper's centre of by then is NewestComes.    *)
(*                                                                         *)
(* A file is right when it is written if the ring holds the last that was  *)
(* heard (RingHolds) and a recording ends with it (RecHolds) at any time;  *)
(* a clip, if a radio that has settled stays until it is kept (IsThere).   *)
(***************************************************************************)
EXTENDS PageIq, Overlay, Files, TLAPS

------------------------------------------------------------------------------
(* The inductive invariant.                                                 *)

(* What the helper sends: its hello has no frequency, the others have one.  *)
FrameType ==
    [kind : {"hello"}, hz : {None}, ctl : BOOLEAN]
    \cup [kind : {"stream", "meta"}, hz : Freq, ctl : BOOLEAN]

Wires == wire \in [Socket -> Seq(FrameType)]

StreamComes(s) == \E i \in DOMAIN wire[s] : wire[s][i].kind = "stream"
AnswerComes(s) == \E i \in DOMAIN wire[s] : wire[s][i].kind # "hello"

(* On an open socket an announce of a centre the helper has left is         *)
(* followed by one of the centre it has.                                    *)
NewestComes ==
    \A s \in Socket :
        conn[s] = "open" =>
            \A i \in DOMAIN wire[s] :
                wire[s][i].kind = "stream" /\ wire[s][i].hz # hub =>
                    \E j \in DOMAIN wire[s] :
                        i < j /\ wire[s][j].kind = "stream" /\ wire[s][j].hz = hub

(* The lane has a socket besides the one it knows, or one that is closing.  *)
Muddled == \E s \in Socket : conn[s] = "closing" \/ (conn[s] = "open" /\ s # sock)

(* The lane knows a socket only while it is the source.                     *)
KnownInLane == sock # None => mode = "wsiq"

(* A lane that decodes has a socket; with one only, it follows the centre   *)
(* or an announce is coming, and it reads what it decodes or an answer is.  *)
Follows ==
    sink.active =>
        /\ \E s \in Socket : conn[s] \in {"open", "closing"}
        /\ ~Muddled =>
             /\ worker.off = sink.off
             /\ sink.centre = hub \/ StreamComes(sock)
             /\ dial = sink.centre + sink.off \/ asked[sock] # None \/ AnswerComes(sock)

Inv == TypeOK /\ Wires /\ NewestComes /\ KnownInLane /\ Follows /\ ClosedIsOff

USE DEF pageVars, netVars

------------------------------------------------------------------------------
(* Lemmas about sequences and offsets.                                      *)

(* A sequence with an element appended.                                     *)
LEMMA AppendFacts ==
    ASSUME NEW S, NEW q \in Seq(S), NEW e \in S
    PROVE  /\ Append(q, e) \in Seq(S)
           /\ DOMAIN q = 1..Len(q) /\ Len(q) \in Nat
           /\ DOMAIN Append(q, e) = 1..(Len(q) + 1)
           /\ \A i \in 1..Len(q) : Append(q, e)[i] = q[i]
           /\ Append(q, e)[Len(q) + 1] = e
  OBVIOUS

(* A sequence without its first element.                                    *)
LEMMA TailFacts ==
    ASSUME NEW S, NEW q \in Seq(S), q # <<>>
    PROVE  /\ Tail(q) \in Seq(S) /\ Head(q) \in S /\ Head(q) = q[1]
           /\ DOMAIN q = 1..Len(q) /\ Len(q) \in Nat \ {0}
           /\ DOMAIN Tail(q) = 1..(Len(q) - 1)
           /\ \A i \in 1..(Len(q) - 1) : Tail(q)[i] = q[i + 1]
  OBVIOUS

(* Differences of frequencies are offsets.                                  *)
LEMMA OffsetFacts ==
    ASSUME ConstantsOK
    PROVE  0 \in Offset /\ \A f, g \in Freq : f - g \in Offset
<1>1. PICK f \in Freq : TRUE
  BY DEF ConstantsOK
<1>2. f - f = 0
  BY DEF ConstantsOK
<1> QED
  BY <1>1, <1>2 DEF Offset

------------------------------------------------------------------------------
(* Lemmas about what arrives and what is sent.                              *)

(* Taking a frame off a socket's wire leaves the wires typed, and the       *)
(* newest announce on it unless it was the frame taken.                     *)
LEMMA ReceiveFacts ==
    ASSUME Wires, NewestComes, NEW s \in Socket, NEW k \in {"hello", "stream", "meta"},
           Receive(s, k)
    PROVE  /\ Wires' /\ NewestComes'
           /\ Head(wire[s]) \in FrameType /\ Head(wire[s]).kind = k
           /\ \A t \in Socket \ {s} : wire'[t] = wire[t]
           /\ StreamComes(s) => StreamComes(s)' \/ k = "stream"
           /\ AnswerComes(s) => AnswerComes(s)' \/ k # "hello"
           /\ k = "stream" => StreamComes(s)' \/ Head(wire[s]).hz = hub
<1> USE DEF Receive
<1>1. /\ wire[s] \in Seq(FrameType) /\ wire[s] # <<>>
      /\ wire' = [wire EXCEPT ![s] = Tail(wire[s])] /\ wire'[s] = Tail(wire[s])
      /\ hub' = hub /\ conn' = conn /\ conn[s] = "open" /\ Head(wire[s]).kind = k
  BY DEF Wires
<1> HIDE DEF Receive
<1> DEFINE n == Len(wire[s])
<1>2. /\ Tail(wire[s]) \in Seq(FrameType) /\ Head(wire[s]) \in FrameType
      /\ Head(wire[s]) = wire[s][1]
      /\ n \in Nat \ {0} /\ DOMAIN wire[s] = 1..n /\ DOMAIN wire'[s] = 1..(n - 1)
      /\ \A i \in 1..(n - 1) : wire'[s][i] = wire[s][i + 1]
  <2>1. /\ Tail(wire[s]) \in Seq(FrameType) /\ Head(wire[s]) \in FrameType
        /\ Head(wire[s]) = wire[s][1]
        /\ DOMAIN wire[s] = 1..Len(wire[s]) /\ Len(wire[s]) \in Nat \ {0}
        /\ DOMAIN Tail(wire[s]) = 1..(Len(wire[s]) - 1)
        /\ \A i \in 1..(Len(wire[s]) - 1) : Tail(wire[s])[i] = wire[s][i + 1]
    <3>1. wire[s] \in Seq(FrameType) /\ wire[s] # <<>>
      BY <1>1
    <3> QED
      BY <3>1, TailFacts, Zenon
  <2> QED
    BY <1>1, <2>1, Zenon
<1>3. Wires'
  BY <1>1, <1>2 DEF Wires
<1>4. \A t \in Socket \ {s} : wire'[t] = wire[t]
  BY <1>1 DEF Wires
<1> HIDE DEF n
<1>5. \A j \in 2..n : j - 1 \in DOMAIN wire'[s] /\ wire'[s][j - 1] = wire[s][j]
  BY <1>2
<1>6. \A i \in DOMAIN wire'[s] : i \in Nat /\ i + 1 \in 2..n /\ wire'[s][i] = wire[s][i + 1]
  BY <1>2
<1>7. NewestComes'
  <2> SUFFICES ASSUME NEW t \in Socket, conn[t] = "open", NEW i \in DOMAIN wire'[t],
                      wire'[t][i].kind = "stream", wire'[t][i].hz # hub
               PROVE  \E j \in DOMAIN wire'[t] :
                          i < j /\ wire'[t][j].kind = "stream" /\ wire'[t][j].hz = hub
    BY <1>1 DEF NewestComes
  <2>1. CASE t # s
    BY <1>4, <2>1 DEF NewestComes
  <2>2. CASE t = s
    <3>1. i + 1 \in DOMAIN wire[s] /\ wire[s][i + 1] = wire'[s][i]
      BY <1>2, <1>6, <2>2
    <3>2. PICK j \in DOMAIN wire[s] :
                 i + 1 < j /\ wire[s][j].kind = "stream" /\ wire[s][j].hz = hub
      BY <2>2, <3>1 DEF NewestComes
    <3>3. j \in 2..n /\ i < j - 1
      BY <1>2, <1>6, <2>2, <3>2
    <3> QED
      BY <1>5, <2>2, <3>2, <3>3
  <2> QED
    BY <2>1, <2>2
<1>8. StreamComes(s) => StreamComes(s)' \/ k = "stream"
  <2> SUFFICES ASSUME NEW i \in DOMAIN wire[s], wire[s][i].kind = "stream", k # "stream"
               PROVE  StreamComes(s)'
    BY DEF StreamComes
  <2>1. i \in 2..n
    BY <1>1, <1>2
  <2> QED
    BY <1>5, <2>1 DEF StreamComes
<1>9. AnswerComes(s) => AnswerComes(s)' \/ k # "hello"
  <2> SUFFICES ASSUME NEW i \in DOMAIN wire[s], wire[s][i].kind # "hello", k = "hello"
               PROVE  AnswerComes(s)'
    BY DEF AnswerComes
  <2>1. i \in 2..n
    BY <1>1, <1>2
  <2> QED
    BY <1>5, <2>1 DEF AnswerComes
<1>10. k = "stream" => StreamComes(s)' \/ Head(wire[s]).hz = hub
  <2> SUFFICES ASSUME k = "stream", Head(wire[s]).hz # hub PROVE StreamComes(s)'
    OBVIOUS
  <2>1. 1 \in DOMAIN wire[s] /\ wire[s][1].kind = "stream" /\ wire[s][1].hz # hub
    BY <1>1, <1>2
  <2>2. PICK j \in DOMAIN wire[s] : 1 < j /\ wire[s][j].kind = "stream"
    BY <1>1, <2>1 DEF NewestComes
  <2>3. j \in 2..n
    BY <1>2, <2>2
  <2> QED
    BY <1>5, <2>2, <2>3 DEF StreamComes
<1> QED
  BY <1>1, <1>2, <1>3, <1>4, <1>7, <1>8, <1>9, <1>10

(* An announce goes to every open socket, and is the newest on each.        *)
LEMMA AnnounceFacts ==
    ASSUME Wires, NEW f \in Freq, Announce(f), conn' = conn
    PROVE  /\ Wires' /\ NewestComes'
           /\ \A s \in Socket : IF conn[s] = "open" THEN StreamComes(s)' /\ AnswerComes(s)'
                                ELSE wire'[s] = wire[s]
<1> DEFINE F == Frame("stream", f, TRUE)
<1>1. F \in FrameType /\ F.kind = "stream" /\ F.hz = f
  BY DEF FrameType, Frame
<1>2. \A s \in Socket : wire'[s] = IF conn[s] = "open" THEN Append(wire[s], F) ELSE wire[s]
  BY DEF Announce
<1>3. wire' = [s \in Socket |-> wire'[s]] /\ hub' = f
  BY DEF Announce
<1> HIDE DEF F
<1>4. \A s \in Socket :
        conn[s] = "open" => /\ wire'[s] \in Seq(FrameType)
                            /\ Len(wire[s]) \in Nat
                            /\ DOMAIN wire'[s] = 1..(Len(wire[s]) + 1)
                            /\ wire'[s][Len(wire[s]) + 1] = F
  <2> SUFFICES ASSUME NEW s \in Socket, conn[s] = "open"
               PROVE  /\ wire'[s] \in Seq(FrameType) /\ Len(wire[s]) \in Nat
                      /\ DOMAIN wire'[s] = 1..(Len(wire[s]) + 1)
                      /\ wire'[s][Len(wire[s]) + 1] = F
    OBVIOUS
  <2>1. wire[s] \in Seq(FrameType) /\ wire'[s] = Append(wire[s], F)
    BY <1>2 DEF Wires
  <2>2. wire[s] \in Seq(FrameType) /\ F \in FrameType
    BY <1>1, <2>1
  <2>3. /\ Append(wire[s], F) \in Seq(FrameType)
        /\ Len(wire[s]) \in Nat
        /\ DOMAIN Append(wire[s], F) = 1..(Len(wire[s]) + 1)
        /\ Append(wire[s], F)[Len(wire[s]) + 1] = F
    BY <2>2, AppendFacts
  <2> QED
    BY <2>1, <2>3, Zenon
<1>5. Wires'
  BY <1>2, <1>3, <1>4 DEF Wires
<1>6. NewestComes'
  <2> SUFFICES ASSUME NEW s \in Socket, conn[s] = "open", NEW i \in DOMAIN wire'[s],
                      wire'[s][i].hz # f
               PROVE  \E j \in DOMAIN wire'[s] :
                          i < j /\ wire'[s][j].kind = "stream" /\ wire'[s][j].hz = f
    BY <1>3 DEF NewestComes
  <2> QED
    BY <1>1, <1>4
<1>7. \A s \in Socket : conn[s] = "open" => StreamComes(s)' /\ AnswerComes(s)'
  BY <1>1, <1>4 DEF StreamComes, AnswerComes
<1> QED
  BY <1>2, <1>5, <1>6, <1>7

(* A refusal goes to the socket that asked, if it is still open.            *)
LEMMA RefuseFacts ==
    ASSUME Wires, NewestComes, NEW s \in Socket, hub \in Freq, hub' = hub, conn' = conn,
           wire' = [wire EXCEPT ![s] = IF conn[s] = "open"
                                       THEN Append(@, Frame("meta", hub, TRUE)) ELSE @]
    PROVE  /\ Wires' /\ NewestComes'
           /\ conn[s] = "open" => AnswerComes(s)'
           /\ StreamComes(s) => StreamComes(s)'
           /\ \A t \in Socket : conn[t] # "open" \/ t # s => wire'[t] = wire[t]
<1> DEFINE F == Frame("meta", hub, TRUE)
<1>1. F \in FrameType /\ F.kind = "meta"
  BY DEF FrameType, Frame
<1>2. wire' = [wire EXCEPT ![s] = IF conn[s] = "open" THEN Append(wire[s], F) ELSE wire[s]]
  OBVIOUS
<1> HIDE DEF F
<1>3. \A t \in Socket : conn[t] # "open" \/ t # s => wire'[t] = wire[t]
  BY <1>2 DEF Wires
<1>4. CASE conn[s] # "open"
  <2>1. wire' = wire
    BY <1>2, <1>4 DEF Wires
  <2> QED
    BY <1>4, <2>1 DEF Wires, NewestComes, StreamComes
<1>5. CASE conn[s] = "open"
  <2>1. /\ wire'[s] \in Seq(FrameType) /\ Len(wire[s]) \in Nat
        /\ DOMAIN wire[s] = 1..Len(wire[s]) /\ DOMAIN wire'[s] = 1..(Len(wire[s]) + 1)
        /\ \A i \in 1..Len(wire[s]) : i \in DOMAIN wire'[s] /\ wire'[s][i] = wire[s][i]
        /\ wire'[s][Len(wire[s]) + 1] = F
    <3>1. wire[s] \in Seq(FrameType) /\ wire'[s] = Append(wire[s], F)
      BY <1>2, <1>5 DEF Wires
    <3>2. wire[s] \in Seq(FrameType) /\ F \in FrameType
      BY <1>1, <3>1
    <3>3. /\ Append(wire[s], F) \in Seq(FrameType)
          /\ DOMAIN wire[s] = 1..Len(wire[s]) /\ Len(wire[s]) \in Nat
          /\ DOMAIN Append(wire[s], F) = 1..(Len(wire[s]) + 1)
          /\ \A i \in 1..Len(wire[s]) : Append(wire[s], F)[i] = wire[s][i]
          /\ Append(wire[s], F)[Len(wire[s]) + 1] = F
      BY <3>2, AppendFacts
    <3>4. \A i \in 1..Len(wire[s]) : i \in 1..(Len(wire[s]) + 1)
      BY <3>3
    <3> QED
      BY <3>1, <3>3, <3>4, Zenon
  <2>2. Wires'
    BY <1>2, <1>5, <2>1 DEF Wires
  <2>3. NewestComes'
    <3> SUFFICES ASSUME NEW t \in Socket, conn[t] = "open", NEW i \in DOMAIN wire'[t],
                        wire'[t][i].kind = "stream", wire'[t][i].hz # hub
                 PROVE  \E j \in DOMAIN wire'[t] :
                            i < j /\ wire'[t][j].kind = "stream" /\ wire'[t][j].hz = hub
      BY DEF NewestComes
    <3>1. CASE t # s
      BY <1>3, <3>1 DEF NewestComes
    <3>2. CASE t = s
      <4>0. /\ i \in 1..(Len(wire[s]) + 1)
            /\ wire'[s][i].kind = "stream" /\ wire'[s][i].hz # hub
        BY <2>1, <3>2
      <4>1. i # Len(wire[s]) + 1
        BY <1>1, <2>1, <4>0
      <4>2. i \in 1..Len(wire[s]) /\ wire'[s][i] = wire[s][i]
        <5>1. Len(wire[s]) \in Nat
          BY <2>1
        <5>2. i \in 1..Len(wire[s])
          BY <4>0, <4>1, <5>1
        <5> QED
          BY <2>1, <5>2, Zenon
      <4>3. PICK j \in 1..Len(wire[s]) :
                   i < j /\ wire[s][j].kind = "stream" /\ wire[s][j].hz = hub
        BY ZenonT(60), <1>5, <2>1, <4>0, <4>2 DEF NewestComes
      <4>4. j \in DOMAIN wire'[s] /\ wire'[s][j] = wire[s][j]
        BY <2>1
      <4> QED
        BY <3>2, <4>3, <4>4
    <3> QED
      BY <3>1, <3>2
  <2>4. AnswerComes(s)'
    <3>1. Len(wire[s]) + 1 \in DOMAIN wire'[s]
      BY <2>1
    <3> QED
      BY <1>1, <2>1, <3>1 DEF AnswerComes
  <2>5. StreamComes(s) => StreamComes(s)'
    <3>1. \A i \in DOMAIN wire[s] : i \in DOMAIN wire'[s] /\ wire'[s][i] = wire[s][i]
      BY <2>1
    <3> QED
      BY <3>1 DEF StreamComes
  <2> QED
    BY <1>3, <2>2, <2>3, <2>4, <2>5
<1> QED
  BY <1>4, <1>5

------------------------------------------------------------------------------
(* TypeOK in three parts.                                                   *)

PageTyped ==
    /\ mode \in {"sdr", "wsiq", "file"}
    /\ sock \in Socket \cup {None}
    /\ ctl \in BOOLEAN /\ playing \in BOOLEAN
    /\ dial \in Freq \cup {None}
    /\ buttons \in [connect : BOOLEAN, disconnect : BOOLEAN, readout : BOOLEAN]
    /\ playing => mode = "file"

SinkTyped ==
    /\ sink \in [active : BOOLEAN, centre : Freq \cup {None}, vfo : Freq \cup {None},
                 off : Offset]
    /\ sink.active => sink.centre # None
    /\ worker \in [on : BOOLEAN, off : Offset, lane : {"wsiq", "file", None}]

NetTyped ==
    /\ conn \in [Socket -> {"unused", "connecting", "open", "closing", "gone"}]
    /\ \A s \in Socket : conn[s] \in {"unused", "connecting", "gone"} => wire[s] = <<>>
    /\ asked \in [Socket -> Freq \cup {None}]
    /\ hub \in Freq
    /\ sock # None => conn[sock] \in {"connecting", "open", "closing"}

Parts == PageTyped /\ SinkTyped /\ NetTyped

(* The three parts are the whole of it.                                     *)
LEMMA TypeSplit == TypeOK <=> Parts
  BY DEF TypeOK, Parts, PageTyped, SinkTyped, NetTyped

(* SetVfo keeps the types, moves neither centre nor activity, and leaves    *)
(* the worker at the sink's offset if it was there.                         *)
LEMMA SetVfoFacts ==
    ASSUME ConstantsOK, SinkTyped, NEW f \in Freq, SetVfo(f)
    PROVE  /\ SinkTyped'
           /\ sink'.active = sink.active /\ sink'.centre = sink.centre
           /\ sink.active => sink'.off = f - sink.centre
           /\ worker.off = sink.off => worker'.off = sink'.off
<1>1. CASE ~sink.active
  BY <1>1 DEF SetVfo, SinkTyped
<1>2. CASE sink.active
  <2> DEFINE o == f - sink.centre
  <2>1. o \in Offset
    BY <1>2, OffsetFacts DEF SinkTyped
  <2>2. /\ sink' = [sink EXCEPT !.vfo = f, !.off = o]
        /\ worker' = IF o # sink.off THEN [worker EXCEPT !.off = o] ELSE worker
    BY <1>2 DEF SetVfo
  <2> HIDE DEF o
  <2>3. SinkTyped'
    BY <2>1, <2>2 DEF SinkTyped
  <2>4. sink'.active = sink.active /\ sink'.centre = sink.centre /\ sink'.off = o
    BY <2>2 DEF SinkTyped
  <2>5. worker.off = sink.off => worker'.off = o
    BY <2>2 DEF SinkTyped
  <2> QED
    BY <2>3, <2>4, <2>5 DEF o
<1> QED
  BY <1>1, <1>2

(* A step that sends and takes nothing and opens no socket leaves every     *)
(* newest announce on its way.                                              *)
LEMMA NewestKept ==
    ASSUME NewestComes, hub' = hub, wire' = wire,
           \A s \in Socket : conn'[s] = "open" => conn[s] = "open"
    PROVE  NewestComes'
  BY DEF NewestComes

------------------------------------------------------------------------------
(* Initially there is no connection, and every step keeps the invariant.    *)

(* The page is loaded without a connection.                                 *)
LEMMA InvInit == ASSUME ConstantsOK PROVE Init => Inv
<1> SUFFICES ASSUME Init PROVE Inv
  OBVIOUS
<1> USE DEF Init
<1>1. Parts
  BY OffsetFacts DEF Parts, PageTyped, SinkTyped, NetTyped
<1>2. Wires
  BY DEF Wires
<1>3. NewestComes /\ KnownInLane /\ Follows /\ ClosedIsOff
  BY DEF NewestComes, KnownInLane, Follows, ClosedIsOff
<1> QED
  BY <1>1, <1>2, <1>3, TypeSplit DEF Inv

(* Every step keeps it: one action after the other.                        *)
LEMMA InvStep == ASSUME ConstantsOK PROVE Inv /\ [Next]_vars => Inv'
<1> SUFFICES ASSUME Inv, [Next]_vars PROVE Inv'
  OBVIOUS
<1>0. /\ PageTyped /\ SinkTyped /\ NetTyped /\ Wires /\ NewestComes /\ KnownInLane
      /\ Follows /\ ClosedIsOff /\ None \notin Socket \cup Freq /\ Freq \subseteq Nat
  BY TypeSplit DEF Inv, Parts, ConstantsOK
<1> DEFINE Whole == PageTyped /\ SinkTyped /\ NetTyped /\ Wires /\ NewestComes /\ KnownInLane
                    /\ Follows /\ ClosedIsOff
<1> HIDE DEF Whole
<1>1. ASSUME NEW s \in Socket, ClickConnect(s) PROVE Whole'
  <2>1. PageTyped' /\ SinkTyped' /\ NetTyped'
    BY <1>0, <1>1 DEF ClickConnect, PageTyped, SinkTyped, NetTyped
  <2>2. Wires' /\ NewestComes'
    BY <1>0, <1>1, NewestKept DEF ClickConnect, Wires, NetTyped
  <2>3. KnownInLane' /\ ClosedIsOff'
    BY <1>0, <1>1 DEF ClickConnect, KnownInLane, ClosedIsOff, NetTyped, SinkTyped
  <2>4. Follows'
    BY <1>0, <1>1 DEF ClickConnect, Follows, Muddled, StreamComes, AnswerComes, PageTyped,
       SinkTyped, NetTyped, KnownInLane
  <2> QED
    BY <2>1, <2>2, <2>3, <2>4 DEF Whole
<1>2. ASSUME ClickDisconnect PROVE Whole'
  <2>1. PageTyped' /\ SinkTyped' /\ NetTyped'
    BY <1>0, <1>2 DEF ClickDisconnect, Close, PageTyped, SinkTyped, NetTyped
  <2>2. Wires' /\ NewestComes'
    BY <1>0, <1>2, NewestKept DEF ClickDisconnect, Close, Wires, NetTyped
  <2>3. KnownInLane' /\ ClosedIsOff'
    BY <1>0, <1>2 DEF ClickDisconnect, Close, KnownInLane, ClosedIsOff, NetTyped,
       SinkTyped
  <2>4. Follows'
    BY <1>0, <1>2 DEF ClickDisconnect, Close, Follows, Muddled, StreamComes, AnswerComes,
       PageTyped, SinkTyped, NetTyped, KnownInLane
  <2> QED
    BY <2>1, <2>2, <2>3, <2>4 DEF Whole
<1>3. ASSUME NEW f \in Freq, TuneTo(f) PROVE Whole'
  <2>0. /\ mode = "wsiq" /\ sink.active /\ dial' = f
        /\ mode' = mode /\ sock' = sock /\ conn' = conn /\ wire' = wire /\ hub' = hub
        /\ \/ InSpan(f) /\ SetVfo(f) /\ asked' = asked
           \/ /\ asked' = IF sock # None /\ conn[sock] = "open"
                          THEN [asked EXCEPT ![sock] = f] ELSE asked
              /\ UNCHANGED <<sink, worker>>
    BY <1>3 DEF TuneTo
  <2>1. PageTyped' /\ NetTyped'
    BY <1>0, <1>3 DEF TuneTo, InSpan, SetVfo, Spend, PageTyped, NetTyped
  <2>2. SinkTyped'
    <3>1. CASE SetVfo(f)
      BY <1>0, <3>1, SetVfoFacts
    <3>2. CASE UNCHANGED <<sink, worker>>
      BY <1>0, <3>2 DEF SinkTyped
    <3> QED
      BY <2>0, <3>1, <3>2
  <2>3. Wires' /\ NewestComes'
    BY <1>0, <1>3, NewestKept DEF TuneTo, InSpan, SetVfo, Spend, Wires, NetTyped
  <2>4. KnownInLane' /\ ClosedIsOff'
    BY <1>0, <1>3 DEF TuneTo, InSpan, SetVfo, Spend, KnownInLane, ClosedIsOff, NetTyped,
       SinkTyped
  <2>5. Follows'
    <3>1. Muddled' = Muddled /\ StreamComes(sock)' = StreamComes(sock)
      BY <2>0 DEF Muddled, StreamComes
    <3>2. \E s \in Socket : conn'[s] \in {"open", "closing"}
      BY <1>0, <2>0 DEF Follows
    <3>3. CASE SetVfo(f) /\ asked' = asked
      <4>1. /\ sink'.centre = sink.centre /\ sink'.off = f - sink.centre
            /\ worker.off = sink.off => worker'.off = sink'.off
        BY <1>0, <2>0, <3>3, SetVfoFacts
      <4>2. sink.centre \in Nat /\ f \in Nat
        BY <1>0, <2>0 DEF SinkTyped
      <4>3. dial' = sink'.centre + sink'.off
        BY <2>0, <4>1, <4>2
      <4> QED
        BY <1>0, <2>0, <3>1, <3>2, <4>1, <4>3 DEF Follows
    <3>4. CASE /\ asked' = IF sock # None /\ conn[sock] = "open"
                           THEN [asked EXCEPT ![sock] = f] ELSE asked
               /\ UNCHANGED <<sink, worker>>
      <4> SUFFICES ASSUME ~Muddled PROVE asked'[sock'] # None
        BY <1>0, <2>0, <3>1, <3>2, <3>4 DEF Follows
      <4>1. sock \in Socket /\ conn[sock] = "open"
        BY <1>0, <2>0 DEF Follows, Muddled
      <4> QED
        BY <1>0, <2>0, <3>4, <4>1 DEF NetTyped
    <3> QED
      BY <2>0, <3>3, <3>4
  <2> QED
    BY <2>1, <2>2, <2>3, <2>4, <2>5 DEF Whole
<1>4. ASSUME NEW m \in {"sdr", "file"}, Leave(m) PROVE Whole'
  <2>1. PageTyped' /\ SinkTyped' /\ NetTyped'
    BY ZenonT(60), <1>0, <1>4 DEF Leave, Close, Teardown, Forget, Spend, PageTyped, SinkTyped,
       NetTyped
  <2>2. Wires' /\ NewestComes'
    BY <1>0, <1>4, NewestKept DEF Leave, Close, Teardown, Forget, Spend, Wires, NetTyped
  <2>3. KnownInLane' /\ ClosedIsOff'
    BY <1>0, <1>4 DEF Leave, Close, Teardown, Forget, Spend, KnownInLane, ClosedIsOff,
       NetTyped, SinkTyped
  <2>4. Follows'
    BY <1>0, <1>4 DEF Leave, Close, Teardown, Forget, Spend, Follows, Muddled,
       StreamComes, AnswerComes, PageTyped, SinkTyped, NetTyped, KnownInLane
  <2> QED
    BY <2>1, <2>2, <2>3, <2>4 DEF Whole
<1>5. ASSUME NEW m \in {"sdr", "file"}, Switch(m) PROVE Whole'
  <2>1. PageTyped'
    BY <1>0, <1>5 DEF Switch, Spend, PageTyped
  <2>2. SinkTyped'
    BY <1>0, <1>5 DEF Switch, Spend, SinkTyped
  <2>3. NetTyped'
    BY <1>0, <1>5 DEF Switch, Spend, NetTyped, PageTyped
  <2>4. Wires' /\ NewestComes'
    BY <1>0, <1>5, NewestKept DEF Switch, Spend, Wires, NetTyped
  <2>5. KnownInLane' /\ ClosedIsOff'
    BY <1>0, <1>5 DEF Switch, Spend, KnownInLane, ClosedIsOff, NetTyped, SinkTyped
  <2>6. Follows'
    BY <1>0, <1>5 DEF Switch, Spend, Follows, Muddled, StreamComes, AnswerComes,
       PageTyped, SinkTyped, NetTyped, KnownInLane
  <2> QED
    BY <2>1, <2>2, <2>3, <2>4, <2>5, <2>6 DEF Whole
<1>6. ASSUME Enter PROVE Whole'
  <2>1. PageTyped' /\ SinkTyped' /\ NetTyped'
    BY <1>0, <1>6 DEF Enter, Spend, PageTyped, SinkTyped, NetTyped
  <2>2. Wires' /\ NewestComes'
    BY <1>0, <1>6, NewestKept DEF Enter, Spend, Wires, NetTyped
  <2>3. KnownInLane' /\ ClosedIsOff'
    BY <1>0, <1>6 DEF Enter, Spend, KnownInLane, ClosedIsOff, NetTyped, SinkTyped
  <2>4. Follows'
    BY <1>0, <1>6 DEF Enter, Spend, Follows, Muddled, StreamComes, AnswerComes, PageTyped,
       SinkTyped, NetTyped, KnownInLane
  <2> QED
    BY <2>1, <2>2, <2>3, <2>4 DEF Whole
<1>7. ASSUME PlayFile PROVE Whole'
  <2>1. PageTyped' /\ SinkTyped' /\ NetTyped'
    BY <1>0, <1>7, OffsetFacts DEF PlayFile, PageTyped, SinkTyped, NetTyped
  <2>2. Wires' /\ NewestComes'
    BY <1>0, <1>7, NewestKept DEF PlayFile, Wires, NetTyped
  <2>3. KnownInLane' /\ ClosedIsOff'
    BY <1>0, <1>7 DEF PlayFile, KnownInLane, ClosedIsOff, NetTyped, SinkTyped
  <2>4. Follows'
    BY <1>0, <1>7 DEF PlayFile, Follows, Muddled, StreamComes, AnswerComes, PageTyped,
       SinkTyped, NetTyped, KnownInLane
  <2> QED
    BY <2>1, <2>2, <2>3, <2>4 DEF Whole
<1>8. ASSUME StopFile PROVE Whole'
  <2>1. PageTyped' /\ SinkTyped' /\ NetTyped'
    BY ZenonT(60), <1>0, <1>8 DEF StopFile, PageTyped, SinkTyped, NetTyped
  <2>2. Wires' /\ NewestComes'
    BY <1>0, <1>8, NewestKept DEF StopFile, Wires, NetTyped
  <2>3. KnownInLane' /\ ClosedIsOff'
    BY <1>0, <1>8 DEF StopFile, KnownInLane, ClosedIsOff, NetTyped, SinkTyped
  <2>4. Follows'
    BY <1>0, <1>8 DEF StopFile, Follows, Muddled, StreamComes, AnswerComes, PageTyped,
       SinkTyped, NetTyped, KnownInLane
  <2> QED
    BY <2>1, <2>2, <2>3, <2>4 DEF Whole
<1>9. ASSUME NEW s \in Socket, Opened(s) PROVE Whole'
  <2>0. PICK c \in BOOLEAN :
          /\ conn[s] = "connecting" /\ conn' = [conn EXCEPT ![s] = "open"] /\ hub' = hub
          /\ wire' = [wire EXCEPT ![s] = <<Frame("hello", None, c), Frame("stream", hub, TRUE)>>]
    BY <1>9 DEF Opened
  <2> DEFINE a == Frame("hello", None, c)
             b == Frame("stream", hub, TRUE)
  <2>9. /\ a \in FrameType /\ b \in FrameType
        /\ a.kind = "hello" /\ b.kind = "stream" /\ b.hz = hub
    BY <1>0 DEF FrameType, Frame, NetTyped
  <2>10. wire' = [wire EXCEPT ![s] = <<a, b>>]
    BY <2>0
  <2> HIDE DEF a, b
  <2>11. /\ <<a, b>> \in Seq(FrameType) /\ DOMAIN <<a, b>> = {1, 2}
         /\ <<a, b>>[1] = a /\ <<a, b>>[2] = b
    BY <2>9
  <2>12. /\ wire'[s] = <<a, b>>
         /\ \A t \in Socket \ {s} : wire'[t] = wire[t] /\ conn'[t] = conn[t]
    BY <1>0, <2>0, <2>10 DEF Wires, NetTyped
  <2>1. PageTyped'
    BY <1>0, <1>9 DEF Opened, Frame, PageTyped
  <2>2. SinkTyped'
    BY <1>0, <1>9 DEF Opened, Frame, SinkTyped
  <2>3. NetTyped'
    BY <1>0, <1>9 DEF Opened, Frame, NetTyped, PageTyped
  <2>4. Wires'
    BY <1>0, <2>10, <2>11 DEF Wires
  <2>5. NewestComes'
    <3> SUFFICES ASSUME NEW t \in Socket, conn'[t] = "open", NEW i \in DOMAIN wire'[t],
                        wire'[t][i].kind = "stream", wire'[t][i].hz # hub
                 PROVE  \E j \in DOMAIN wire'[t] :
                            i < j /\ wire'[t][j].kind = "stream" /\ wire'[t][j].hz = hub
      BY <2>0 DEF NewestComes
    <3>1. CASE t = s
      BY <2>9, <2>11, <2>12, <3>1
    <3>2. CASE t # s
      BY <1>0, <2>12, <3>2 DEF NewestComes
    <3> QED
      BY <3>1, <3>2
  <2>6. KnownInLane' /\ ClosedIsOff'
    BY <1>0, <1>9 DEF Opened, Frame, KnownInLane, ClosedIsOff, NetTyped, SinkTyped
  <2>7. Follows'
    BY <1>0, <1>9 DEF Opened, Frame, Follows, Muddled, StreamComes, AnswerComes,
       PageTyped, SinkTyped, NetTyped, KnownInLane
  <2> QED
    BY <2>1, <2>2, <2>3, <2>4, <2>5, <2>6, <2>7 DEF Whole
<1>10. ASSUME NEW s \in Socket, OnHello(s) PROVE Whole'
  <2>0. /\ Receive(s, "hello") /\ conn[s] = "open"
        /\ mode' = mode /\ sock' = sock /\ playing' = playing
        /\ conn' = conn /\ asked' = asked /\ hub' = hub
    BY <1>10 DEF OnHello, Receive
  <2> DEFINE h == Head(wire[s])
  <2>9. /\ Wires' /\ NewestComes' /\ h \in FrameType /\ h.kind = "hello"
        /\ \A t \in Socket \ {s} : wire'[t] = wire[t]
        /\ StreamComes(s) => StreamComes(s)' \/ "hello" = "stream"
        /\ AnswerComes(s) => AnswerComes(s)' \/ "hello" # "hello"
        /\ "hello" = "stream" => StreamComes(s)' \/ h.hz = hub
    BY <1>0, <2>0, ReceiveFacts
  <2>10. /\ ctl' = h.ctl /\ UNCHANGED <<dial, sink, worker>>
         /\ buttons' = IF mode = "wsiq" THEN [buttons EXCEPT !.readout = h.ctl] ELSE buttons
    BY <1>10 DEF OnHello, Tunable
  <2>11. h.ctl \in BOOLEAN
    BY <2>9 DEF FrameType
  <2> HIDE DEF h
  <2>1. PageTyped'
    BY <1>0, <2>0, <2>10, <2>11 DEF PageTyped
  <2>2. SinkTyped' /\ NetTyped'
    BY <1>0, <1>10 DEF OnHello, Receive, Tunable, SinkTyped, NetTyped, PageTyped
  <2>3. Wires'
    BY <2>9
  <2>4. NewestComes'
    BY <2>9
  <2>5. KnownInLane' /\ ClosedIsOff'
    BY <1>0, <1>10 DEF OnHello, Receive, Tunable, KnownInLane, ClosedIsOff, NetTyped,
       SinkTyped
  <2>6. Follows'
    <3> SUFFICES ASSUME sink'.active
                 PROVE  /\ \E t \in Socket : conn'[t] \in {"open", "closing"}
                        /\ ~Muddled' =>
                             /\ worker'.off = sink'.off
                             /\ sink'.centre = hub' \/ StreamComes(sock)'
                             /\ \/ dial' = sink'.centre + sink'.off
                                \/ asked'[sock'] # None \/ AnswerComes(sock)'
      BY DEF Follows
    <3>1. Muddled' = Muddled /\ (~Muddled => sock = s)
      BY <2>0 DEF Muddled
    <3>2. sock = s => /\ StreamComes(sock)' = StreamComes(s)'
                      /\ AnswerComes(sock)' = AnswerComes(s)'
      BY <2>0 DEF StreamComes, AnswerComes
    <3> QED
      BY <1>0, <2>0, <2>9, <2>10, <3>1, <3>2 DEF Follows
  <2> QED
    BY <2>1, <2>2, <2>3, <2>4, <2>5, <2>6 DEF Whole
<1>11. ASSUME NEW s \in Socket, OnStream(s) PROVE Whole'
  <2>0. /\ Receive(s, "stream") /\ conn[s] = "open"
        /\ mode' = mode /\ sock' = sock /\ playing' = playing
        /\ conn' = conn /\ asked' = asked /\ hub' = hub
    BY <1>11 DEF OnStream, Receive
  <2> DEFINE h == Head(wire[s])
  <2>9. /\ Wires' /\ NewestComes' /\ h \in FrameType /\ h.kind = "stream"
        /\ \A t \in Socket \ {s} : wire'[t] = wire[t]
        /\ StreamComes(s) => StreamComes(s)' \/ "stream" = "stream"
        /\ AnswerComes(s) => AnswerComes(s)' \/ "stream" # "hello"
        /\ "stream" = "stream" => StreamComes(s)' \/ h.hz = hub
    BY <1>0, <2>0, ReceiveFacts
  <2>10. /\ sink' = [active |-> TRUE, centre |-> h.hz, vfo |-> h.hz, off |-> 0]
         /\ worker' = [on |-> TRUE, off |-> 0, lane |-> "wsiq"]
         /\ dial' = h.hz
         /\ \/ /\ ctl' = h.ctl
               /\ buttons' = IF mode = "wsiq" THEN [buttons EXCEPT !.readout = h.ctl]
                                              ELSE buttons
            \/ UNCHANGED <<ctl, buttons>>
    BY <1>11 DEF OnStream, Tunable
  <2>11. h.ctl \in BOOLEAN /\ h.hz \in Freq
    BY <2>9 DEF FrameType
  <2> HIDE DEF h
  <2>1. PageTyped'
    BY <1>0, <2>0, <2>10, <2>11 DEF PageTyped
  <2>2. SinkTyped'
    BY <1>0, <2>10, <2>11, OffsetFacts DEF SinkTyped
  <2>3. NetTyped'
    BY <1>0, <1>11 DEF OnStream, Receive, Tunable, NetTyped, PageTyped
  <2>4. Wires'
    BY <2>9
  <2>5. NewestComes'
    BY <2>9
  <2>6. KnownInLane' /\ ClosedIsOff'
    BY <1>0, <1>11 DEF OnStream, Receive, Tunable, KnownInLane, ClosedIsOff, NetTyped,
       SinkTyped
  <2>7. Follows'
    <3> SUFFICES ASSUME sink'.active
                 PROVE  /\ \E t \in Socket : conn'[t] \in {"open", "closing"}
                        /\ ~Muddled' =>
                             /\ worker'.off = sink'.off
                             /\ sink'.centre = hub' \/ StreamComes(sock)'
                             /\ \/ dial' = sink'.centre + sink'.off
                                \/ asked'[sock'] # None \/ AnswerComes(sock)'
      BY DEF Follows
    <3>1. Muddled' = Muddled /\ (~Muddled => sock = s)
      BY <2>0 DEF Muddled
    <3>2. sock = s => /\ StreamComes(sock)' = StreamComes(s)'
                      /\ AnswerComes(sock)' = AnswerComes(s)'
      BY <2>0 DEF StreamComes, AnswerComes
    <3>3. /\ worker'.off = sink'.off /\ sink'.centre = h.hz /\ sink'.off = 0
          /\ h.hz + 0 = h.hz
      BY <1>0, <2>10, <2>11
    <3> QED
      BY <2>0, <2>9, <2>10, <3>1, <3>2, <3>3
  <2> QED
    BY <2>1, <2>2, <2>3, <2>4, <2>5, <2>6, <2>7 DEF Whole
<1>12. ASSUME NEW s \in Socket, OnMeta(s) PROVE Whole'
  <2>0. /\ Receive(s, "meta") /\ conn[s] = "open"
        /\ mode' = mode /\ sock' = sock /\ playing' = playing
        /\ conn' = conn /\ asked' = asked /\ hub' = hub
    BY <1>12 DEF OnMeta, Receive
  <2> DEFINE h == Head(wire[s])
  <2>9. /\ Wires' /\ NewestComes' /\ h \in FrameType /\ h.kind = "meta"
        /\ \A t \in Socket \ {s} : wire'[t] = wire[t]
        /\ StreamComes(s) => StreamComes(s)' \/ "meta" = "stream"
        /\ AnswerComes(s) => AnswerComes(s)' \/ "meta" # "hello"
        /\ "meta" = "stream" => StreamComes(s)' \/ h.hz = hub
    BY <1>0, <2>0, ReceiveFacts
  <2>10. dial' = h.hz /\ SetVfo(h.hz) /\ UNCHANGED <<ctl, buttons>>
    BY <1>12 DEF OnMeta
  <2>11. h.hz \in Freq
    BY <2>9 DEF FrameType
  <2> HIDE DEF h
  <2>12. /\ SinkTyped' /\ sink'.active = sink.active /\ sink'.centre = sink.centre
         /\ sink.active => sink'.off = h.hz - sink.centre
         /\ worker.off = sink.off => worker'.off = sink'.off
    BY <1>0, <2>10, <2>11, SetVfoFacts
  <2>1. PageTyped'
    BY <1>0, <2>0, <2>10, <2>11 DEF PageTyped
  <2>2. SinkTyped'
    BY <2>12
  <2>3. NetTyped'
    BY <1>0, <1>12 DEF OnMeta, Receive, SetVfo, NetTyped, PageTyped
  <2>4. Wires'
    BY <2>9
  <2>5. NewestComes'
    BY <2>9
  <2>6. KnownInLane' /\ ClosedIsOff'
    BY <1>0, <1>12 DEF OnMeta, Receive, SetVfo, KnownInLane, ClosedIsOff, NetTyped,
       SinkTyped
  <2>7. Follows'
    <3> SUFFICES ASSUME sink'.active
                 PROVE  /\ \E t \in Socket : conn'[t] \in {"open", "closing"}
                        /\ ~Muddled' =>
                             /\ worker'.off = sink'.off
                             /\ sink'.centre = hub' \/ StreamComes(sock)'
                             /\ \/ dial' = sink'.centre + sink'.off
                                \/ asked'[sock'] # None \/ AnswerComes(sock)'
      BY DEF Follows
    <3>1. Muddled' = Muddled /\ (~Muddled => sock = s)
      BY <2>0 DEF Muddled
    <3>2. sock = s => /\ StreamComes(sock)' = StreamComes(s)'
                      /\ AnswerComes(sock)' = AnswerComes(s)'
      BY <2>0 DEF StreamComes, AnswerComes
    <3>3. dial' = sink'.centre + sink'.off
      <4>1. sink.active /\ sink.centre \in Nat /\ h.hz \in Nat
        BY <1>0, <2>11, <2>12 DEF SinkTyped
      <4> QED
        BY <2>10, <2>12, <4>1
    <3> QED
      BY <1>0, <2>0, <2>9, <2>12, <3>1, <3>2, <3>3 DEF Follows
  <2> QED
    BY <2>1, <2>2, <2>3, <2>4, <2>5, <2>6, <2>7 DEF Whole
<1>13. ASSUME NEW s \in Socket, OnClose(s) PROVE Whole'
  <2>0. /\ conn' = [conn EXCEPT ![s] = "gone"] /\ wire' = [wire EXCEPT ![s] = <<>>]
        /\ conn[s] \in {"open", "connecting", "closing"}
        /\ sock' = None /\ asked' = asked /\ hub' = hub
    BY <1>13 DEF OnClose, Teardown, Forget
  <2>9. /\ conn'[s] = "gone" /\ wire'[s] = <<>>
        /\ \A t \in Socket \ {s} : conn'[t] = conn[t] /\ wire'[t] = wire[t]
    BY <1>0, <2>0 DEF NetTyped, Wires
  <2>1. PageTyped' /\ SinkTyped'
    BY <1>0, <1>13 DEF OnClose, Teardown, Forget, Spend, PageTyped, SinkTyped
  <2>2. NetTyped'
    BY <1>0, <2>0, <2>9 DEF NetTyped
  <2>3. Wires'
    BY <1>0, <1>13 DEF OnClose, Teardown, Forget, Spend, Wires
  <2>4. NewestComes'
    <3> SUFFICES ASSUME NEW t \in Socket, conn'[t] = "open", NEW i \in DOMAIN wire'[t],
                        wire'[t][i].kind = "stream", wire'[t][i].hz # hub
                 PROVE  \E j \in DOMAIN wire'[t] :
                            i < j /\ wire'[t][j].kind = "stream" /\ wire'[t][j].hz = hub
      BY <2>0 DEF NewestComes
    <3>1. t # s /\ conn[t] = "open" /\ wire'[t] = wire[t]
      BY <2>9
    <3> QED
      BY <1>0, <3>1 DEF NewestComes
  <2>5. KnownInLane' /\ ClosedIsOff'
    BY <1>0, <1>13 DEF OnClose, Teardown, Forget, Spend, KnownInLane, ClosedIsOff,
       NetTyped, SinkTyped
  <2>6. Follows'
    BY <1>0, <1>13 DEF OnClose, Teardown, Forget, Spend, Follows, Muddled, StreamComes,
       AnswerComes, PageTyped, SinkTyped, NetTyped, KnownInLane
  <2> QED
    BY <2>1, <2>2, <2>3, <2>4, <2>5, <2>6 DEF Whole
<1>14. ASSUME NEW s \in Socket, HelperTune(s) PROVE Whole'
  <2>0. /\ mode' = mode /\ sock' = sock /\ conn' = conn /\ sink' = sink
        /\ worker' = worker /\ dial' = dial
        /\ asked' = [asked EXCEPT ![s] = None] /\ asked[s] \in Freq
        /\ \/ Announce(asked[s])
           \/ /\ wire' = [wire EXCEPT ![s] = IF conn[s] = "open"
                                             THEN Append(@, Frame("meta", hub, TRUE)) ELSE @]
              /\ hub' = hub
    BY <1>0, <1>14 DEF HelperTune, NetTyped
  <2>9. /\ Wires' /\ NewestComes' /\ hub' \in Freq
        /\ \A t \in Socket : conn[t] # "open" => wire'[t] = wire[t]
        /\ \/ \A t \in Socket : conn[t] = "open" => StreamComes(t)' /\ AnswerComes(t)'
           \/ /\ hub' = hub /\ (StreamComes(s) => StreamComes(s)')
              /\ conn[s] = "open" => AnswerComes(s)'
              /\ \A t \in Socket \ {s} : wire'[t] = wire[t]
    <3>1. CASE Announce(asked[s])
      <4>1. hub' = asked[s]
        BY <3>1 DEF Announce
      <4> QED
        BY <1>0, <2>0, <3>1, <4>1, AnnounceFacts
    <3>2. CASE /\ wire' = [wire EXCEPT ![s] = IF conn[s] = "open"
                                              THEN Append(@, Frame("meta", hub, TRUE)) ELSE @]
               /\ hub' = hub
      <4>1. hub \in Freq
        BY <1>0 DEF NetTyped
      <4> QED
        BY <1>0, <2>0, <3>2, <4>1, RefuseFacts
    <3> QED
      BY <2>0, <3>1, <3>2
  <2>1. PageTyped' /\ SinkTyped'
    BY <1>0, <1>14 DEF HelperTune, Announce, Frame, PageTyped, SinkTyped
  <2>2. NetTyped'
    BY <1>0, <2>0, <2>9 DEF NetTyped
  <2>3. Wires'
    BY <2>9
  <2>4. NewestComes'
    BY <2>9
  <2>5. KnownInLane' /\ ClosedIsOff'
    BY <1>0, <1>14 DEF HelperTune, Announce, Frame, KnownInLane, ClosedIsOff, NetTyped,
       SinkTyped
  <2>6. Follows'
    <3> SUFFICES ASSUME sink.active
                 PROVE  /\ \E t \in Socket : conn[t] \in {"open", "closing"}
                        /\ ~Muddled =>
                             /\ worker.off = sink.off
                             /\ sink.centre = hub' \/ StreamComes(sock)'
                             /\ \/ dial = sink.centre + sink.off
                                \/ asked'[sock] # None \/ AnswerComes(sock)'
      BY <2>0 DEF Follows, Muddled
    <3>1. ~Muddled => sock \in Socket /\ conn[sock] = "open"
      BY <1>0 DEF Follows, Muddled
    <3>2. \A t \in Socket : sock = t => /\ StreamComes(sock)' = StreamComes(t)'
                                         /\ AnswerComes(sock)' = AnswerComes(t)'
      BY <2>0 DEF StreamComes, AnswerComes
    <3>3. CASE \A t \in Socket : conn[t] = "open" => StreamComes(t)' /\ AnswerComes(t)'
      BY <1>0, <3>1, <3>2, <3>3 DEF Follows
    <3>4. CASE /\ hub' = hub /\ (StreamComes(s) => StreamComes(s)')
               /\ conn[s] = "open" => AnswerComes(s)'
               /\ \A t \in Socket \ {s} : wire'[t] = wire[t]
      <4>1. CASE s = sock
        BY <1>0, <3>1, <3>2, <3>4, <4>1 DEF Follows
      <4>2. CASE s # sock
        <5>1. ~Muddled => /\ StreamComes(sock)' = StreamComes(sock)
                          /\ AnswerComes(sock)' = AnswerComes(sock)
                          /\ asked'[sock] = asked[sock]
          BY <1>0, <2>0, <3>1, <3>4, <4>2 DEF StreamComes, AnswerComes, NetTyped
        <5> QED
          BY <1>0, <3>4, <5>1 DEF Follows
      <4> QED
        BY <4>1, <4>2
    <3> QED
      BY <2>9, <3>3, <3>4
  <2> QED
    BY <2>1, <2>2, <2>3, <2>4, <2>5, <2>6 DEF Whole
<1>15. ASSUME NEW f \in Freq, HelperMoves(f) PROVE Whole'
  <2>0. /\ Announce(f) /\ conn' = conn
        /\ mode' = mode /\ sock' = sock /\ sink' = sink
        /\ worker' = worker /\ dial' = dial /\ asked' = asked
    BY <1>15 DEF HelperMoves
  <2>9. /\ Wires' /\ NewestComes'
        /\ \A t \in Socket : conn[t] = "open" => StreamComes(t)' /\ AnswerComes(t)'
    BY <1>0, <2>0, AnnounceFacts
  <2>1. PageTyped' /\ SinkTyped' /\ NetTyped'
    BY <1>0, <1>15 DEF HelperMoves, Announce, Frame, Spend, PageTyped, SinkTyped, NetTyped
  <2>2. Wires'
    BY <2>9
  <2>3. NewestComes'
    BY <2>9
  <2>4. KnownInLane' /\ ClosedIsOff'
    BY <1>0, <1>15 DEF HelperMoves, Announce, Frame, Spend, KnownInLane, ClosedIsOff,
       NetTyped, SinkTyped
  <2>5. Follows'
    <3> SUFFICES ASSUME sink.active
                 PROVE  /\ \E t \in Socket : conn[t] \in {"open", "closing"}
                        /\ ~Muddled =>
                             /\ worker.off = sink.off
                             /\ sink.centre = hub' \/ StreamComes(sock)'
                             /\ \/ dial = sink.centre + sink.off
                                \/ asked'[sock] # None \/ AnswerComes(sock)'
      BY <2>0 DEF Follows, Muddled
    <3>1. ~Muddled => sock \in Socket /\ conn[sock] = "open"
      BY <1>0 DEF Follows, Muddled
    <3>2. \A t \in Socket : sock = t => /\ StreamComes(sock)' = StreamComes(t)'
                                         /\ AnswerComes(sock)' = AnswerComes(t)'
      BY <2>0 DEF StreamComes, AnswerComes
    <3> QED
      BY <1>0, <2>9, <3>1, <3>2 DEF Follows
  <2> QED
    BY <2>1, <2>2, <2>3, <2>4, <2>5 DEF Whole
<1>16. ASSUME UNCHANGED vars PROVE Whole'
  <2>1. PageTyped' /\ SinkTyped' /\ NetTyped'
    BY <1>0, <1>16 DEF vars, pageVars, netVars, PageTyped, SinkTyped, NetTyped
  <2>2. Wires' /\ NewestComes'
    BY <1>0, <1>16, NewestKept DEF vars, pageVars, netVars, Wires, NetTyped
  <2>3. KnownInLane' /\ ClosedIsOff'
    BY <1>0, <1>16 DEF vars, pageVars, netVars, KnownInLane, ClosedIsOff, NetTyped,
       SinkTyped
  <2>4. Follows'
    BY <1>0, <1>16 DEF vars, pageVars, netVars, Follows, Muddled, StreamComes,
       AnswerComes, PageTyped, SinkTyped, NetTyped, KnownInLane
  <2> QED
    BY <2>1, <2>2, <2>3, <2>4 DEF Whole
<1>17. Whole'
  BY <1>1, <1>2, <1>3, <1>4, <1>5, <1>6, <1>7, <1>8, <1>9, <1>10, <1>11, <1>12, <1>13,
     <1>14, <1>15, <1>16 DEF Next, User, Event, Helper
<1> QED
  BY <1>17 DEF Whole, Inv, TypeOK, PageTyped, SinkTyped, NetTyped

(* The invariant holds in every reachable state.                            *)
LEMMA InvAlways == ASSUME ConstantsOK PROVE Spec => []Inv
  BY InvInit, InvStep, PTL DEF Spec

------------------------------------------------------------------------------
(* The theorems.                                                            *)

(* Type correctness, with the frames only an open socket has.               *)
THEOREM TypeCorrect == ASSUME ConstantsOK PROVE Spec => []TypeOK
<1>1. Inv => TypeOK
  BY DEF Inv
<1> QED
  BY <1>1, InvAlways, PTL

(* When the last connection of the lane is gone, however late the close     *)
(* events of its sockets were and whatever ran in between, decoding is      *)
(* stopped and the user can connect again (niqTeardown).                    *)
THEOREM ClosedMeansOff == ASSUME ConstantsOK PROVE Spec => []ClosedIsOff
<1>1. Inv => ClosedIsOff
  BY DEF Inv
<1> QED
  BY <1>1, InvAlways, PTL

(* Once its only connection is quiet, an active lane reads the frequency    *)
(* that the worker decodes: helper's centre plus decode offset, after any   *)
(* tunes, refusals, retunes by others, reconnects and visits (niqTuneTo,    *)
(* niqOnCfg, createIq16Sink).                                               *)
THEOREM ReadoutIsHeard == ASSUME ConstantsOK PROVE Spec => []DialHeard
<1>1. Inv => DialHeard
  <2> SUFFICES ASSUME Inv, AtRest, sink.active PROVE dial = hub + worker.off
    BY DEF DialHeard
  <2>1. ~Muddled
    BY DEF AtRest, Muddled
  <2>2. sock \in Socket /\ wire[sock] = <<>> /\ asked[sock] = None
    BY DEF Inv, Follows, AtRest
  <2>3. ~StreamComes(sock) /\ ~AnswerComes(sock)
    BY <2>2 DEF StreamComes, AnswerComes
  <2> QED
    BY <2>1, <2>2, <2>3 DEF Inv, Follows
<1> QED
  BY <1>1, InvAlways, PTL

------------------------------------------------------------------------------
(* The frequency overlay.                                                   *)

CONSTANTS Station, Queue

VARIABLES readings, gasked, radio, gused

(* The overlay of the same page, with sockets of its own.                   *)
O == INSTANCE PageMeta
    WITH wire <- readings, asked <- gasked, dial <- radio, used <- gused

(* What it says, with the types that its steps need.                        *)
Owned ==
    /\ gconn \in [Socket -> {"unused", "connecting", "open", "closing", "gone"}]
    /\ twice \in BOOLEAN
    /\ OverlayOwned

(* Every step of the overlay keeps it.                                      *)
LEMMA OwnedStep == ASSUME O!ConstantsOK PROVE Owned /\ [O!Next]_(O!vars) => Owned'
<1> SUFFICES ASSUME Owned, [O!Next]_(O!vars) PROVE Owned'
  OBVIOUS
<1>0. Nothing \notin Socket
  BY DEF O!ConstantsOK
<1> USE DEF Owned, OverlayOwned, Live, O!Live, O!pageVars
<1>1. ASSUME NEW s \in Socket, O!ClickConnect(s) PROVE Owned'
  <2>1. /\ gws' = s /\ gconn' = [gconn EXCEPT ![s] = "connecting"]
        /\ twice' = (twice \/ Live # {})
    BY <1>1 DEF O!ClickConnect
  <2>2. gconn' \in [Socket -> {"unused", "connecting", "open", "closing", "gone"}]
        /\ gconn'[s] = "connecting" /\ \A t \in Socket \ {s} : gconn'[t] = gconn[t]
    BY <2>1
  <2>3. s \in Live' /\ \A t \in Live' : t = s \/ t \in Live
    BY <2>2
  <2> QED
    BY <1>0, <2>1, <2>2, <2>3
<1>2. ASSUME NEW s \in Socket, O!Opened(s) PROVE Owned'
  BY <1>0, <1>2 DEF O!Opened
<1>3. ASSUME NEW s \in Socket, O!OnMessage(s) PROVE Owned'
  <2>1. gconn[s] = "open" /\ gconn' = gconn /\ gws' = gws /\ twice' = twice
    BY <1>3 DEF O!OnMessage
  <2> QED
    BY <1>0, <2>1
<1>4. ASSUME NEW s \in Socket, O!OnClose(s) PROVE Owned'
  BY <1>0, <1>4 DEF O!OnClose, O!Teardown
<1>5. ASSUME O!ClickDisconnect PROVE Owned'
  BY <1>0, <1>5 DEF O!ClickDisconnect
<1>6. ASSUME NEW f \in Freq, O!TuneTo(f) PROVE Owned'
  BY <1>0, <1>6 DEF O!TuneTo
<1>7. ASSUME NEW f \in Freq, O!Turned(f) PROVE Owned'
  BY <1>0, <1>7 DEF O!Turned
<1>8. ASSUME O!Settle PROVE Owned'
  BY <1>0, <1>8 DEF O!Settle
<1>9. ASSUME O!Told PROVE Owned'
  BY <1>0, <1>9 DEF O!Told
<1>10. ASSUME O!Tuned PROVE Owned'
  BY <1>0, <1>10 DEF O!Tuned
<1>11. ASSUME UNCHANGED O!vars PROVE Owned'
  BY <1>0, <1>11 DEF O!vars
<1> QED
  BY <1>1, <1>2, <1>3, <1>4, <1>5, <1>6, <1>7, <1>8, <1>9, <1>10, <1>11 DEF O!Next

(* The overlay without a connection has no socket, no station and no        *)
(* candidate, and can be connected; with one connection at a time it never  *)
(* forgets the one it has (gConnect, gTeardown, gSetMeta).                  *)
THEOREM OverlayOwnsSession == ASSUME O!ConstantsOK PROVE O!Spec => []OverlayOwned
<1>1. O!Init => Owned
  BY DEF O!Init, Owned, OverlayOwned, Live
<1>2. Owned => OverlayOwned
  BY DEF Owned
<1> QED
  BY <1>1, <1>2, OwnedStep, PTL DEF O!Spec

(* A hello has a flag, a reading has a frequency.                           *)
LEMMA FrameParts ==
    /\ \A c \in O!Flag : O!Hello(c) \in O!Frame
    /\ \A f \in Freq : O!Reading(f) \in O!Frame
    /\ \A m \in O!Frame : m.kind = "reading" => m.hz \in Freq
<1>1. \A c \in O!Flag : O!Hello(c) \in O!Frame /\ O!Hello(c).kind = "hello"
  BY DEF O!Frame, O!Hello
<1>2. \A f \in Freq : O!Reading(f) \in O!Frame /\ O!Reading(f).hz = f
  BY DEF O!Frame, O!Reading
<1>3. ASSUME NEW m \in O!Frame, m.kind = "reading" PROVE m.hz \in Freq
  <2>1. CASE \E c \in O!Flag : m = O!Hello(c)
    BY <1>1, <1>3, <2>1
  <2>2. CASE \E f \in Freq : m = O!Reading(f)
    BY <1>2, <2>2
  <2> QED
    BY <1>3, <2>1, <2>2 DEF O!Frame
<1> QED
  BY <1>1, <1>2, <1>3

(* Every step of the overlay keeps the types.                               *)
LEMMA OverlayStep ==
    ASSUME O!ConstantsOK, O!TypeOK, [O!Next]_(O!vars)
    PROVE  O!TypeOK'
<1>0. Nothing \notin Socket \cup Freq /\ Queue \in Nat \ {0}
  BY DEF O!ConstantsOK
<1>1. ASSUME NEW f \in Freq, O!SetMeta(f)
      PROVE  /\ vfo' \in Freq \cup {Nothing}
             /\ pend' # Nothing => pend' \in [hz : Freq, held : BOOLEAN]
  <2>3. \/ vfo' = vfo /\ pend' = Nothing
        \/ vfo' = vfo /\ pend' = [hz |-> f, held |-> FALSE]
        \/ vfo' = f /\ pend' = Nothing
        \/ vfo' = vfo /\ pend' = pend
    BY <1>1 DEF O!SetMeta
  <2>4. [hz |-> f, held |-> FALSE] \in [hz : Freq, held : BOOLEAN]
    OBVIOUS
  <2>5. /\ vfo \in Freq \cup {Nothing}
        /\ pend # Nothing => pend \in [hz : Freq, held : BOOLEAN]
    BY DEF O!TypeOK
  <2>6. vfo' \in Freq \cup {Nothing}
    BY <2>3, <2>5
  <2>7. pend' \in {Nothing, [hz |-> f, held |-> FALSE], pend}
    BY <2>3
  <2> QED
    BY <2>4, <2>5, <2>6, <2>7
<1> USE DEF O!TypeOK, O!pageVars
<1>2. ASSUME NEW s \in Socket, O!ClickConnect(s) PROVE O!TypeOK'
  <2>1. twice' \in BOOLEAN
    BY <1>2 DEF O!ClickConnect
  <2> QED
    BY <1>2, <2>1 DEF O!ClickConnect
<1>3. ASSUME NEW s \in Socket, O!Opened(s) PROVE O!TypeOK'
  <2> DEFINE two(c) == <<O!Hello(c), O!Reading(radio)>>
  <2>1. PICK c \in O!Flag : readings' = [readings EXCEPT ![s] = two(c)]
    BY <1>3 DEF O!Opened
  <2>2. two(c) \in Seq(O!Frame) /\ Len(two(c)) <= Queue + 1
    BY <1>0, FrameParts
  <2> HIDE DEF two
  <2>3. readings' \in [Socket -> Seq(O!Frame)] /\ \A t \in Socket : Len(readings'[t]) <= Queue + 1
    BY <2>1, <2>2
  <2> QED
    BY <1>3, <2>3 DEF O!Opened
<1>4. ASSUME NEW s \in Socket, O!OnMessage(s) PROVE O!TypeOK'
  <2>1. /\ readings[s] # <<>> /\ readings' = [readings EXCEPT ![s] = Tail(@)]
        /\ UNCHANGED <<gws, gbuttons, gconn, gasked, radio, twice, gused>>
    BY <1>4 DEF O!OnMessage
  <2>2. /\ Tail(readings[s]) \in Seq(O!Frame) /\ Head(readings[s]) \in O!Frame
        /\ Len(Tail(readings[s])) <= Queue + 1
    BY <1>0, <2>1
  <2>3. readings' \in [Socket -> Seq(O!Frame)] /\ \A t \in Socket : Len(readings'[t]) <= Queue + 1
    BY <2>1, <2>2
  <2>4. /\ gctl' \in BOOLEAN /\ vfo' \in Freq \cup {Nothing}
        /\ pend' # Nothing => pend' \in [hz : Freq, held : BOOLEAN]
    <3>1. CASE Head(readings[s]).kind = "hello"
      BY <1>4, <3>1 DEF O!OnMessage
    <3>2. CASE Head(readings[s]).kind = "reading"
      <4>1. Head(readings[s]).hz \in Freq
        BY <2>2, <3>2, FrameParts
      <4>2. O!SetMeta(Head(readings[s]).hz) /\ gctl' = gctl
        BY <1>4, <3>2 DEF O!OnMessage
      <4> QED
        BY <1>1, <4>1, <4>2
    <3> QED
      BY <1>4, <3>1, <3>2 DEF O!OnMessage
  <2> QED
    BY <2>1, <2>3, <2>4
<1>5. ASSUME NEW s \in Socket, O!OnClose(s) PROVE O!TypeOK'
  <2>1. readings' \in [Socket -> Seq(O!Frame)] /\ \A t \in Socket : Len(readings'[t]) <= Queue + 1
    BY <1>0, <1>5 DEF O!OnClose
  <2> QED
    BY <1>5, <2>1 DEF O!OnClose, O!Teardown
<1>6. ASSUME O!ClickDisconnect PROVE O!TypeOK'
  BY <1>0, <1>6 DEF O!ClickDisconnect
<1>7. ASSUME NEW f \in Freq, O!TuneTo(f) PROVE O!TypeOK'
  BY <1>7 DEF O!TuneTo
<1>8. ASSUME NEW f \in Freq, O!Turned(f) PROVE O!TypeOK'
  BY <1>8 DEF O!Turned
<1>9. ASSUME O!Settle PROVE O!TypeOK'
  BY <1>9 DEF O!Settle
<1>10. ASSUME O!Told PROVE O!TypeOK'
  <2>1. /\ \A t \in Socket : Len(readings[t]) < Queue
        /\ readings' = [t \in Socket |->
                          IF gconn[t] = "open" THEN Append(readings[t], O!Reading(radio))
                          ELSE readings[t]]
        /\ UNCHANGED <<gws, gctl, vfo, pend, gbuttons, gconn, gasked, radio, twice, gused>>
    BY <1>10 DEF O!Told
  <2>2. ASSUME NEW t \in Socket
        PROVE  /\ Append(readings[t], O!Reading(radio)) \in Seq(O!Frame)
               /\ Len(Append(readings[t], O!Reading(radio))) <= Queue + 1
               /\ Len(readings[t]) <= Queue + 1
    BY <1>0, <2>1, FrameParts
  <2>3. readings' \in [Socket -> Seq(O!Frame)] /\ \A t \in Socket : Len(readings'[t]) <= Queue + 1
    BY <2>1, <2>2
  <2> QED
    BY <2>1, <2>3
<1>11. ASSUME O!Tuned PROVE O!TypeOK'
  BY <1>11 DEF O!Tuned
<1>12. ASSUME UNCHANGED O!vars PROVE O!TypeOK'
  BY <1>12 DEF O!vars
<1> QED
  BY <1>2, <1>3, <1>4, <1>5, <1>6, <1>7, <1>8, <1>9, <1>10, <1>11, <1>12 DEF O!Next

(* What the overlay keeps of its sockets, its station and its candidate has *)
(* its type, and no frame that the helper sends spoils it (gHandleJSON,     *)
(* gSetMeta).                                                               *)
THEOREM OverlayTyped == ASSUME O!ConstantsOK PROVE O!Spec => []O!TypeOK
<1>1. O!Init => O!TypeOK
  <2> SUFFICES ASSUME O!Init PROVE O!TypeOK
    OBVIOUS
  <2>1. Queue \in Nat
    BY DEF O!ConstantsOK
  <2>2. readings \in [Socket -> Seq(O!Frame)] /\ \A t \in Socket : Len(readings[t]) <= Queue + 1
    BY <2>1 DEF O!Init
  <2> QED
    BY <2>2 DEF O!Init, O!TypeOK
<1> QED
  BY <1>1, OverlayStep, PTL DEF O!Spec

------------------------------------------------------------------------------
(* The recorder.                                                            *)
CONSTANTS Channels, Stations, Cap, Sizes, MinTake, RecMax, Remembered, SettleCovers, MaxLag,
          Plan
VARIABLES open, tunes, rig, echo, curVfo, pi, audioOn, silent, preOn, ring, rec, scan, grants,
          allowed, wanted, left

R == INSTANCE Recorder
    WITH Station <- Stations, asked <- tunes, radio <- rig, dial <- curVfo

------------------------------------------------------------------------------
(* The recorder: types.                                                     *)

Buffers  == [0..(Cap - 1) -> Nat]
RingType == [buf : Buffers \cup {None}, w : 0..(Cap - 1), len : 0..Cap, hz : Freq \cup {None},
             total : Nat]
RecType  == [on : BOOLEAN, held : Seq(Nat), hz : Freq \cup {None}, began : Freq \cup {None}]
ScanType == [run : BOOLEAN, stop : BOOLEAN, pc : {"idle", "next", "settle", "dwell", "hold"},
             todo : Seq(Freq), home : Freq \cup {None}, stamp : Freq \cup {None},
             alone : BOOLEAN, armed : BOOLEAN, lapsed : BOOLEAN, mark : Nat,
             seen : SUBSET {Stations[f] : f \in Freq}]

RadioTyped ==
    /\ open \in BOOLEAN /\ tunes \in Seq(Freq) /\ echo \in Seq(Freq)
    /\ rig \in [hz : Freq, old : Freq, lag : Nat]

AudioTyped ==
    /\ audioOn \in BOOLEAN /\ preOn \in BOOLEAN /\ wanted \in BOOLEAN
    /\ heard \in Seq(Freq \cup {None})
    /\ ring \in RingType /\ rec \in RecType

ScanTyped ==
    /\ curVfo \in Freq /\ pi \in {Stations[f] : f \in Freq} \cup {None} /\ allowed \in BOOLEAN
    /\ scan \in ScanType

(* Who has the stream and the ring: a recording or a scan, never both.      *)
Shared ==
    /\ (ring.buf = None) = ~R!Live(preOn, scan.armed)
    /\ scan.armed => scan.run
    /\ "scan" \in silent => scan.run
    /\ "rec" \in silent => rec.on
    /\ audioOn => wanted \/ silent # {}
    /\ ~(rec.on /\ scan.run)
    /\ scan.run = (scan.pc # "idle")
    /\ scan.run => scan.home \in Freq
    /\ scan.run /\ ~scan.stop => open

(* An index goes round the end.                                             *)
Round(x) == x % Cap

(* What ring r holds is the last that was heard of N samples.               *)
Newest(r, N) ==
    /\ r.len <= N
    /\ \A k \in 1..r.len : r.buf[Round(r.w - k + Cap)] = N - k + 1

(* Only a stream that is on fills the ring.                                 *)
RingHolds == ring.len > 0 => audioOn /\ ring.buf # None /\ Newest(ring, Len(heard))

(* A recording grows with the stream.                                       *)
RecHolds ==
    rec.on => /\ R!Unbroken(rec.held)
              /\ audioOn /\ rec.held # <<>> => rec.held[Len(rec.held)] = Len(heard)

(* The scan is alone: what SDRconnect has still to carry out ends on the    *)
(* channel, and once the radio has settled it is there, and so is what the  *)
(* ring holds of the dwell.                                                 *)
GoesThere ==
    scan.pc = "settle" /\ scan.alone /\ ~scan.stop =>
        /\ tunes # <<>> => tunes[Len(tunes)] = scan.stamp
        /\ tunes = <<>> => rig.hz = scan.stamp

Dwells == (scan.pc = "dwell" /\ ~scan.stop) \/ scan.pc = "hold"

IsThere ==
    SettleCovers /\ Dwells /\ scan.alone =>
        /\ tunes = <<>> /\ rig.hz = scan.stamp /\ rig.lag = 0
        /\ scan.armed =>
             \A k \in 1..ring.len :
                 k <= ring.total - scan.mark => heard[Len(heard) - k + 1] = scan.stamp

Written == FilesUnbroken /\ (SettleCovers => ClipsNamed)

RecorderInv ==
    /\ RadioTyped /\ AudioTyped /\ ScanTyped
    /\ Shared
    /\ RingHolds /\ RecHolds
    /\ GoesThere /\ IsThere
    /\ Written

------------------------------------------------------------------------------
(* The recorder: the ring.                                                  *)

RingOK ==
    /\ Cap \in Nat \ {0} /\ MinTake \in Nat \ {0} /\ RecMax \in Nat \ {0} /\ MaxLag \in Nat
    /\ Sizes \subseteq 1..Cap /\ None \notin Freq \cup Buffers
    /\ Channels \in Seq(Freq) /\ SettleCovers \in BOOLEAN /\ Remembered \in BOOLEAN

LEMMA RingConstants == ASSUME R!ConstantsOK PROVE RingOK
  BY DEF R!ConstantsOK, RingOK, Buffers

(* Once is enough here.                                                     *)
LEMMA Rounds ==
    ASSUME RingOK, NEW x \in 0..(2 * Cap - 1)
    PROVE  Round(x) = (IF x < Cap THEN x ELSE x - Cap) /\ Round(x) \in 0..(Cap - 1)
<1>0. Cap \in Nat \ {0}
  BY DEF RingOK
<1>1. CASE x < Cap
  BY <1>0, <1>1 DEF Round
<1>2. CASE x >= Cap
  <2>1. x = 1 * Cap + (x - Cap) /\ x - Cap \in 0..(Cap - 1)
    BY <1>0, <1>2
  <2> QED
    BY <1>0, <1>2, <2>1 DEF Round
<1> QED
  BY <1>0, <1>1, <1>2

(* How far slot i is ahead of w.                                            *)
LEMMA SlotAhead ==
    ASSUME RingOK, NEW w \in 0..(Cap - 1), NEW i \in 0..(Cap - 1)
    PROVE  Round(i - w + Cap) \in 0..(Cap - 1)
<1>1. i - w + Cap \in 0..(2 * Cap - 1)
  BY DEF RingOK
<1> QED
  BY <1>1, Rounds, Zenon

(* The slot k behind the new w took sample n - k + 1, or it is the one that *)
(* was k - n behind the old w.                                              *)
LEMMA Turned ==
    ASSUME RingOK, NEW w \in 0..(Cap - 1), NEW n \in 1..Cap, NEW k \in 1..Cap
    PROVE  LET W == Round(w + n)
               i == Round(W - k + Cap)
               a == Round(i - w + Cap)
           IN  /\ W \in 0..(Cap - 1) /\ i \in 0..(Cap - 1)
               /\ k <= n => a = n - k
               /\ k > n => a = Cap - (k - n) /\ i = Round(w - (k - n) + Cap)
<1>0. Cap \in Nat \ {0}
  BY DEF RingOK
<1>1. PICK W : W = Round(w + n)
  OBVIOUS
<1>2. W = (IF w + n < Cap THEN w + n ELSE w + n - Cap) /\ W \in 0..(Cap - 1)
  BY <1>0, <1>1, Rounds
<1>3. PICK i : i = Round(W - k + Cap)
  OBVIOUS
<1>4. i = (IF k <= W THEN W - k ELSE W - k + Cap) /\ i \in 0..(Cap - 1)
  BY <1>0, <1>2, <1>3, Rounds
<1>5. PICK a : a = Round(i - w + Cap)
  OBVIOUS
<1>6. a = (IF i < w THEN i - w + Cap ELSE i - w)
  BY <1>0, <1>4, <1>5, Rounds
<1>7. k <= n => a = n - k
  BY <1>0, <1>2, <1>4, <1>6
<1>8. k > n => a = Cap - (k - n) /\ i = Round(w - (k - n) + Cap)
  <2> SUFFICES ASSUME k > n PROVE a = Cap - (k - n) /\ i = Round(w - (k - n) + Cap)
    OBVIOUS
  <2>1. Round(w - (k - n) + Cap) = (IF k - n <= w THEN w - (k - n) ELSE w - (k - n) + Cap)
    BY <1>0, Rounds
  <2> QED
    BY <1>0, <1>2, <1>4, <1>6, <2>1
<1> QED
  BY <1>1, <1>2, <1>3, <1>4, <1>5, <1>7, <1>8

(* The n newest are n in a row, up to the last that was heard.              *)
LEMMA TakeIs ==
    ASSUME RingOK, NEW r \in RingType, NEW N \in Nat, Newest(r, N), NEW n \in 0..r.len,
           r.buf # None
    PROVE  /\ R!Take(r, n) \in Seq(Nat) /\ Len(R!Take(r, n)) = n
           /\ \A i \in 1..n : R!Take(r, n)[i] = N - n + i
           /\ R!Unbroken(R!Take(r, n))
<1>0. r.w \in 0..(Cap - 1) /\ r.len \in 0..Cap /\ r.buf \in Buffers /\ n \in Nat /\ r.len <= N
      /\ Cap \in Nat
  BY DEF RingType, RingOK, Newest
<1> DEFINE T == [i \in 1..n |-> r.buf[Round(r.w - n + Cap + i - 1)]]
<1>1. ASSUME NEW i \in 1..n PROVE T[i] = N - n + i
  <2>1. n - i + 1 \in 1..r.len /\ r.w - n + Cap + i - 1 = r.w - (n - i + 1) + Cap
    BY <1>0
  <2>2. r.buf[Round(r.w - (n - i + 1) + Cap)] = N - (n - i + 1) + 1
    BY <2>1 DEF Newest
  <2> QED
    BY <1>0, <2>1, <2>2
<1>2. \A i \in 1..n : N - n + i \in Nat
  BY <1>0
<1>3. T \in [1..n -> Nat]
  BY <1>1, <1>2
<1>4. T \in Seq(Nat) /\ Len(T) = n
  <2>1. \A f \in [1..n -> Nat] : f \in Seq(Nat) /\ Len(f) = n
    BY <1>0
  <2> QED
    BY <1>3, <2>1, Zenon
<1>5. R!Take(r, n) = T
  BY Zenon DEF R!Take, Round
<1> HIDE DEF T
<1>6. R!Unbroken(T)
  <2> SUFFICES ASSUME NEW i \in 1..(n - 1) PROVE T[i + 1] = T[i] + 1
    BY <1>4 DEF R!Unbroken
  <2>1. i \in 1..n /\ i + 1 \in 1..n
    BY <1>0
  <2> QED
    BY <1>0, <1>1, <2>1
<1> QED
  BY <1>1, <1>4, <1>5, <1>6

(* The samples after the N-th, in a row; and a buffer that they went into.  *)
Row(s, N) == \A i \in 1..Len(s) : s[i] = N + i

After(r, s) ==
    [i \in 0..(Cap - 1) |-> LET a == Round(i - r.w + Cap)
                            IN  IF a < Len(s) THEN s[a + 1] ELSE r.buf[i]]

LEMMA Overwritten ==
    ASSUME RingOK, NEW r \in RingType, r.buf # None, NEW N \in Nat, Newest(r, N),
           NEW s \in Seq(Nat), Len(s) \in 1..Cap, Row(s, N)
    PROVE  /\ After(r, s) \in Buffers
           /\ \A k \in 1..Cap : k <= r.len + Len(s) =>
                After(r, s)[Round(Round(r.w + Len(s)) - k + Cap)] = (N + Len(s)) - k + 1
<1>0. /\ Cap \in Nat \ {0} /\ r.w \in 0..(Cap - 1) /\ r.len \in 0..Cap /\ r.buf \in Buffers
  BY DEF RingOK, RingType
<1>1. After(r, s) \in Buffers
  <2> SUFFICES ASSUME NEW i \in 0..(Cap - 1), NEW a, a = Round(i - r.w + Cap)
               PROVE  (IF a < Len(s) THEN s[a + 1] ELSE r.buf[i]) \in Nat
    BY DEF Buffers, After
  <2>1. r.buf[i] \in Nat
    BY <1>0 DEF Buffers
  <2>2. a \in 0..(Cap - 1)
    BY <1>0, SlotAhead, Zenon
  <2> QED
    BY <1>0, <2>1, <2>2
<1>2. ASSUME NEW k \in 1..Cap, k <= r.len + Len(s), NEW W, W = Round(r.w + Len(s)),
             NEW i, i = Round(W - k + Cap)
      PROVE  After(r, s)[i] = (N + Len(s)) - k + 1
  <2>2. PICK a : a = Round(i - r.w + Cap)
    OBVIOUS
  <2>3. /\ i \in 0..(Cap - 1)
        /\ k <= Len(s) => a = Len(s) - k
        /\ k > Len(s) => a = Cap - (k - Len(s)) /\ i = Round(r.w - (k - Len(s)) + Cap)
    <3>1. Len(s) \in 1..Cap /\ k \in 1..Cap /\ r.w \in 0..(Cap - 1)
      BY <1>0
    <3> QED
      BY <1>2, <2>2, <3>1, Turned, Zenon
  <2>4. After(r, s)[i] = (IF a < Len(s) THEN s[a + 1] ELSE r.buf[i])
    BY <2>2, <2>3, Zenon DEF After
  <2>5. CASE k <= Len(s)
    <3>1. a = Len(s) - k /\ a < Len(s) /\ a + 1 \in 1..Len(s)
      BY <1>0, <2>3, <2>5
    <3>2. After(r, s)[i] = s[a + 1] /\ s[a + 1] = N + (a + 1)
      BY <2>4, <3>1, Zenon DEF Row
    <3> QED
      BY <1>0, <3>1, <3>2
  <2>6. CASE k > Len(s)
    <3>1. a = Cap - (k - Len(s)) /\ i = Round(r.w - (k - Len(s)) + Cap)
      BY <2>3, <2>6, Zenon
    <3>2. ~(a < Len(s)) /\ k - Len(s) \in 1..r.len
      <4>1. /\ Cap \in Nat /\ k \in Nat /\ Len(s) \in Nat /\ r.len \in Nat
            /\ k <= Cap /\ k > Len(s) /\ k <= r.len + Len(s)
        BY <1>0, <1>2, <2>6
      <4>2. ~(Cap - (k - Len(s)) < Len(s))
        BY <4>1
      <4>3. k - Len(s) \in 1..r.len
        BY <4>1
      <4> QED
        BY <3>1, <4>2, <4>3, Zenon
    <3>3. After(r, s)[i] = r.buf[i] /\ r.buf[i] = N - (k - Len(s)) + 1
      BY <2>4, <3>1, <3>2, Zenon DEF Newest
    <3> QED
      BY <1>0, <3>3
  <2> QED
    BY <1>0, <2>5, <2>6
<1> QED
  BY <1>1, <1>2

(* The samples go into the ring, on top of what it holds.                   *)
LEMMA WriteKeeps ==
    ASSUME RingOK, NEW r \in RingType, r.buf # None, NEW N \in Nat, Newest(r, N),
           NEW s \in Seq(Nat), Len(s) \in 1..Cap, Row(s, N)
    PROVE  /\ R!Write(r, s) \in RingType /\ R!Write(r, s).buf # None
           /\ Newest(R!Write(r, s), N + Len(s))
           /\ R!Write(r, s).total = r.total + Len(s) /\ R!Write(r, s).hz = r.hz
           /\ R!Write(r, s).len = R!Least(Cap, r.len + Len(s))
<1>0. /\ r.w \in 0..(Cap - 1) /\ r.len \in 0..Cap /\ r.buf \in Buffers /\ r.len <= N
      /\ Cap \in Nat \ {0} /\ r.total \in Nat /\ r.hz \in Freq \cup {None} /\ None \notin Buffers
  BY DEF RingType, RingOK, Newest
<1>1. PICK B : B = After(r, s)
  OBVIOUS
<1>2. PICK W : W = Round(r.w + Len(s))
  OBVIOUS
<1>3. PICK L : L = R!Least(Cap, r.len + Len(s))
  OBVIOUS
<1>4. L \in 0..Cap /\ L <= r.len + Len(s)
  <2>1. r.len \in Nat /\ Len(s) \in Nat /\ Cap \in Nat
    BY <1>0
  <2> QED
    BY <1>3, <2>1 DEF R!Least
<1>5. W \in 0..(Cap - 1)
  BY <1>0, <1>2, Rounds
<1>6. /\ B \in Buffers
      /\ \A k \in 1..Cap : k <= r.len + Len(s) => B[Round(W - k + Cap)] = (N + Len(s)) - k + 1
  BY <1>1, <1>2, Overwritten, Zenon
<1>7. PICK q : q = [r EXCEPT !.buf = B, !.w = W, !.len = L, !.total = r.total + Len(s)]
  OBVIOUS
<1>8. R!Write(r, s) = q
  BY <1>1, <1>2, <1>3, <1>7, Zenon DEF R!Write, Round, After
<1>9. q \in RingType /\ q.buf # None /\ q.total = r.total + Len(s) /\ q.hz = r.hz /\ q.len = L
      /\ q.buf = B /\ q.w = W
  <2>1. B \in Buffers /\ r.total + Len(s) \in Nat
    BY <1>0, <1>6
  <2> QED
    BY <1>0, <1>4, <1>5, <1>7, <2>1 DEF RingType
<1>10. Newest(q, N + Len(s))
  <2>1. L <= N + Len(s)
    BY <1>0, <1>4
  <2>2. ASSUME NEW k \in 1..L PROVE B[Round(W - k + Cap)] = (N + Len(s)) - k + 1
    <3>1. k \in 1..Cap /\ k <= r.len + Len(s)
      BY <1>0, <1>4
    <3> QED
      BY <1>6, <3>1, Zenon
  <2> QED
    BY <1>9, <2>1, <2>2, Zenon DEF Newest
<1> QED
  BY <1>3, <1>8, <1>9, <1>10, Zenon

(* The ring is emptied, got, given back.                                    *)
LEMMA Emptied ==
    ASSUME RingOK, NEW r \in RingType
    PROVE  /\ R!Drop(r) \in RingType /\ R!Drop(r).len = 0
           /\ R!Drop(r).buf = r.buf /\ R!Drop(r).total = r.total
<1>1. 0 \in 0..(Cap - 1) /\ 0 \in 0..Cap /\ None \in Freq \cup {None}
  BY DEF RingOK
<1> QED
  BY <1>1 DEF RingType, R!Drop

LEMMA Got ==
    ASSUME RingOK, NEW r \in RingType
    PROVE  /\ R!Alloc(r) \in RingType /\ R!Alloc(r).buf # None
           /\ R!Alloc(r).len = r.len /\ R!Alloc(r).total = r.total
           /\ r.buf # None => R!Alloc(r) = r
<1>1. CASE r.buf = None
  <2>1. PICK b : b = R!Silence
    OBVIOUS
  <2>2. b \in Buffers /\ b # None
    BY <2>1 DEF RingOK, Buffers, R!Silence
  <2>3. R!Alloc(r) = [r EXCEPT !.buf = b]
    BY <1>1, <2>1, Zenon DEF R!Alloc
  <2> QED
    BY <1>1, <2>2, <2>3 DEF RingType
<1>2. CASE r.buf # None
  <2>1. R!Alloc(r) = r
    BY <1>2, Zenon DEF R!Alloc
  <2> QED
    BY <1>2, <2>1, Zenon
<1> QED
  BY <1>1, <1>2

LEMMA GivenBack ==
    ASSUME RingOK, NEW r \in RingType
    PROVE  R!Release(r) \in RingType /\ R!Release(r).len = 0 /\ R!Release(r).buf = None
<1>1. PICK q : q = [r EXCEPT !.buf = None]
  OBVIOUS
<1>2. q \in RingType /\ q.buf = None
  BY <1>1 DEF RingType
<1>3. R!Release(r) = R!Drop(q)
  BY <1>1, Zenon DEF R!Release
<1> QED
  BY <1>2, <1>3, Emptied

(* A frame goes into the ring, if there is one.                             *)
LEMMA FeedKeeps ==
    ASSUME RingOK, ring \in RingType, Shared, RingHolds, curVfo \in Freq, heard \in Seq(Freq \cup {None}),
           NEW s \in Seq(Nat), Len(s) \in 1..Cap, Row(s, Len(heard)),
           NEW r, r = R!Feed(ring, s)
    PROVE  /\ r \in RingType /\ (r.buf = None) = (ring.buf = None)
           /\ r.len > 0 => r.buf # None /\ Newest(r, Len(heard) + Len(s))
           /\ r.len <= ring.len + Len(s)
           /\ scan.armed => r.total = ring.total + Len(s)
<1>0. Cap \in Nat \ {0} /\ ring.len \in 0..Cap /\ Len(heard) \in Nat /\ ring.total \in Nat
  BY DEF RingOK, RingType
<1>1. CASE ring.buf = None
  <2>1. r = ring /\ ~scan.armed
    BY <1>1, Zenon DEF Shared, R!Feed, R!Live
  <2>2. ~(ring.len > 0)
    BY <1>1 DEF RingHolds
  <2> QED
    BY <1>0, <2>1, <2>2
<1>2. CASE ring.buf # None
  <2>1. PICK q : q = (IF ring.len > 0 /\ ring.hz # curVfo THEN R!Drop(ring) ELSE ring)
    OBVIOUS
  <2>2. q \in RingType /\ q.buf # None /\ q.total = ring.total
    BY <1>2, <2>1, Emptied, Zenon
  <2>3. q.len = 0 \/ q = ring
    BY <2>1, Emptied, Zenon
  <2>4. PICK g : g = [q EXCEPT !.hz = curVfo]
    OBVIOUS
  <2>5. g \in RingType /\ g.buf = q.buf /\ g.len = q.len /\ g.w = q.w /\ g.total = q.total
    <3>1. PICK f : f = curVfo
      OBVIOUS
    <3>2. f \in Freq \cup {None} /\ g = [q EXCEPT !.hz = f]
      BY <2>4, <3>1
    <3> QED
      BY <2>2, <3>2 DEF RingType
  <2>6. g.buf # None /\ Newest(g, Len(heard)) /\ g.len \in Nat /\ g.len <= ring.len
    <3>1. CASE q.len = 0
      <4>1. g.len = 0 /\ g.buf # None
        BY <2>2, <2>5, <3>1, Zenon
      <4> QED
        BY <1>0, <4>1 DEF Newest
    <3>2. CASE q = ring
      <4>1. Newest(ring, Len(heard))
        BY <1>0 DEF RingHolds, Newest
      <4>2. g.len = ring.len /\ g.buf # None
        BY <1>2, <2>5, <3>2, Zenon
      <4> QED
        BY <1>0, <2>5, <3>2, <4>1, <4>2 DEF Newest
    <3> QED
      BY <2>3, <3>1, <3>2, Zenon
  <2>7. r = R!Write(g, s)
    <3>1. R!Live(preOn, scan.armed)
      BY <1>2, Zenon DEF Shared
    <3>2. g = R!Guard(ring)
      BY <2>1, <2>4, Zenon DEF R!Guard
    <3> QED
      BY <3>1, <3>2, Zenon DEF R!Feed
  <2>8. /\ r \in RingType /\ r.buf # None /\ Newest(r, Len(heard) + Len(s))
        /\ r.total = g.total + Len(s) /\ r.len = R!Least(Cap, g.len + Len(s))
    <3>1. g \in RingType /\ g.buf # None /\ Len(heard) \in Nat /\ Newest(g, Len(heard))
      BY <1>0, <2>5, <2>6
    <3>2. /\ R!Write(g, s) \in RingType /\ R!Write(g, s).buf # None
          /\ Newest(R!Write(g, s), Len(heard) + Len(s))
          /\ R!Write(g, s).total = g.total + Len(s)
          /\ R!Write(g, s).len = R!Least(Cap, g.len + Len(s))
      BY <3>1, WriteKeeps
    <3> QED
      BY <2>7, <3>2, Zenon
  <2>9. r.len <= ring.len + Len(s)
    BY <1>0, <2>6, <2>8 DEF R!Least
  <2> QED
    BY <1>2, <2>2, <2>5, <2>8, <2>9, Zenon
<1> QED
  BY <1>1, <1>2

(* A run goes on with the samples after its last.                           *)
LEMMA Joined ==
    ASSUME NEW h \in Seq(Nat), R!Unbroken(h), NEW N \in Nat, h # <<>> => h[Len(h)] = N,
           NEW s \in Seq(Nat), Len(s) > 0, Row(s, N)
    PROVE  /\ h \o s \in Seq(Nat) /\ R!Unbroken(h \o s)
           /\ (h \o s)[Len(h \o s)] = N + Len(s)
<1>1. PICK j : j = h \o s
  OBVIOUS
<1>2. /\ j \in Seq(Nat) /\ Len(j) = Len(h) + Len(s) /\ Len(h) \in Nat /\ Len(s) \in Nat
  BY <1>1
<1>3. \A i \in 1..Len(h) : j[i] = h[i]
  BY <1>1
<1>4. ASSUME NEW i \in 1..Len(s) PROVE j[Len(h) + i] = N + i
  <2>1. j[Len(h) + i] = s[i]
    <3>1. Len(h) + i \in 1..(Len(h) + Len(s)) /\ ~(Len(h) + i <= Len(h)) /\ Len(h) + i - Len(h) = i
      <4>1. Len(h) \in Nat /\ Len(s) \in Nat /\ i \in Nat /\ 1 <= i /\ i <= Len(s)
        BY <1>2
      <4> QED
        BY <4>1
    <3> QED
      BY <1>1, <3>1
  <2> QED
    BY <2>1, Zenon DEF Row
<1>5. j[Len(j)] = N + Len(s)
  <2>1. Len(s) \in 1..Len(s)
    BY <1>2
  <2> QED
    BY <1>2, <1>4, <2>1, Zenon
<1>6. ASSUME NEW i \in 1..(Len(j) - 1) PROVE j[i + 1] = j[i] + 1
  <2>1. CASE i < Len(h)
    <3>1. i \in Nat /\ i >= 1 /\ Len(h) \in Nat /\ i < Len(h)
      BY <1>2, <2>1
    <3>2. i \in 1..(Len(h) - 1) /\ i \in 1..Len(h) /\ i + 1 \in 1..Len(h)
      BY <3>1
    <3> QED
      BY <1>3, <3>2, Zenon DEF R!Unbroken
  <2>2. CASE i = Len(h)
    <3>1. 1 \in 1..Len(s) /\ i \in 1..Len(h) /\ h # <<>>
      BY <1>2, <2>2
    <3>2. j[i] = N /\ j[i + 1] = N + 1
      BY <1>3, <1>4, <2>2, <3>1, Zenon
    <3> QED
      BY <3>2
  <2>3. CASE i > Len(h)
    <3>1. PICK d \in 1..(Len(s) - 1) : i = Len(h) + d
      <4>1. i - Len(h) \in 1..(Len(s) - 1) /\ i = Len(h) + (i - Len(h))
        BY <1>2, <2>3
      <4> QED
        BY <4>1, Zenon
    <3>2. d \in 1..Len(s) /\ d + 1 \in 1..Len(s) /\ i + 1 = Len(h) + (d + 1)
      BY <1>2, <3>1
    <3>3. j[i] = N + d /\ j[i + 1] = N + (d + 1)
      BY <1>4, <3>1, <3>2, Zenon
    <3> QED
      BY <3>2, <3>3
  <2> QED
    BY <1>2, <2>1, <2>2, <2>3
<1> QED
  BY <1>1, <1>2, <1>5, <1>6, Zenon DEF R!Unbroken

------------------------------------------------------------------------------
(* The recorder: the steps.                                                 *)

(* What a step leaves alone keeps its part of the invariant.                *)
LEMMA Steady ==
    /\ RadioTyped /\ UNCHANGED <<open, tunes, echo, rig>> => RadioTyped'
    /\ AudioTyped /\ UNCHANGED <<audioOn, preOn, wanted, heard, ring, rec>> => AudioTyped'
    /\ ScanTyped /\ UNCHANGED <<curVfo, pi, allowed, scan>> => ScanTyped'
    /\ Shared /\ UNCHANGED <<open, audioOn, silent, preOn, ring, rec, scan, wanted>> => Shared'
    /\ RingHolds /\ UNCHANGED <<audioOn, heard, ring>> => RingHolds'
    /\ RecHolds /\ UNCHANGED <<audioOn, heard, rec>> => RecHolds'
    /\ GoesThere /\ UNCHANGED <<tunes, rig, scan>> => GoesThere'
    /\ IsThere /\ UNCHANGED <<tunes, rig, scan, ring, heard>> => IsThere'
    /\ Written /\ UNCHANGED faults => Written'
<1>1. RadioTyped /\ UNCHANGED <<open, tunes, echo, rig>> => RadioTyped'
  BY DEF RadioTyped
<1>2. AudioTyped /\ UNCHANGED <<audioOn, preOn, wanted, heard, ring, rec>> => AudioTyped'
  BY DEF AudioTyped
<1>3. ScanTyped /\ UNCHANGED <<curVfo, pi, allowed, scan>> => ScanTyped'
  BY DEF ScanTyped
<1>4. Shared /\ UNCHANGED <<open, audioOn, silent, preOn, ring, rec, scan, wanted>> => Shared'
  BY DEF Shared
<1>5. RingHolds /\ UNCHANGED <<audioOn, heard, ring>> => RingHolds'
  BY DEF RingHolds
<1>6. RecHolds /\ UNCHANGED <<audioOn, heard, rec>> => RecHolds'
  BY DEF RecHolds
<1>7. GoesThere /\ UNCHANGED <<tunes, rig, scan>> => GoesThere'
  BY DEF GoesThere
<1>8. IsThere /\ UNCHANGED <<tunes, rig, scan, ring, heard>> => IsThere'
  BY DEF IsThere, Dwells
<1>9. Written /\ UNCHANGED faults => Written'
  BY DEF Written, FilesUnbroken, ClipsNamed
<1> QED
  BY <1>1, <1>2, <1>3, <1>4, <1>5, <1>6, <1>7, <1>8, <1>9

(* The last of a sequence is the last of its tail, or its only one.         *)
LEMMA LastOfTail ==
    ASSUME NEW S, NEW q \in Seq(S), q # <<>>
    PROVE  /\ Tail(q) = <<>> => Head(q) = q[Len(q)]
           /\ Tail(q) # <<>> => Tail(q)[Len(Tail(q))] = q[Len(q)]
<1>1. PICK n \in Nat : n = Len(q)
  OBVIOUS
<1>2. n # 0 /\ Tail(q) \in Seq(S) /\ Len(Tail(q)) = n - 1
  BY <1>1
<1>3. \A i \in 1..(n - 1) : Tail(q)[i] = q[i + 1]
  BY <1>1, <1>2
<1>4. CASE n = 1
  <2>1. Len(Tail(q)) = 0
    BY <1>2, <1>4
  <2>2. Tail(q) = <<>>
    <3>1. \A t \in Seq(S) : Len(t) = 0 => t = <<>>
      OBVIOUS
    <3> QED
      BY <1>2, <2>1, <3>1, Zenon
  <2>3. Head(q) = q[1]
    BY <1>1, <1>4
  <2> QED
    BY <1>1, <1>4, <2>2, <2>3, Zenon
<1>5. CASE n > 1
  <2>1. n - 1 \in 1..(n - 1) /\ (n - 1) + 1 = n
    BY <1>5
  <2>2. Tail(q)[n - 1] = q[(n - 1) + 1]
    BY <1>3, <2>1, Zenon
  <2>3. Len(Tail(q)) = n - 1 /\ n - 1 # 0
    BY <1>2, <1>5
  <2>4. Len(<<>>) = 0
    OBVIOUS
  <2>5. Tail(q)[Len(Tail(q))] = q[Len(q)]
    BY <1>1, <2>1, <2>2, <2>3, Zenon
  <2> QED
    BY <2>3, <2>4, <2>5, Zenon
<1> QED
  BY <1>2, <1>4, <1>5

LEMMA RadioStep == ASSUME RingOK, RecorderInv, R!Radio PROVE RecorderInv'
<1>1. /\ AudioTyped' /\ ScanTyped' /\ Shared' /\ RingHolds' /\ RecHolds' /\ Written'
  BY Steady DEF RecorderInv, R!Radio, R!pageVars, R!ghostVars
<1>2. /\ tunes \in Seq(Freq) /\ tunes # <<>> /\ tunes' = Tail(tunes) /\ Head(tunes) \in Freq
      /\ Tail(tunes) \in Seq(Freq) /\ rig'.hz = Head(tunes)
  BY DEF RecorderInv, RadioTyped, R!Radio
<1>3. RadioTyped'
  <2>1. PICK n \in 0..MaxLag : rig' = [hz |-> Head(tunes), lag |-> n,
                                       old |-> IF rig.lag > 0 THEN rig.old ELSE rig.hz]
    BY DEF R!Radio
  <2>2. rig' \in [hz : Freq, old : Freq, lag : Nat]
    BY <1>2, <2>1 DEF RecorderInv, RadioTyped, RingOK
  <2>3. open' = open /\ echo' = Append(echo, Head(tunes))
    BY DEF R!Radio
  <2> QED
    BY <1>2, <2>2, <2>3 DEF RecorderInv, RadioTyped
<1>4. GoesThere'
  <2> SUFFICES ASSUME scan.pc = "settle", scan.alone, ~scan.stop
               PROVE  /\ tunes' # <<>> => tunes'[Len(tunes')] = scan.stamp
                      /\ tunes' = <<>> => rig'.hz = scan.stamp
    BY DEF GoesThere, R!Radio, R!pageVars
  <2>1. tunes[Len(tunes)] = scan.stamp
    BY <1>2 DEF RecorderInv, GoesThere
  <2> QED
    BY <1>2, <2>1, LastOfTail
<1>5. IsThere'
  BY <1>2 DEF RecorderInv, IsThere, Dwells, R!Radio, R!pageVars
<1> QED
  BY <1>1, <1>3, <1>4, <1>5 DEF RecorderInv

LEMMA EchoStep == ASSUME RingOK, RecorderInv, R!Echo PROVE RecorderInv'
<1>1. /\ RingHolds' /\ GoesThere' /\ IsThere' /\ Written'
  BY Steady DEF RecorderInv, R!Echo, R!ghostVars
<1>2. echo \in Seq(Freq) /\ echo # <<>> /\ echo' = Tail(echo) /\ Head(echo) \in Freq
      /\ Tail(echo) \in Seq(Freq)
  BY DEF RecorderInv, RadioTyped, R!Echo
<1>3. RadioTyped'
  BY <1>2 DEF RecorderInv, RadioTyped, R!Echo
<1>4. rec' \in RecType /\ rec'.on = rec.on /\ rec'.held = rec.held
  <2>1. rec \in RecType /\ curVfo' \in Freq \cup {None}
    BY <1>2 DEF RecorderInv, AudioTyped, R!Echo
  <2>2. rec' = rec \/ rec' = [rec EXCEPT !.hz = curVfo']
    BY DEF R!Echo
  <2> QED
    BY <2>1, <2>2 DEF RecType
<1>5. AudioTyped'
  BY <1>4 DEF RecorderInv, AudioTyped, R!Echo, R!ghostVars
<1>6. ScanTyped'
  BY <1>2 DEF RecorderInv, ScanTyped, R!Echo
<1>7. Shared'
  BY <1>4 DEF RecorderInv, Shared, R!Echo, R!ghostVars, R!Live
<1>8. RecHolds'
  BY <1>4 DEF RecorderInv, RecHolds, R!Echo, R!ghostVars, R!Unbroken
<1> QED
  BY <1>1, <1>3, <1>5, <1>6, <1>7, <1>8 DEF RecorderInv

LEMMA DecodeStep == ASSUME RingOK, RecorderInv, R!Decode PROVE RecorderInv'
<1>1. /\ RadioTyped' /\ AudioTyped' /\ Shared' /\ RingHolds' /\ RecHolds' /\ GoesThere'
      /\ IsThere' /\ Written'
  BY Steady DEF RecorderInv, R!Decode, R!radioVars, R!ghostVars
<1>2. ScanTyped'
  BY DEF RecorderInv, RadioTyped, ScanTyped, R!Decode
<1> QED
  BY <1>1, <1>2 DEF RecorderInv

LEMMA ConnectStep == ASSUME RingOK, RecorderInv, R!Connect PROVE RecorderInv'
<1>1. /\ AudioTyped' /\ ScanTyped' /\ RingHolds' /\ RecHolds' /\ GoesThere' /\ IsThere' /\ Written'
  BY Steady DEF RecorderInv, R!Connect, R!pageVars, R!ghostVars
<1>2. RadioTyped'
  BY DEF RecorderInv, RadioTyped, R!Connect
<1>3. Shared'
  BY DEF RecorderInv, Shared, R!Connect, R!pageVars, R!ghostVars
<1> QED
  BY <1>1, <1>2, <1>3 DEF RecorderInv

LEMMA TuneStep == ASSUME RingOK, RecorderInv, NEW f \in Freq, R!Tune(f) PROVE RecorderInv'
<1>1. /\ AudioTyped' /\ RingHolds' /\ RecHolds' /\ Written'
  BY Steady DEF RecorderInv, R!Tune
<1>2. /\ scan' \in ScanType /\ scan'.run = scan.run /\ scan'.stop = scan.stop /\ scan'.pc = scan.pc
      /\ scan'.armed = scan.armed /\ scan'.home = scan.home /\ scan'.alone = FALSE
  BY DEF RecorderInv, ScanTyped, ScanType, R!Tune
<1>3. RadioTyped'
  BY DEF RecorderInv, RadioTyped, R!Tune
<1>4. ScanTyped'
  BY <1>2 DEF RecorderInv, ScanTyped, R!Tune
<1>5. Shared'
  BY <1>2 DEF RecorderInv, Shared, R!Tune
<1>6. GoesThere' /\ IsThere'
  BY <1>2 DEF GoesThere, IsThere
<1> QED
  BY <1>1, <1>3, <1>4, <1>5, <1>6 DEF RecorderInv

LEMMA LostStep == ASSUME RingOK, RecorderInv, R!Lost PROVE RecorderInv'
<1>1. Written'
  BY Steady DEF RecorderInv, R!Lost
<1>2. /\ scan' \in ScanType /\ scan'.run = scan.run /\ scan'.stop = (scan.stop \/ scan.run)
      /\ scan'.pc = scan.pc /\ scan'.armed = scan.armed /\ scan'.home = scan.home
      /\ scan'.alone = scan.alone /\ scan'.stamp = scan.stamp
  <2>1. (scan.stop \/ scan.run) \in BOOLEAN
    BY DEF RecorderInv, ScanTyped, ScanType
  <2>2. scan \in ScanType /\ scan' = [scan EXCEPT !.stop = scan.stop \/ scan.run]
    BY DEF RecorderInv, ScanTyped, R!Lost
  <2> QED
    BY <2>1, <2>2 DEF ScanType
<1>3. ring' \in RingType /\ ring'.len = 0 /\ ring'.buf = ring.buf
  BY Emptied DEF RecorderInv, AudioTyped, R!Lost
<1>4. RadioTyped' /\ rig'.hz = rig.hz /\ rig'.lag = 0 /\ tunes' = <<>>
  <2>1. <<>> \in Seq(Freq) /\ rig.hz \in Freq
    BY DEF RecorderInv, RadioTyped
  <2> QED
    BY <2>1 DEF RecorderInv, RadioTyped, R!Lost
<1>5. AudioTyped'
  BY <1>3 DEF RecorderInv, AudioTyped, R!Lost
<1>6. ScanTyped'
  BY <1>2 DEF RecorderInv, ScanTyped, R!Lost
<1>7. Shared'
  BY <1>2, <1>3 DEF RecorderInv, Shared, R!Lost
<1>8. RingHolds' /\ RecHolds'
  BY <1>3 DEF RecorderInv, RingHolds, RecHolds, R!Lost, R!Unbroken
<1>9. GoesThere'
  BY <1>2 DEF RecorderInv, Shared, GoesThere
<1>10. IsThere'
  <2> SUFFICES ASSUME SettleCovers, Dwells', scan'.alone
               PROVE  /\ tunes' = <<>> /\ rig'.hz = scan'.stamp /\ rig'.lag = 0
                      /\ ring'.len = 0
    BY DEF IsThere
  <2>1. scan.pc = "hold"
    BY <1>2 DEF RecorderInv, Shared, Dwells
  <2> QED
    BY <1>2, <1>3, <1>4, <2>1 DEF RecorderInv, IsThere, Dwells
<1> QED
  BY <1>1, <1>4, <1>5, <1>6, <1>7, <1>8, <1>9, <1>10 DEF RecorderInv

(* A recording that ends writes what it holds, and takes its own stream     *)
(* with it.                                                                 *)
LEMMA StopRecIs ==
    ASSUME RingOK, AudioTyped, Written, NEW r \in RingType, NEW held, R!Unbroken(held),
           R!StopRec(r, held)
    PROVE  /\ rec' \in RecType /\ rec'.on = FALSE
           /\ silent' = silent \ {"rec"}
           /\ audioOn' \in BOOLEAN /\ (audioOn' => audioOn /\ "rec" \notin silent)
           /\ ring' \in RingType /\ ring'.buf = r.buf /\ ring'.total = r.total
           /\ ring'.len = 0 \/ (ring' = r /\ audioOn' = audioOn)
           /\ Written'
<1>1. rec' \in RecType /\ rec'.on = FALSE
  <2>1. <<>> \in Seq(Nat) /\ None \in Freq \cup {None}
    OBVIOUS
  <2> QED
    BY <2>1 DEF R!StopRec, R!NoRec, RecType
<1>2. Written'
  BY DEF Written, FilesUnbroken, ClipsNamed, R!StopRec, R!Wav
<1>3. CASE "rec" \in silent
  <2>1. audioOn' = FALSE /\ ring' = R!Drop(r) /\ silent' = silent \ {"rec"}
    BY <1>3 DEF R!StopRec
  <2> QED
    BY <1>1, <1>2, <2>1, Emptied
<1>4. CASE "rec" \notin silent
  <2>1. audioOn' = audioOn /\ ring' = r /\ silent' = silent \ {"rec"}
    BY <1>4 DEF R!StopRec
  <2> QED
    BY <1>1, <1>2, <1>4, <2>1 DEF AudioTyped
<1> QED
  BY <1>3, <1>4

(* The samples of a frame.                                                  *)
LEMMA FrameIs ==
    ASSUME RingOK, AudioTyped, NEW n \in Sizes, NEW hz \in Freq, NEW s,
           s = [i \in 1..n |-> Len(heard) + i],
           heard' = heard \o [i \in 1..n |-> hz]
    PROVE  /\ n \in 1..Cap /\ Len(heard) \in Nat
           /\ s \in Seq(Nat) /\ Len(s) = n /\ Row(s, Len(heard))
           /\ heard' \in Seq(Freq \cup {None}) /\ Len(heard') = Len(heard) + n
           /\ \A i \in 1..Len(heard) : heard'[i] = heard[i]
           /\ \A i \in 1..n : heard'[Len(heard) + i] = hz
<1>1. n \in 1..Cap /\ n \in Nat /\ heard \in Seq(Freq \cup {None}) /\ Len(heard) \in Nat
  BY DEF RingOK, AudioTyped
<1>2. s \in Seq(Nat) /\ Len(s) = n /\ Row(s, Len(heard))
  <2>1. \A i \in 1..n : Len(heard) + i \in Nat
    BY <1>1
  <2>2. s \in [1..n -> Nat]
    BY <2>1
  <2>3. \A f \in [1..n -> Nat] : f \in Seq(Nat) /\ Len(f) = n
    BY <1>1
  <2>4. s \in Seq(Nat) /\ Len(s) = n
    BY <2>2, <2>3, Zenon
  <2> QED
    BY <2>4 DEF Row
<1>3. PICK t : t = [i \in 1..n |-> hz]
  OBVIOUS
<1>4. t \in Seq(Freq \cup {None}) /\ Len(t) = n /\ \A i \in 1..n : t[i] = hz
  <2>1. t \in [1..n -> Freq \cup {None}]
    BY <1>3
  <2>2. \A f \in [1..n -> Freq \cup {None}] : f \in Seq(Freq \cup {None}) /\ Len(f) = n
    BY <1>1
  <2>3. t \in Seq(Freq \cup {None}) /\ Len(t) = n
    BY <2>1, <2>2, Zenon
  <2> QED
    BY <1>3, <2>3
<1>5. heard' = heard \o t
  BY <1>3
<1>6. heard' \in Seq(Freq \cup {None}) /\ Len(heard') = Len(heard) + n
  BY <1>1, <1>4, <1>5
<1>7. \A i \in 1..Len(heard) : heard'[i] = heard[i]
  BY <1>1, <1>4, <1>5
<1>8. ASSUME NEW i \in 1..n PROVE heard'[Len(heard) + i] = hz
  <2>1. Len(heard) + i \in 1..(Len(heard) + n) /\ ~(Len(heard) + i <= Len(heard))
        /\ Len(heard) + i - Len(heard) = i
    BY <1>1
  <2> QED
    BY <1>1, <1>4, <1>5, <2>1
<1> QED
  BY <1>1, <1>2, <1>6, <1>7, <1>8

LEMMA FrameStep == ASSUME RingOK, RecorderInv, NEW n \in Sizes, R!Frame(n) PROVE RecorderInv'
<1>0. /\ RadioTyped /\ AudioTyped /\ ScanTyped /\ Shared /\ RingHolds /\ RecHolds /\ IsThere
      /\ Written /\ GoesThere
  BY DEF RecorderInv
<1>1. PICK hz : hz = (IF rig.lag > 0 THEN rig.old ELSE rig.hz)
  OBVIOUS
<1>2. PICK s : s = [i \in 1..n |-> Len(heard) + i]
  OBVIOUS
<1>3. PICK r : r = R!Feed(ring, s)
  OBVIOUS
<1>4. PICK held : held = rec.held \o s
  OBVIOUS
<1>5. /\ open /\ audioOn
      /\ heard' = heard \o [i \in 1..n |-> hz]
      /\ rig' = [rig EXCEPT !.lag = IF @ > 0 THEN @ - 1 ELSE 0,
                            !.old = IF rig.lag > 1 THEN @ ELSE rig.hz]
      /\ IF rec.on /\ Len(held) >= RecMax
         THEN R!StopRec(r, held)
         ELSE /\ ring' = r
              /\ rec' = IF rec.on THEN [rec EXCEPT !.held = held] ELSE rec
              /\ UNCHANGED <<faults, silent, audioOn>>
      /\ UNCHANGED <<open, tunes, echo, curVfo, pi, preOn, scan, grants, allowed, wanted, left>>
  BY <1>1, <1>2, <1>3, <1>4, Zenon DEF R!Frame
<1>6. hz \in Freq /\ (rig.lag = 0 => hz = rig.hz)
  BY <1>0, <1>1 DEF RadioTyped
<1>7. /\ n \in 1..Cap /\ Len(heard) \in Nat
      /\ s \in Seq(Nat) /\ Len(s) = n /\ Row(s, Len(heard))
      /\ heard' \in Seq(Freq \cup {None}) /\ Len(heard') = Len(heard) + n
      /\ \A i \in 1..Len(heard) : heard'[i] = heard[i]
      /\ \A i \in 1..n : heard'[Len(heard) + i] = hz
  BY <1>0, <1>2, <1>5, <1>6, FrameIs, Zenon
<1>8. /\ r \in RingType /\ (r.buf = None) = (ring.buf = None)
      /\ r.len > 0 => r.buf # None /\ Newest(r, Len(heard'))
      /\ r.len <= ring.len + n
      /\ scan.armed => r.total = ring.total + n
  <2>1. /\ ring \in RingType /\ curVfo \in Freq /\ heard \in Seq(Freq \cup {None}) /\ Len(s) \in 1..Cap
    BY <1>0, <1>7 DEF AudioTyped, ScanTyped
  <2>2. /\ r \in RingType /\ (r.buf = None) = (ring.buf = None)
        /\ r.len > 0 => r.buf # None /\ Newest(r, Len(heard) + Len(s))
        /\ r.len <= ring.len + Len(s)
        /\ scan.armed => r.total = ring.total + Len(s)
    BY <1>0, <1>3, <1>7, <2>1, FeedKeeps, Zenon
  <2> QED
    BY <1>7, <2>2, Zenon
<1>9. rec.on => held \in Seq(Nat) /\ R!Unbroken(held) /\ held[Len(held)] = Len(heard')
  <2> SUFFICES ASSUME rec.on
               PROVE  held \in Seq(Nat) /\ R!Unbroken(held) /\ held[Len(held)] = Len(heard')
    OBVIOUS
  <2>1. /\ rec.held \in Seq(Nat) /\ R!Unbroken(rec.held)
        /\ rec.held # <<>> => rec.held[Len(rec.held)] = Len(heard)
    BY <1>0, <1>5 DEF AudioTyped, RecType, RecHolds
  <2>2. Len(s) > 0
    BY <1>7
  <2>3. /\ rec.held \o s \in Seq(Nat) /\ R!Unbroken(rec.held \o s)
        /\ (rec.held \o s)[Len(rec.held \o s)] = Len(heard) + Len(s)
    BY <1>7, <2>1, <2>2, Joined
  <2> QED
    BY <1>4, <1>7, <2>3, Zenon
<1>10. /\ rec' \in RecType /\ audioOn' \in BOOLEAN
       /\ ring' \in RingType /\ ring'.buf = r.buf /\ ring'.total = r.total
       /\ ring'.len = 0 \/ (ring' = r /\ audioOn')
       /\ rec'.on => rec.on /\ rec'.held = held
       /\ Written'
       /\ (rec'.on = rec.on /\ silent' = silent)
            \/ (~rec'.on /\ silent' = silent \ {"rec"} /\ (audioOn' => "rec" \notin silent))
  <2>1. CASE rec.on /\ Len(held) >= RecMax
    <3>1. R!StopRec(r, held) /\ R!Unbroken(held)
      BY <1>5, <1>9, <2>1
    <3>2. /\ rec' \in RecType /\ rec'.on = FALSE
          /\ silent' = silent \ {"rec"}
          /\ audioOn' \in BOOLEAN /\ (audioOn' => audioOn /\ "rec" \notin silent)
          /\ ring' \in RingType /\ ring'.buf = r.buf /\ ring'.total = r.total
          /\ ring'.len = 0 \/ (ring' = r /\ audioOn' = audioOn)
          /\ Written'
      BY <1>0, <1>8, <3>1, StopRecIs, Zenon
    <3>3. audioOn' = audioOn => audioOn'
      BY <1>5
    <3>4. audioOn' => "rec" \notin silent
      BY <3>2
    <3>5. ~rec'.on
      BY <3>2
    <3>6. ring'.len = 0 \/ (ring' = r /\ audioOn')
      BY <3>2, <3>3, Zenon
    <3>7. /\ rec' \in RecType /\ audioOn' \in BOOLEAN /\ Written' /\ silent' = silent \ {"rec"}
          /\ ring' \in RingType /\ ring'.buf = r.buf /\ ring'.total = r.total
      BY <3>2, Zenon
    <3> QED
      BY <3>4, <3>5, <3>6, <3>7, Zenon
  <2>2. CASE ~(rec.on /\ Len(held) >= RecMax)
    <3>1. /\ ring' = r /\ audioOn' = audioOn /\ silent' = silent /\ faults' = faults
          /\ rec' = IF rec.on THEN [rec EXCEPT !.held = held] ELSE rec
      BY <1>5, <2>2
    <3>2. /\ rec' \in RecType /\ rec'.on = rec.on /\ (rec'.on => rec'.held = held)
      BY <1>0, <1>9, <3>1 DEF AudioTyped, RecType
    <3>3. Written'
      BY <1>0, <3>1, Steady
    <3> QED
      BY <1>0, <1>5, <1>8, <3>1, <3>2, <3>3, Zenon DEF AudioTyped
  <2> QED
    BY <2>1, <2>2
<1>11. RadioTyped' /\ rig'.hz = rig.hz /\ (rig.lag = 0 => rig'.lag = 0)
  <2>1. rig' \in [hz : Freq, old : Freq, lag : Nat] /\ rig'.hz = rig.hz
        /\ (rig.lag = 0 => rig'.lag = 0)
    <3>1. PICK l : l = IF rig.lag > 0 THEN rig.lag - 1 ELSE 0
      OBVIOUS
    <3>2. PICK o : o = IF rig.lag > 1 THEN rig.old ELSE rig.hz
      OBVIOUS
    <3>3. rig \in [hz : Freq, old : Freq, lag : Nat]
      BY <1>0 DEF RadioTyped
    <3>4. l \in Nat /\ o \in Freq /\ (rig.lag = 0 => l = 0)
      BY <3>1, <3>2, <3>3
    <3>5. rig' = [rig EXCEPT !.lag = l, !.old = o]
      BY <1>5, <3>1, <3>2
    <3> QED
      BY <3>3, <3>4, <3>5
  <2> QED
    BY <1>0, <1>5, <2>1 DEF RadioTyped
<1>12. AudioTyped'
  BY <1>0, <1>5, <1>7, <1>10 DEF AudioTyped
<1>13. ScanTyped' /\ GoesThere'
  BY <1>0, <1>5, <1>11 DEF ScanTyped, GoesThere
<1>14. Shared'
  BY <1>0, <1>5, <1>8, <1>10 DEF Shared
<1>15. RingHolds'
  BY <1>8, <1>10 DEF RingHolds
<1>16. RecHolds'
  BY <1>9, <1>10 DEF RecHolds, R!Unbroken
<1>17. IsThere'
  <2> SUFFICES ASSUME SettleCovers, Dwells, scan.alone
               PROVE  /\ tunes = <<>> /\ rig'.hz = scan.stamp /\ rig'.lag = 0
                      /\ scan.armed =>
                           \A k \in 1..ring'.len :
                               k <= ring'.total - scan.mark => heard'[Len(heard') - k + 1] = scan.stamp
    BY <1>5 DEF IsThere, Dwells
  <2>1. /\ tunes = <<>> /\ rig.hz = scan.stamp /\ rig.lag = 0
        /\ scan.armed =>
             \A k \in 1..ring.len :
                 k <= ring.total - scan.mark => heard[Len(heard) - k + 1] = scan.stamp
    BY <1>0 DEF IsThere
  <2>2. ASSUME scan.armed, NEW k \in 1..ring'.len, k <= ring'.total - scan.mark
        PROVE  heard'[Len(heard') - k + 1] = scan.stamp
    <3>1. /\ ring' = r /\ ring'.total = ring.total + n /\ ring'.len <= ring.len + n
          /\ ring'.len \in Nat /\ ring.len \in Nat /\ ring.total \in Nat /\ scan.mark \in Nat
          /\ ring'.len <= Len(heard')
      <4>1. ring \in RingType /\ scan.mark \in Nat
        BY <1>0 DEF AudioTyped, ScanTyped, ScanType
      <4>2. ring.len \in Nat /\ ring.total \in Nat /\ r.len \in Nat /\ ring'.len \in Nat
        BY <1>8, <1>10, <4>1 DEF RingType, RingOK
      <4>3. ring' = r /\ r.len > 0
        BY <1>10, <2>2, <4>2
      <4> QED
        BY <1>8, <2>2, <4>1, <4>2, <4>3 DEF Newest
    <3>2. CASE k <= n
      <4>1. n - k + 1 \in 1..n /\ Len(heard') - k + 1 = Len(heard) + (n - k + 1)
        BY <1>7, <3>2
      <4>2. heard'[Len(heard) + (n - k + 1)] = hz
        BY <1>7, <4>1
      <4> QED
        BY <1>6, <2>1, <4>1, <4>2
    <3>3. CASE k > n
      <4>1. /\ k - n \in 1..ring.len /\ k - n <= ring.total - scan.mark
            /\ Len(heard') - k + 1 = Len(heard) - (k - n) + 1
            /\ Len(heard) - (k - n) + 1 \in 1..Len(heard)
        <5>1. n \in Nat /\ Len(heard) \in Nat /\ Len(heard') = Len(heard) + n /\ k \in Nat
          BY <1>7, <3>1
        <5>2. k <= ring.len + n /\ k <= ring.total + n - scan.mark /\ k <= Len(heard) + n
          BY <2>2, <3>1, <5>1
        <5>3. k - n \in 1..ring.len /\ k - n <= ring.total - scan.mark
          <6>1. ring.len \in Nat /\ ring.total \in Nat /\ scan.mark \in Nat
            BY <3>1
          <6>2. k - n \in 1..ring.len
            BY <3>3, <5>1, <5>2, <6>1
          <6>3. k - n <= ring.total - scan.mark
            BY <5>1, <5>2, <6>1
          <6> QED
            BY <6>2, <6>3
        <5>4. /\ Len(heard') - k + 1 = Len(heard) - (k - n) + 1
              /\ Len(heard) - (k - n) + 1 \in 1..Len(heard)
          BY <3>3, <5>1, <5>2
        <5> QED
          BY <5>3, <5>4
      <4>2. heard[Len(heard) - (k - n) + 1] = scan.stamp
        BY <2>1, <2>2, <4>1
      <4> QED
        BY <1>7, <4>1, <4>2
    <3> QED
      BY <1>7, <3>2, <3>3
  <2> QED
    BY <1>11, <2>1, <2>2
<1> QED
  BY <1>10, <1>11, <1>12, <1>13, <1>14, <1>15, <1>16, <1>17 DEF RecorderInv

LEMMA PressAudioStep == ASSUME RingOK, RecorderInv, R!PressAudio PROVE RecorderInv'
<1>0. ring \in RingType /\ heard \in Seq(Freq \cup {None}) /\ None \in Freq \cup {None}
      /\ ring.len \in Nat
  BY DEF RecorderInv, AudioTyped, RingType, RingOK
<1>1. RadioTyped' /\ ScanTyped' /\ GoesThere' /\ Written'
  BY Steady DEF RecorderInv, R!PressAudio, R!radioVars
<1>2. /\ ~rec.on /\ rec' = rec /\ scan' = scan /\ silent' = silent /\ open' = open /\ preOn' = preOn
      /\ tunes' = tunes /\ rig' = rig
      /\ \/ audioOn' = FALSE /\ wanted' = FALSE /\ ring' = R!Drop(ring) /\ heard' = heard
         \/ ~audioOn /\ audioOn' = TRUE /\ wanted' = TRUE /\ ring' = ring
            /\ heard' = Append(heard, None)
  BY DEF R!PressAudio, R!Starts, R!radioVars
<1>3. ring' \in RingType /\ ring'.len = 0 /\ ring'.buf = ring.buf
  <2>1. ~audioOn => ring.len = 0
    BY <1>0 DEF RecorderInv, RingHolds
  <2> QED
    BY <1>0, <1>2, <2>1, Emptied
<1>4. AudioTyped'
  <2>1. Append(heard, None) \in Seq(Freq \cup {None})
    BY <1>0
  <2>2. heard' \in Seq(Freq \cup {None}) /\ audioOn' \in BOOLEAN /\ wanted' \in BOOLEAN
    BY <1>0, <1>2, <2>1
  <2> QED
    BY <1>2, <1>3, <2>2 DEF RecorderInv, AudioTyped
<1>5. Shared'
  BY <1>2, <1>3 DEF RecorderInv, Shared
<1>6. RingHolds' /\ RecHolds'
  BY <1>2, <1>3 DEF RingHolds, RecHolds
<1>7. IsThere'
  BY <1>2, <1>3 DEF RecorderInv, IsThere, Dwells
<1> QED
  BY <1>1, <1>4, <1>5, <1>6, <1>7 DEF RecorderInv

LEMMA PressPreStep == ASSUME RingOK, RecorderInv, R!PressPre PROVE RecorderInv'
<1>1. RadioTyped' /\ ScanTyped' /\ RecHolds' /\ GoesThere' /\ Written'
  BY Steady DEF RecorderInv, R!PressPre, R!radioVars
<1>2. /\ preOn' = ~preOn /\ preOn \in BOOLEAN /\ ring \in RingType /\ ring.len \in Nat
      /\ UNCHANGED <<open, audioOn, silent, rec, scan, heard, wanted, tunes, rig>>
      /\ ring' = IF preOn' THEN R!Alloc(ring)
                 ELSE IF scan.armed THEN ring ELSE R!Release(ring)
  BY DEF RecorderInv, AudioTyped, RingType, RingOK, R!PressPre, R!radioVars
<1>3. /\ ring' \in RingType /\ (ring'.buf = None) = ~R!Live(preOn', scan.armed)
      /\ ring'.len = 0 \/ ring' = ring
      /\ scan.armed => ring' = ring
  <2>1. CASE preOn'
    <3>1. ring' = R!Alloc(ring)
      BY <1>2, <2>1
    <3>2. ring.buf = None => ring.len = 0 /\ ~scan.armed
      BY <1>2 DEF RecorderInv, RingHolds, Shared, R!Live
    <3> QED
      BY <1>2, <2>1, <3>1, <3>2, Got DEF R!Live
  <2>2. CASE ~preOn' /\ scan.armed
    BY <1>2, <2>2 DEF RecorderInv, Shared, R!Live
  <2>3. CASE ~preOn' /\ ~scan.armed
    <3>1. ring' = R!Release(ring)
      BY <1>2, <2>3
    <3> QED
      BY <1>2, <2>3, <3>1, GivenBack DEF R!Live
  <2> QED
    BY <2>1, <2>2, <2>3
<1>4. AudioTyped'
  BY <1>2, <1>3 DEF RecorderInv, AudioTyped
<1>5. Shared'
  BY <1>2, <1>3 DEF RecorderInv, Shared
<1>6. RingHolds'
  BY <1>2, <1>3 DEF RecorderInv, RingHolds
<1>7. IsThere'
  BY <1>2, <1>3 DEF RecorderInv, IsThere, Dwells
<1> QED
  BY <1>1, <1>4, <1>5, <1>6, <1>7 DEF RecorderInv

LEMMA PressRecordStep == ASSUME RingOK, RecorderInv, R!PressRecord PROVE RecorderInv'
<1>0. /\ AudioTyped /\ ScanTyped /\ Shared /\ RingHolds
      /\ ring \in RingType /\ ring.len \in Nat /\ heard \in Seq(Freq \cup {None})
      /\ None \in Freq \cup {None} /\ Len(heard) \in Nat
  BY DEF RecorderInv, AudioTyped, RingType, RingOK
<1>1. RadioTyped' /\ ScanTyped' /\ GoesThere' /\ Written'
  BY Steady DEF RecorderInv, R!PressRecord, R!radioVars
<1>2. PICK h : h = IF preOn THEN R!Take(ring, ring.len) ELSE <<>>
  OBVIOUS
<1>3. /\ ~rec.on /\ ~scan.run
      /\ rec' = [on |-> TRUE, held |-> h, hz |-> curVfo, began |-> curVfo]
      /\ \/ audioOn /\ silent' = silent \ {"rec"} /\ audioOn' = audioOn /\ heard' = heard
         \/ ~audioOn /\ silent' = silent \cup {"rec"} /\ audioOn' = TRUE
            /\ heard' = Append(heard, None)
      /\ UNCHANGED <<open, preOn, ring, scan, wanted, tunes, rig>>
  BY <1>2 DEF R!PressRecord, R!Starts, R!radioVars
<1>4. h \in Seq(Nat) /\ R!Unbroken(h) /\ (h # <<>> => ring.len > 0 /\ h[Len(h)] = Len(heard))
  <2>0. <<>> \in Seq(Nat) /\ R!Unbroken(<<>>)
    BY DEF R!Unbroken
  <2>1. CASE ~preOn
    BY <1>2, <2>0, <2>1
  <2>2. CASE preOn
    <3>1. ring.buf # None
      BY <1>0, <2>2 DEF Shared, R!Live
    <3>2. Newest(ring, Len(heard))
      BY <1>0 DEF RingHolds, Newest
    <3>3. ring.len \in 0..ring.len
      BY <1>0
    <3>4. /\ h \in Seq(Nat) /\ Len(h) = ring.len /\ R!Unbroken(h)
          /\ \A i \in 1..ring.len : h[i] = Len(heard) - ring.len + i
      BY <1>0, <1>2, <2>2, <3>1, <3>2, <3>3, TakeIs
    <3>5. h # <<>> => ring.len > 0
      BY <1>0, <3>4
    <3>6. ring.len > 0 => ring.len \in 1..ring.len /\ Len(heard) - ring.len + ring.len = Len(heard)
      BY <1>0
    <3>7. h # <<>> => h[Len(h)] = Len(heard)
      BY <3>4, <3>5, <3>6, Zenon
    <3> QED
      BY <3>4, <3>5, <3>7, Zenon
  <2> QED
    BY <2>1, <2>2
<1>5. rec' \in RecType /\ rec'.on /\ rec'.held = h
  BY <1>0, <1>3, <1>4 DEF ScanTyped, RecType
<1>6. AudioTyped'
  <2>1. Append(heard, None) \in Seq(Freq \cup {None})
    BY <1>0
  <2>2. heard' \in Seq(Freq \cup {None}) /\ audioOn' \in BOOLEAN
    BY <1>0, <1>3, <2>1 DEF AudioTyped
  <2> QED
    BY <1>0, <1>3, <1>5, <2>2 DEF AudioTyped
<1>7. Shared'
  BY <1>0, <1>3, <1>5 DEF Shared
<1>8. RingHolds'
  BY <1>0, <1>3 DEF RingHolds
<1>9. RecHolds'
  BY <1>0, <1>3, <1>4, <1>5 DEF RecHolds, RingHolds, R!Unbroken
<1>10. IsThere'
  BY <1>0, <1>3 DEF IsThere, Dwells, Shared
<1> QED
  BY <1>1, <1>6, <1>7, <1>8, <1>9, <1>10 DEF RecorderInv

LEMMA PressStopStep == ASSUME RingOK, RecorderInv, R!PressStop PROVE RecorderInv'
<1>0. AudioTyped /\ Shared /\ RingHolds /\ RecHolds /\ Written /\ ring \in RingType
  BY DEF RecorderInv, AudioTyped
<1>1. RadioTyped' /\ ScanTyped' /\ GoesThere'
  BY Steady DEF RecorderInv, R!PressStop, R!radioVars
<1>2. /\ rec.on /\ R!StopRec(ring, rec.held) /\ R!Unbroken(rec.held)
      /\ UNCHANGED <<open, preOn, scan, wanted, heard, tunes, rig>>
  BY <1>0 DEF R!PressStop, R!radioVars, RecHolds
<1>3. /\ rec' \in RecType /\ rec'.on = FALSE
      /\ silent' = silent \ {"rec"}
      /\ audioOn' \in BOOLEAN /\ (audioOn' => audioOn /\ "rec" \notin silent)
      /\ ring' \in RingType /\ ring'.buf = ring.buf /\ ring'.total = ring.total
      /\ ring'.len = 0 \/ (ring' = ring /\ audioOn' = audioOn)
      /\ Written'
  BY <1>0, <1>2, StopRecIs, Zenon
<1>4. AudioTyped'
  BY <1>0, <1>2, <1>3 DEF AudioTyped
<1>5. Shared'
  BY <1>0, <1>2, <1>3 DEF Shared
<1>6. RingHolds' /\ RecHolds'
  BY <1>0, <1>2, <1>3 DEF RingHolds, RecHolds
<1>7. IsThere'
  BY <1>0, <1>2 DEF IsThere, Dwells, Shared
<1> QED
  BY <1>1, <1>3, <1>4, <1>5, <1>6, <1>7 DEF RecorderInv

LEMMA PressSaveStep == ASSUME RingOK, RecorderInv, R!PressSave PROVE RecorderInv'
<1>0. AudioTyped /\ Shared /\ RingHolds /\ Written /\ ring \in RingType /\ ring.len \in Nat
      /\ Len(heard) \in Nat
  BY DEF RecorderInv, AudioTyped, RingType, RingOK
<1>1. /\ RadioTyped' /\ AudioTyped' /\ ScanTyped' /\ Shared' /\ RingHolds' /\ RecHolds'
      /\ GoesThere' /\ IsThere'
  BY Steady DEF RecorderInv, R!PressSave, R!radioVars, R!pageVars
<1>2. R!Unbroken(R!Take(ring, ring.len))
  <2>1. ring.len > 0 /\ ring.len \in 0..ring.len
    BY <1>0 DEF R!PressSave, RingOK
  <2>2. ring.buf # None /\ Newest(ring, Len(heard))
    BY <1>0, <2>1 DEF RingHolds
  <2> QED
    BY <1>0, <2>1, <2>2, TakeIs, Zenon
<1>3. Written'
  BY <1>0, <1>2 DEF Written, FilesUnbroken, ClipsNamed, R!PressSave, R!Wav
<1> QED
  BY <1>1, <1>3 DEF RecorderInv

(* A scan that keeps clips gets an empty ring, and a stream of its own if   *)
(* there is none.                                                           *)
LEMMA ArmNowIs ==
    ASSUME RingOK, AudioTyped, NEW s \in ScanType, R!ArmNow(s)
    PROVE  /\ ring' \in RingType /\ audioOn' \in BOOLEAN /\ heard' \in Seq(Freq \cup {None})
           /\ scan' \in ScanType /\ scan'.run = s.run /\ scan'.stop = s.stop /\ scan'.pc = s.pc
           /\ scan'.home = s.home /\ scan'.alone = s.alone /\ scan'.stamp = s.stamp
           /\ \/ /\ scan'.armed = TRUE /\ ring'.len = 0 /\ ring'.buf # None /\ audioOn'
                 /\ \/ audioOn /\ silent' = silent
                    \/ silent' = silent \cup {"scan"}
              \/ /\ ~audioOn /\ scan' = s /\ silent' = silent \ {"scan"}
                 /\ UNCHANGED <<ring, audioOn, heard>>
<1>0. ring \in RingType /\ heard \in Seq(Freq \cup {None}) /\ audioOn \in BOOLEAN
      /\ None \in Freq \cup {None}
  BY DEF AudioTyped
<1>1. CASE audioOn \/ open
  <2>1. /\ scan' = [s EXCEPT !.armed = TRUE] /\ ring' = R!Drop(R!Alloc(ring))
        /\ \/ audioOn /\ UNCHANGED <<silent, audioOn, heard>>
           \/ silent' = silent \cup {"scan"} /\ audioOn' = TRUE /\ heard' = Append(heard, None)
    BY <1>1 DEF R!ArmNow, R!Starts
  <2>2. ring' \in RingType /\ ring'.len = 0 /\ ring'.buf # None
    <3>1. R!Alloc(ring) \in RingType /\ R!Alloc(ring).buf # None
      BY <1>0, Got, Zenon
    <3> QED
      BY <2>1, <3>1, Emptied, Zenon
  <2>3. /\ scan' \in ScanType /\ scan'.run = s.run /\ scan'.stop = s.stop /\ scan'.pc = s.pc
        /\ scan'.home = s.home /\ scan'.alone = s.alone /\ scan'.stamp = s.stamp
        /\ scan'.armed = TRUE
    BY <2>1 DEF ScanType
  <2>4. Append(heard, None) \in Seq(Freq \cup {None})
    BY <1>0
  <2>5. heard' \in Seq(Freq \cup {None}) /\ audioOn' \in BOOLEAN /\ audioOn'
    BY <1>0, <2>1, <2>4
  <2> QED
    BY <2>1, <2>2, <2>3, <2>5, Zenon
<1>2. CASE ~(audioOn \/ open)
  <2>1. ~audioOn /\ scan' = s /\ silent' = silent \ {"scan"} /\ UNCHANGED <<ring, audioOn, heard>>
    BY <1>2 DEF R!ArmNow
  <2> QED
    BY <1>0, <2>1
<1> QED
  BY <1>1, <1>2

LEMMA ScanStartStep == ASSUME RingOK, RecorderInv, R!ScanStart PROVE RecorderInv'
<1>0. /\ AudioTyped /\ ScanTyped /\ Shared /\ RingHolds
      /\ curVfo \in Freq /\ Channels \in Seq(Freq)
  BY DEF RecorderInv, ScanTyped, RingOK
<1>1. RadioTyped' /\ Written'
  BY Steady DEF RecorderInv, R!ScanStart, R!radioVars
<1>2. PICK s : s = [R!NoScan EXCEPT !.run = TRUE, !.pc = "next", !.todo = Channels, !.home = curVfo]
  OBVIOUS
<1>3. /\ s \in ScanType /\ s.run = TRUE /\ s.stop = FALSE /\ s.pc = "next" /\ s.home = curVfo
      /\ s.armed = FALSE
  <2>1. {} \in SUBSET {Stations[f] : f \in Freq} /\ curVfo \in Freq \cup {None}
        /\ None \in Freq \cup {None}
    BY <1>0
  <2> QED
    BY <1>0, <1>2, <2>1 DEF R!NoScan, ScanType
<1>4. /\ ~scan.run /\ ~rec.on /\ open
      /\ \/ R!ArmNow(s)
         \/ scan' = s /\ silent' = silent \ {"scan"} /\ UNCHANGED <<audioOn, ring, heard>>
      /\ UNCHANGED <<open, tunes, rig, echo, curVfo, pi, preOn, rec, allowed, faults, wanted>>
  BY <1>2, Zenon DEF R!ScanStart, R!radioVars
<1>5. /\ ring' \in RingType /\ audioOn' \in BOOLEAN /\ heard' \in Seq(Freq \cup {None})
      /\ scan' \in ScanType /\ scan'.run = TRUE /\ scan'.stop = FALSE /\ scan'.pc = "next"
      /\ scan'.home = curVfo
      /\ \/ /\ scan'.armed = TRUE /\ ring'.len = 0 /\ ring'.buf # None
            /\ \/ audioOn /\ silent' = silent
               \/ silent' = silent \cup {"scan"}
         \/ /\ scan'.armed = FALSE /\ silent' = silent \ {"scan"}
            /\ UNCHANGED <<ring, audioOn, heard>>
  <2>1. CASE R!ArmNow(s)
    <3>1. /\ ring' \in RingType /\ audioOn' \in BOOLEAN /\ heard' \in Seq(Freq \cup {None})
          /\ scan' \in ScanType /\ scan'.run = s.run /\ scan'.stop = s.stop /\ scan'.pc = s.pc
          /\ scan'.home = s.home
          /\ \/ /\ scan'.armed = TRUE /\ ring'.len = 0 /\ ring'.buf # None
                /\ \/ audioOn /\ silent' = silent
                   \/ silent' = silent \cup {"scan"}
             \/ /\ scan' = s /\ silent' = silent \ {"scan"} /\ UNCHANGED <<ring, audioOn, heard>>
      BY <1>0, <1>3, <2>1, ArmNowIs, Zenon
    <3> QED
      BY <1>3, <3>1, Zenon
  <2>2. CASE scan' = s /\ silent' = silent \ {"scan"} /\ UNCHANGED <<audioOn, ring, heard>>
    BY <1>0, <1>3, <2>2 DEF AudioTyped
  <2> QED
    BY <1>4, <2>1, <2>2
<1>6. AudioTyped' /\ ScanTyped'
  BY <1>0, <1>4, <1>5 DEF AudioTyped, ScanTyped
<1>7. Shared'
  BY <1>0, <1>4, <1>5 DEF Shared, R!Live
<1>8. RingHolds' /\ RecHolds'
  BY <1>0, <1>4, <1>5 DEF RingHolds, RecHolds
<1>9. GoesThere' /\ IsThere'
  BY <1>5 DEF GoesThere, IsThere, Dwells
<1> QED
  BY <1>1, <1>6, <1>7, <1>8, <1>9 DEF RecorderInv

LEMMA GrantStep == ASSUME RingOK, RecorderInv, R!Grant PROVE RecorderInv'
<1>0. /\ AudioTyped /\ ScanTyped /\ Shared /\ RingHolds /\ GoesThere /\ IsThere
      /\ scan \in ScanType /\ ring \in RingType
  BY DEF RecorderInv, ScanTyped, AudioTyped
<1>1. RadioTyped' /\ Written'
  BY Steady DEF RecorderInv, R!Grant, R!radioVars
<1>2. /\ allowed' \in BOOLEAN
      /\ \/ scan.run /\ R!ArmNow(scan)
         \/ UNCHANGED <<scan, silent, audioOn, ring, heard>>
      /\ UNCHANGED <<open, tunes, rig, curVfo, pi, preOn, rec, wanted>>
  BY <1>0 DEF R!Grant, R!radioVars, ScanTyped
<1>3. CASE UNCHANGED <<scan, silent, audioOn, ring, heard>>
  <2>1. AudioTyped' /\ Shared' /\ RingHolds' /\ RecHolds' /\ GoesThere' /\ IsThere'
    BY <1>2, <1>3, Steady DEF RecorderInv
  <2>2. ScanTyped'
    BY <1>0, <1>2, <1>3 DEF ScanTyped
  <2> QED
    BY <1>1, <2>1, <2>2 DEF RecorderInv
<1>4. CASE scan.run /\ R!ArmNow(scan)
  <2>1. /\ ring' \in RingType /\ audioOn' \in BOOLEAN /\ heard' \in Seq(Freq \cup {None})
        /\ scan' \in ScanType /\ scan'.run = scan.run /\ scan'.stop = scan.stop
        /\ scan'.pc = scan.pc /\ scan'.home = scan.home /\ scan'.alone = scan.alone
        /\ scan'.stamp = scan.stamp
        /\ \/ /\ scan'.armed = TRUE /\ ring'.len = 0 /\ ring'.buf # None /\ audioOn'
              /\ \/ audioOn /\ silent' = silent
                 \/ silent' = silent \cup {"scan"}
           \/ /\ ~audioOn /\ scan' = scan /\ silent' = silent \ {"scan"}
              /\ UNCHANGED <<ring, audioOn, heard>>
    BY <1>0, <1>4, ArmNowIs, Zenon
  <2>2. AudioTyped' /\ ScanTyped'
    BY <1>0, <1>2, <2>1 DEF AudioTyped, ScanTyped
  <2>3. Shared'
    BY <1>0, <1>2, <1>4, <2>1 DEF Shared, R!Live
  <2>4. RingHolds'
    BY <1>0, <2>1 DEF RingHolds
  <2>5. RecHolds'
    BY <1>0, <1>2, <1>4 DEF RecHolds, Shared
  <2>6. GoesThere' /\ IsThere'
    BY <1>0, <1>2, <2>1 DEF GoesThere, IsThere, Dwells
  <2> QED
    BY <1>1, <2>2, <2>3, <2>4, <2>5, <2>6 DEF RecorderInv
<1> QED
  BY <1>2, <1>3, <1>4

LEMMA PressStopScanStep == ASSUME RingOK, RecorderInv, R!PressStopScan PROVE RecorderInv'
<1>1. RadioTyped' /\ AudioTyped' /\ RingHolds' /\ RecHolds' /\ Written'
  BY Steady DEF RecorderInv, R!PressStopScan, R!radioVars, R!ghostVars
<1>2. /\ scan' \in ScanType /\ scan'.run = scan.run /\ scan'.stop = TRUE /\ scan'.pc = scan.pc
      /\ scan'.armed = scan.armed /\ scan'.home = scan.home /\ scan'.alone = scan.alone
      /\ scan'.stamp = scan.stamp /\ scan'.mark = scan.mark
  BY DEF RecorderInv, ScanTyped, ScanType, R!PressStopScan
<1>3. ScanTyped'
  BY <1>2 DEF RecorderInv, ScanTyped, R!PressStopScan
<1>4. Shared'
  BY <1>2 DEF RecorderInv, Shared, R!PressStopScan, R!radioVars, R!ghostVars
<1>5. GoesThere' /\ IsThere'
  BY <1>2 DEF RecorderInv, GoesThere, IsThere, Dwells, R!PressStopScan, R!radioVars, R!ghostVars
<1> QED
  BY <1>1, <1>3, <1>4, <1>5 DEF RecorderInv

LEMMA ScanTuneStep == ASSUME RingOK, RecorderInv, R!ScanTune PROVE RecorderInv'
<1>1. AudioTyped' /\ RingHolds' /\ RecHolds' /\ Written'
  BY Steady DEF RecorderInv, R!ScanTune, R!ghostVars
<1>2. /\ scan.todo \in Seq(Freq) /\ scan.todo # <<>> /\ Head(scan.todo) \in Freq
      /\ Tail(scan.todo) \in Seq(Freq) /\ scan \in ScanType /\ tunes \in Seq(Freq)
      /\ scan.run /\ ~scan.stop /\ open
  BY DEF RecorderInv, RadioTyped, ScanTyped, ScanType, Shared, R!ScanTune
<1>3. PICK f \in Freq : f = Head(scan.todo)
  BY <1>2
<1>4. PICK t \in Seq(Freq) : t = Tail(scan.todo)
  BY <1>2
<1>5. /\ scan' = [scan EXCEPT !.pc = "settle", !.stamp = f, !.todo = t, !.alone = TRUE]
      /\ tunes' = Append(tunes, f)
      /\ UNCHANGED <<open, rig, echo, curVfo, pi, allowed>>
  BY <1>2, <1>3, <1>4 DEF R!ScanTune
<1>6. /\ scan' \in ScanType /\ scan'.run = scan.run /\ scan'.stop = scan.stop
      /\ scan'.pc = "settle" /\ scan'.armed = scan.armed /\ scan'.home = scan.home
      /\ scan'.stamp = f
  <2>1. f \in Freq \cup {None}
    OBVIOUS
  <2> QED
    BY <1>2, <1>5, <2>1 DEF ScanType
<1>7. tunes' \in Seq(Freq) /\ tunes' # <<>> /\ tunes'[Len(tunes')] = f
  BY <1>2, <1>5
<1>8. RadioTyped' /\ ScanTyped'
  BY <1>5, <1>6, <1>7 DEF RecorderInv, RadioTyped, ScanTyped
<1>9. Shared'
  BY <1>2, <1>6 DEF RecorderInv, Shared, R!ScanTune, R!ghostVars
<1>10. GoesThere' /\ IsThere'
  BY <1>6, <1>7 DEF GoesThere, IsThere, Dwells
<1> QED
  BY <1>1, <1>8, <1>9, <1>10 DEF RecorderInv

LEMMA SettledStep == ASSUME RingOK, RecorderInv, R!Settled PROVE RecorderInv'
<1>1. RadioTyped' /\ AudioTyped' /\ RingHolds' /\ RecHolds' /\ Written'
  BY Steady DEF RecorderInv, R!Settled, R!radioVars, R!ghostVars
<1>2. ring.total \in Nat /\ scan.mark \in Nat /\ ring.len \in Nat /\ scan \in ScanType
  BY DEF RecorderInv, AudioTyped, ScanTyped, ScanType, RingType, RingOK
<1>3. PICK m \in Nat : m = IF scan.armed THEN ring.total ELSE scan.mark
  BY <1>2
<1>4. /\ scan.pc = "settle" /\ scan' = [scan EXCEPT !.pc = "dwell", !.mark = m]
      /\ SettleCovers => tunes = <<>> /\ rig.lag = 0
      /\ UNCHANGED <<open, tunes, rig, echo, curVfo, pi, audioOn, silent, preOn, ring, rec, grants,
                     allowed, heard, faults, wanted, left>>
  BY <1>3 DEF R!Settled, R!radioVars, R!ghostVars
<1>5. /\ scan' \in ScanType /\ scan'.run = scan.run /\ scan'.stop = scan.stop
      /\ scan'.pc = "dwell" /\ scan'.armed = scan.armed /\ scan'.home = scan.home
      /\ scan'.alone = scan.alone /\ scan'.stamp = scan.stamp /\ scan'.mark = m
  BY <1>2, <1>4 DEF ScanType
<1>6. ScanTyped'
  BY <1>4, <1>5 DEF RecorderInv, ScanTyped
<1>7. Shared'
  BY <1>4, <1>5 DEF RecorderInv, Shared
<1>8. GoesThere'
  BY <1>5 DEF GoesThere
<1>9. IsThere'
  <2> SUFFICES ASSUME SettleCovers, ~scan.stop, scan.alone
               PROVE  /\ tunes = <<>> /\ rig.hz = scan.stamp /\ rig.lag = 0
                      /\ scan.armed => \A k \in 1..ring.len : ~(k <= ring.total - m)
    BY <1>4, <1>5 DEF IsThere, Dwells
  <2>1. tunes = <<>> /\ rig.hz = scan.stamp /\ rig.lag = 0
    BY <1>4 DEF RecorderInv, GoesThere
  <2>2. scan.armed => \A k \in 1..ring.len : ~(k <= ring.total - m)
    BY <1>2, <1>3
  <2> QED
    BY <2>1, <2>2
<1> QED
  BY <1>1, <1>6, <1>7, <1>8, <1>9 DEF RecorderInv

LEMMA VerdictStep == ASSUME RingOK, RecorderInv, R!Verdict PROVE RecorderInv'
<1>1. RadioTyped' /\ AudioTyped' /\ RingHolds' /\ RecHolds' /\ Written'
  BY Steady DEF RecorderInv, R!Verdict, R!radioVars, R!ghostVars
<1>2. PICK l \in {"hold", "next"} :
          /\ scan' = [scan EXCEPT !.pc = l]
          /\ scan.pc = "dwell" /\ (l = "hold" => ~scan.stop)
  BY DEF R!Verdict, R!Goto
<1>3. UNCHANGED <<open, tunes, rig, echo, curVfo, pi, audioOn, silent, preOn, ring, rec, grants,
                  allowed, heard, faults, wanted, left>>
  BY DEF R!Verdict, R!radioVars, R!ghostVars
<1>4. /\ scan' \in ScanType /\ scan'.run = scan.run /\ scan'.stop = scan.stop
      /\ scan'.pc = l /\ scan'.armed = scan.armed /\ scan'.home = scan.home
      /\ scan'.alone = scan.alone /\ scan'.stamp = scan.stamp /\ scan'.mark = scan.mark
  BY <1>2 DEF RecorderInv, ScanTyped, ScanType
<1>5. ScanTyped'
  BY <1>3, <1>4 DEF RecorderInv, ScanTyped
<1>6. Shared'
  BY <1>2, <1>3, <1>4 DEF RecorderInv, Shared
<1>7. GoesThere'
  BY <1>4 DEF GoesThere
<1>8. IsThere'
  BY <1>2, <1>3, <1>4 DEF RecorderInv, IsThere, Dwells
<1> QED
  BY <1>1, <1>5, <1>6, <1>7, <1>8 DEF RecorderInv

LEMMA LapseStep == ASSUME RingOK, RecorderInv, R!Lapse PROVE RecorderInv'
<1>1. RadioTyped' /\ AudioTyped' /\ RingHolds' /\ RecHolds' /\ Written'
  BY Steady DEF RecorderInv, R!Lapse, R!radioVars
<1>2. UNCHANGED <<open, tunes, rig, echo, curVfo, pi, audioOn, silent, preOn, ring, rec, grants,
                  allowed, heard, faults, wanted>>
  BY DEF R!Lapse, R!radioVars
<1>3. /\ scan' \in ScanType /\ scan'.run = scan.run /\ scan'.stop = scan.stop
      /\ scan'.pc = scan.pc /\ scan'.armed = scan.armed /\ scan'.home = scan.home
      /\ scan'.alone = scan.alone /\ scan'.stamp = scan.stamp /\ scan'.mark = scan.mark
  BY DEF RecorderInv, ScanTyped, ScanType, R!Lapse
<1>4. ScanTyped'
  BY <1>2, <1>3 DEF RecorderInv, ScanTyped
<1>5. Shared'
  BY <1>2, <1>3 DEF RecorderInv, Shared
<1>6. GoesThere' /\ IsThere'
  BY <1>2, <1>3 DEF RecorderInv, GoesThere, IsThere, Dwells
<1> QED
  BY <1>1, <1>4, <1>5, <1>6 DEF RecorderInv

(* A clip of the n newest samples of the dwell is one run, heard on the     *)
(* channel.                                                                 *)
LEMMA ClipIs ==
    ASSUME RingOK, AudioTyped, ScanTyped, RingHolds, NEW n \in Nat, n > 0,
           n = R!Least(ring.len, ring.total - scan.mark)
    PROVE  /\ R!Unbroken(R!Take(ring, n))
           /\ (\A k \in 1..ring.len :
                   k <= ring.total - scan.mark => heard[Len(heard) - k + 1] = scan.stamp)
                => R!HeardAt(R!Take(ring, n), scan.stamp)
<1>0. ring \in RingType /\ ring.len \in Nat /\ ring.total \in Nat /\ scan.mark \in Nat
      /\ Len(heard) \in Nat
  BY DEF AudioTyped, ScanTyped, RingType, ScanType, RingOK
<1>1. n \in 0..ring.len /\ n <= ring.len /\ n <= ring.total - scan.mark /\ ring.len > 0
  BY <1>0 DEF R!Least
<1>2. ring.buf # None /\ Newest(ring, Len(heard)) /\ ring.len <= Len(heard)
  BY <1>1 DEF RingHolds, Newest
<1>3. PICK T : T = R!Take(ring, n)
  OBVIOUS
<1>4. /\ T \in Seq(Nat) /\ Len(T) = n /\ R!Unbroken(T)
      /\ \A i \in 1..n : T[i] = Len(heard) - n + i
  <2>1. RingOK /\ ring \in RingType /\ Len(heard) \in Nat /\ Newest(ring, Len(heard))
        /\ n \in 0..ring.len /\ ring.buf # None
    BY <1>0, <1>1, <1>2
  <2>2. /\ R!Take(ring, n) \in Seq(Nat) /\ Len(R!Take(ring, n)) = n
        /\ \A i \in 1..n : R!Take(ring, n)[i] = Len(heard) - n + i
        /\ R!Unbroken(R!Take(ring, n))
    BY ONLY <2>1, TakeIs, Zenon
  <2> QED
    BY <1>3, <2>2, Zenon
<1>5. ASSUME \A k \in 1..ring.len :
                 k <= ring.total - scan.mark => heard[Len(heard) - k + 1] = scan.stamp
      PROVE  R!HeardAt(T, scan.stamp)
  <2> SUFFICES ASSUME NEW i \in 1..n PROVE T[i] # 0 /\ heard[T[i]] = scan.stamp
    <3>1. DOMAIN T = 1..n
      BY <1>4
    <3> QED
      BY <3>1 DEF R!HeardAt
  <2>1. PICK k : k = n - i + 1
    OBVIOUS
  <2>2. /\ k \in 1..ring.len /\ k <= ring.total - scan.mark
        /\ Len(heard) - k + 1 = Len(heard) - n + i /\ Len(heard) - n + i # 0
    <3>1. i \in Nat /\ 1 <= i /\ i <= n
      OBVIOUS
    <3>2. k \in Nat /\ 1 <= k /\ k <= n /\ n <= Len(heard)
      BY <1>0, <1>1, <1>2, <2>1, <3>1
    <3>3. k \in 1..ring.len /\ k <= ring.total - scan.mark
      BY <1>0, <1>1, <3>2
    <3>4. Len(heard) - k + 1 = Len(heard) - n + i /\ Len(heard) - n + i # 0
      BY <1>0, <2>1, <3>1, <3>2
    <3> QED
      BY <3>3, <3>4
  <2>3. heard[Len(heard) - k + 1] = scan.stamp
    BY <1>5, <2>2, Zenon
  <2>4. T[i] = Len(heard) - n + i
    BY <1>4
  <2> QED
    BY <2>2, <2>3, <2>4, Zenon
<1> QED
  BY <1>3, <1>4, <1>5

LEMMA CaptureStep == ASSUME RingOK, RecorderInv, R!Capture PROVE RecorderInv'
<1>0. AudioTyped /\ ScanTyped /\ Shared /\ RingHolds /\ IsThere /\ Written
  BY DEF RecorderInv
<1>1. RadioTyped' /\ AudioTyped' /\ RingHolds' /\ RecHolds'
  BY Steady DEF RecorderInv, R!Capture, R!radioVars
<1>2. PICK n : n = R!Least(ring.len, ring.total - scan.mark)
  OBVIOUS
<1>3. PICK keep : keep = (scan.armed /\ ~scan.lapsed /\ pi # None /\ pi \notin scan.seen
                            /\ n >= MinTake)
  OBVIOUS
<1>4. /\ scan.pc = "hold"
      /\ IF keep
         THEN /\ R!Wav(R!Take(ring, n), IF scan.alone /\ ~R!HeardAt(R!Take(ring, n), scan.stamp)
                                        THEN {"misnamed"} ELSE {})
              /\ scan' = [scan EXCEPT !.pc = "next", !.seen = @ \cup {pi}]
         ELSE scan' = [scan EXCEPT !.pc = "next"] /\ faults' = faults
  BY <1>2, <1>3, Zenon DEF R!Capture, R!Goto
<1>5. UNCHANGED <<open, tunes, rig, echo, curVfo, pi, audioOn, silent, preOn, ring, rec, grants,
                  allowed, heard, wanted, left>>
  BY DEF R!Capture, R!radioVars
<1>6. /\ scan' \in ScanType /\ scan'.run = scan.run /\ scan'.stop = scan.stop
      /\ scan'.pc = "next" /\ scan'.armed = scan.armed /\ scan'.home = scan.home
  <2>1. CASE keep
    <3>1. PICK p : p = scan.seen \cup {pi}
      OBVIOUS
    <3>2. p \in SUBSET {Stations[f] : f \in Freq}
      BY <1>0, <1>3, <2>1, <3>1 DEF ScanTyped, ScanType
    <3>3. scan' = [scan EXCEPT !.pc = "next", !.seen = p]
      BY <1>4, <2>1, <3>1
    <3> QED
      BY <1>0, <3>2, <3>3 DEF ScanTyped, ScanType
  <2>2. CASE ~keep
    BY <1>0, <1>4, <2>2 DEF ScanTyped, ScanType
  <2> QED
    BY <2>1, <2>2
<1>7. ScanTyped'
  BY <1>0, <1>5, <1>6 DEF ScanTyped
<1>8. Shared'
  BY <1>0, <1>4, <1>5, <1>6 DEF Shared
<1>9. GoesThere' /\ IsThere'
  BY <1>6 DEF GoesThere, IsThere, Dwells
<1>10. Written'
  <2>1. CASE keep
    <3>1. n \in Nat /\ n > 0
      <4>1. ring.len \in Nat /\ ring.total \in Nat /\ scan.mark \in Nat /\ MinTake \in Nat \ {0}
        BY <1>0 DEF AudioTyped, ScanTyped, RingType, ScanType, RingOK
      <4>2. n \in Int
        BY <1>2, <4>1 DEF R!Least
      <4>3. n >= MinTake
        BY <1>3, <2>1
      <4> QED
        BY <4>1, <4>2, <4>3
    <3>2. /\ R!Unbroken(R!Take(ring, n))
          /\ (\A k \in 1..ring.len :
                  k <= ring.total - scan.mark => heard[Len(heard) - k + 1] = scan.stamp)
               => R!HeardAt(R!Take(ring, n), scan.stamp)
      BY <1>0, <1>2, <3>1, ClipIs, Zenon
    <3>3. SettleCovers /\ scan.alone => R!HeardAt(R!Take(ring, n), scan.stamp)
      BY <1>0, <1>3, <1>4, <2>1, <3>2 DEF IsThere, Dwells
    <3>4. PICK m : m = IF scan.alone /\ ~R!HeardAt(R!Take(ring, n), scan.stamp)
                       THEN {"misnamed"} ELSE {}
      OBVIOUS
    <3>5. faults' = faults \cup m
      BY <1>4, <2>1, <3>2, <3>4 DEF R!Wav
    <3>6. "broken" \notin m /\ (SettleCovers => "misnamed" \notin m)
      BY <3>3, <3>4
    <3> QED
      BY <1>0, <3>5, <3>6 DEF Written, FilesUnbroken, ClipsNamed
  <2>2. CASE ~keep
    BY <1>0, <1>4, <2>2, Steady
  <2> QED
    BY <2>1, <2>2
<1> QED
  BY <1>1, <1>7, <1>8, <1>9, <1>10 DEF RecorderInv

LEMMA ScanEndStep == ASSUME RingOK, RecorderInv, R!ScanEnd PROVE RecorderInv'
<1>0. /\ RadioTyped /\ AudioTyped /\ ScanTyped /\ Shared /\ RingHolds /\ RecHolds
      /\ ring \in RingType /\ ring.len \in Nat /\ scan.run /\ ~rec.on /\ scan.home \in Freq
  <2>1. /\ RadioTyped /\ AudioTyped /\ ScanTyped /\ Shared /\ RingHolds /\ RecHolds
    BY DEF RecorderInv
  <2>2. ring \in RingType /\ ring.len \in Nat
    BY <2>1 DEF AudioTyped, RingType, RingOK
  <2>3. scan.run /\ ~rec.on /\ scan.home \in Freq
    <3>1. scan.pc = "next"
      BY DEF R!ScanEnd
    <3> QED
      BY <2>1, <3>1 DEF Shared
  <2> QED
    BY <2>1, <2>2, <2>3
<1>1. Written'
  BY Steady DEF RecorderInv, R!ScanEnd, R!ghostVars
<1>2. /\ scan' = R!NoScan
      /\ silent' = silent \ {"scan"}
      /\ audioOn' = (audioOn /\ "scan" \notin silent)
      /\ tunes' = IF open THEN Append(tunes, scan.home) ELSE tunes
      /\ UNCHANGED <<open, rig, echo, curVfo, pi, preOn, rec, allowed, heard, wanted>>
  BY DEF R!ScanEnd, R!Disarm, R!ghostVars
<1>3. PICK r : r = IF "scan" \in silent THEN R!Drop(ring) ELSE ring
  OBVIOUS
<1>4. ring' = IF preOn THEN r ELSE R!Release(r)
  BY <1>3, Zenon DEF R!ScanEnd, R!Disarm
<1>5. r \in RingType /\ r.buf = ring.buf /\ (r.len = 0 \/ ("scan" \notin silent /\ r = ring))
  BY <1>0, <1>3, Emptied
<1>6. /\ ring' \in RingType /\ (ring'.buf = None) = ~preOn
      /\ ring'.len = 0 \/ ("scan" \notin silent /\ ring' = ring)
  <2>1. CASE preOn
    BY <1>0, <1>4, <1>5, <2>1 DEF Shared, R!Live
  <2>2. CASE ~preOn
    <3>1. ring' = R!Release(r)
      BY <1>4, <2>2
    <3> QED
      BY <1>5, <2>2, <3>1, GivenBack
  <2> QED
    BY <2>1, <2>2
<1>7. /\ scan' \in ScanType /\ scan'.run = FALSE /\ scan'.pc = "idle" /\ scan'.armed = FALSE
      /\ scan'.stop = FALSE
  <2>1. {} \in SUBSET {Stations[f] : f \in Freq} /\ None \in Freq \cup {None} /\ <<>> \in Seq(Freq)
    OBVIOUS
  <2> QED
    BY <1>2, <2>1 DEF R!NoScan, ScanType
<1>8. RadioTyped'
  <2>1. Append(tunes, scan.home) \in Seq(Freq)
    BY <1>0 DEF RadioTyped
  <2> QED
    BY <1>0, <1>2, <2>1 DEF RadioTyped
<1>9. AudioTyped' /\ ScanTyped'
  BY <1>0, <1>2, <1>6, <1>7 DEF AudioTyped, ScanTyped
<1>10. Shared'
  BY <1>0, <1>2, <1>6, <1>7 DEF Shared, R!Live
<1>11. RingHolds' /\ RecHolds'
  <2>1. RecHolds'
    BY <1>0, <1>2 DEF RecHolds
  <2>2. CASE ring'.len = 0
    BY <2>1, <2>2 DEF RingHolds
  <2>3. CASE "scan" \notin silent /\ ring' = ring
    BY <1>0, <1>2, <2>1, <2>3 DEF RingHolds
  <2> QED
    BY <1>6, <2>1, <2>2, <2>3
<1>12. GoesThere' /\ IsThere'
  BY <1>7 DEF GoesThere, IsThere, Dwells
<1> QED
  BY <1>1, <1>8, <1>9, <1>10, <1>11, <1>12 DEF RecorderInv

LEMMA RecorderInit == ASSUME RingOK, R!Init PROVE RecorderInv
<1>0. /\ <<>> \in Seq(Freq) /\ <<>> \in Seq(Nat) /\ <<>> \in Seq(Freq \cup {None})
      /\ None \in Freq \cup {None} /\ {} \in SUBSET {Stations[f] : f \in Freq}
      /\ 0 \in 0..(Cap - 1) /\ 0 \in 0..Cap
  BY DEF RingOK
<1>1. RadioTyped
  BY <1>0 DEF R!Init, RadioTyped
<1>2. ring \in RingType /\ ring.len = 0 /\ ring.buf = None
  BY <1>0 DEF R!Init, RingType
<1>3. rec \in RecType /\ rec.on = FALSE
  BY <1>0 DEF R!Init, R!NoRec, RecType
<1>4. AudioTyped
  BY <1>0, <1>2, <1>3 DEF R!Init, AudioTyped
<1>5. scan \in ScanType /\ scan.run = FALSE /\ scan.pc = "idle" /\ scan.armed = FALSE
  BY <1>0 DEF R!Init, R!NoScan, ScanType
<1>6. ScanTyped
  BY <1>5, RingOK DEF R!Init, ScanTyped, RingOK
<1>7. Shared
  BY <1>2, <1>3, <1>5 DEF R!Init, Shared, R!Live
<1>8. RingHolds /\ RecHolds /\ GoesThere /\ IsThere
  BY <1>2, <1>3, <1>5 DEF RingHolds, RecHolds, GoesThere, IsThere, Dwells
<1>9. Written
  BY DEF R!Init, Written, FilesUnbroken, ClipsNamed
<1> QED
  BY <1>1, <1>4, <1>6, <1>7, <1>8, <1>9 DEF RecorderInv

(* Every step keeps the invariant.                                          *)
LEMMA RecorderNext == ASSUME RingOK, RecorderInv, [R!Next]_R!vars PROVE RecorderInv'
<1>1. CASE R!Next
  <2>1. ASSUME NEW f \in Freq, R!Tune(f) PROVE RecorderInv'
    BY <2>1, TuneStep, Zenon
  <2>2. ASSUME NEW n \in Sizes, R!Frame(n) PROVE RecorderInv'
    BY <2>2, FrameStep, Zenon
  <2>3. CASE R!User
    BY <2>3, PressAudioStep, PressPreStep, PressRecordStep, PressStopStep, PressSaveStep,
       PressStopScanStep, ConnectStep, Zenon DEF R!User
  <2>4. CASE R!Scanning
    BY <2>4, ScanStartStep, GrantStep, ScanTuneStep, SettledStep, VerdictStep, CaptureStep,
       LapseStep, ScanEndStep, Zenon DEF R!Scanning
  <2>5. CASE R!Radio \/ R!Echo \/ R!Decode \/ R!Lost
    BY <2>5, RadioStep, EchoStep, DecodeStep, LostStep, Zenon
  <2> QED
    BY <1>1, <2>1, <2>2, <2>3, <2>4, <2>5, Zenon DEF R!Next
<1>2. CASE UNCHANGED R!vars
  BY <1>2, Steady DEF R!vars, R!radioVars, R!pageVars, R!ghostVars, RecorderInv
<1> QED
  BY <1>1, <1>2

(* And so it always holds.                                                  *)
LEMMA RecorderHolds ==
    ASSUME R!ConstantsOK
    PROVE  R!Spec => []RecorderInv
<1>0. RingOK
  BY RingConstants
<1>1. R!Init => RecorderInv
  BY <1>0, RecorderInit
<1>2. RecorderInv /\ [R!Next]_R!vars => RecorderInv'
  BY <1>0, RecorderNext
<1> QED
  BY <1>1, <1>2, PTL DEF R!Spec

(* The types, and that nothing is held for nobody: preRelease has let the   *)
(* ring go unless the box is ticked or a scan keeps clips, and recStop and  *)
(* srDisarm have switched off every stream they had switched on.            *)
THEOREM RecorderType ==
    ASSUME R!ConstantsOK
    PROVE  R!Spec => []R!TypeOK
<1>1. RecorderInv => R!TypeOK
  BY DEF RecorderInv, RadioTyped, AudioTyped, ScanTyped, Shared, RingType, R!TypeOK
<1> QED
  BY <1>1, RecorderHolds, PTL

(* Every file of recStop, preSaveLast and srCapture is a run of samples as  *)
(* they were heard, for a ring and frames of any size.                      *)
THEOREM FilesWhole ==
    ASSUME R!ConstantsOK
    PROVE  R!Spec => []FilesUnbroken
<1>1. RecorderInv => FilesUnbroken
  BY DEF RecorderInv, Written
<1> QED
  BY <1>1, RecorderHolds, PTL

(* A clip of srCapture holds its channel only, if nobody else tuned and the *)
(* settle time outlasts the radio's move; without that it may not.          *)
THEOREM ClipsRight ==
    ASSUME R!ConstantsOK, SettleCovers
    PROVE  R!Spec => []ClipsNamed
<1>1. RecorderInv => ClipsNamed
  BY DEF RecorderInv, Written
<1> QED
  BY <1>1, RecorderHolds, PTL
=============================================================================
