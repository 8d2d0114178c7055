--------------------------- MODULE MetaHubProofs ---------------------------
(***************************************************************************)
(* Theorems about MetaHub, for any number of Bridges, sources, frequencies *)
(* moves, swaps, failed reads and faults.                                  *)
(*                                                                         *)
(* That a Bridge at rest shows the newest reading is not inductive: it     *)
(* speaks of a Bridge only once everybody is done with it.  The invariant  *)
(* follows the gate "streamed" and the client set tick copied.  Whoever is *)
(* past its handler has passed the gate or is in the copy (NotSkipped);    *)
(* whoever has passed the gate is still in the copy, shows the reading, or *)
(* is about to be written to by its own handler (ServedOrOwed); and what   *)
(* the tick pushes is what it stored (PushesStored).                       *)
(***************************************************************************)
EXTENDS MetaHub, TLAPS

------------------------------------------------------------------------------
(* The inductive invariant.                                                 *)

(* A connection nobody opened yet is registered nowhere.                    *)
Untouched ==
    \A c \in Client : pc[c] = "off" => c \notin clients /\ ~streamed[c] /\ c \notin poll.todo

(* From the store to the last client, the tick pushes the stored reading,   *)
(* and the client it writes to has passed the gate.                         *)
PushesStored ==
    /\ poll.at \in {"gate"} \cup Pushing => have /\ poll.hz = cur
    /\ poll.at \in Pushing => poll.now \in poll.todo /\ streamed[poll.now]
    /\ have => cur \in Freq

(* A Bridge past its handler has passed the gate, or the tick serves it.    *)
NotSkipped ==
    \A c \in clients : have /\ pc[c] \in {"first", "loop", "set"} => streamed[c] \/ Owed(c)

(* A Bridge that passed the gate is still to be served, shows the newest    *)
(* reading, or its handler is about to write the older one it holds.        *)
ServedOrOwed ==
    \A c \in clients :
        have /\ streamed[c] /\ link[c] = "up" /\ c \notin late =>
            Owed(c) \/ view[c].vfo = cur \/ pc[c] = "first"

Served == Untouched /\ PushesStored /\ NotSkipped /\ ServedOrOwed

Inv == TypeOK /\ Served

USE DEF hubVars, srcVars, connVars, Handling, Pushing

------------------------------------------------------------------------------
(* TypeOK in four parts, of which most steps disturb one or two.            *)

View == [hello : BOOLEAN, ctl : BOOLEAN, vfo : Freq \cup {None}, station : Freq \cup {None}]

PollTyped ==
    /\ poll \in [at : {"idle", "read", "clear", "store", "gate"} \cup Pushing,
                 src : Sources \cup {None}, hz : Freq \cup {None}, changed : BOOLEAN,
                 todo : SUBSET Client, now : Client \cup {None}]
    /\ (poll.at = "idle") = (poll.src = None)
    /\ (poll.at \in {"idle", "read"}) = (poll.hz = None)
    /\ (poll.at \in Pushing) = (poll.now # None)

ConnTyped ==
    /\ pc \in [Client -> {"off", "loop", "set", "gone"} \cup Handling]
    /\ held \in [Client -> Sources \cup {None}]
    /\ greet \in [Client -> Freq \cup {None}]
    /\ \A c \in Client : (pc[c] \in {"claim", "first"}) = (greet[c] # None)
    /\ \A c \in Client : pc[c] = "set" => held[c] \in Setters

HubTyped ==
    /\ clients \subseteq Client
    /\ cur \in Freq \cup {0} /\ last \in Freq \cup {0} /\ have \in BOOLEAN
    /\ src \in Sources \cup {None} /\ lastErr \in BOOLEAN
    /\ streamed \in [Client -> BOOLEAN]
    /\ dial \in [Sources -> Freq]
    /\ link \in [Client -> {"up", "stalled", "closed"}]
    /\ late \subseteq Client
    /\ used \in [moves : 0..MaxMoves, swaps : 0..MaxSwaps, errors : 0..MaxErrors,
                 faults : 0..MaxFaults]

ViewTyped == view \in [Client -> View]

Parts == PollTyped /\ ConnTyped /\ HubTyped /\ ViewTyped

(* The four parts are the whole of it.                                      *)
LEMMA TypeSplit == TypeOK <=> Parts
  BY DEF TypeOK, Parts, PollTyped, ConnTyped, HubTyped, ViewTyped, View

------------------------------------------------------------------------------
(* Lemmas about the operators of MetaHub.                                   *)

(* Delivering a view keeps the views typed, and changes no other Bridge's.  *)
LEMMA DeliverTyped ==
    ASSUME ViewTyped, NEW c \in Client, NEW v \in View, Deliver(c, v)
    PROVE  ViewTyped'
  BY DEF ViewTyped, Deliver

(* What a frame makes of a view is a view.                                  *)
LEMMA FramesTyped ==
    ASSUME NEW v \in View
    PROVE  /\ \A ctl \in BOOLEAN : OnHello(v, ctl) \in View
           /\ \A f \in Freq : OnStation(v, f) \in View /\ OnMeta(v, f) \in View
  BY DEF View, OnHello, OnStation, OnMeta

(* Serving a client leaves the poll loop's record typed, and that client    *)
(* out of the copy.                                                         *)
LEMMA NextClientTyped ==
    ASSUME PollTyped, poll.at \in Pushing, NextClient
    PROVE  PollTyped'
<1>1. CASE poll.todo = {poll.now}
  BY <1>1, ConstantsOK DEF PollTyped, NextClient, Idle
<1>2. CASE poll.todo # {poll.now}
  <2>1. /\ poll'.at = "gate" /\ poll'.src = poll.src /\ poll'.hz = poll.hz
        /\ poll'.changed = poll.changed /\ poll'.todo = poll.todo \ {poll.now}
        /\ poll'.now = None
    BY <1>2 DEF PollTyped, NextClient
  <2>2. poll' = [at |-> "gate", src |-> poll.src, hz |-> poll.hz, changed |-> poll.changed,
                 todo |-> poll.todo \ {poll.now}, now |-> None]
    BY <1>2 DEF PollTyped, NextClient
  <2> QED
    BY <2>1, <2>2, ConstantsOK DEF PollTyped
<1> QED
  BY <1>1, <1>2

------------------------------------------------------------------------------
(* Initially every variable has its type and nobody is connected.           *)
LEMMA InvInit == Init => Inv
<1> SUFFICES ASSUME Init PROVE Inv
  OBVIOUS
<1> USE ConstantsOK DEF Init, Idle
<1>1. TypeOK
  <2>1. PollTyped
    BY DEF PollTyped
  <2>2. ConnTyped
    BY DEF ConnTyped
  <2>3. HubTyped
    <3>1. MaxMoves \in Nat /\ MaxSwaps \in Nat /\ MaxErrors \in Nat /\ MaxFaults \in Nat
      OBVIOUS
    <3>2. used \in [moves : 0..MaxMoves, swaps : 0..MaxSwaps, errors : 0..MaxErrors,
                   faults : 0..MaxFaults]
      BY <3>1
    <3>3. dial \in [Sources -> Freq] /\ src \in Sources \cup {None}
      OBVIOUS
    <3> HIDE ConstantsOK
    <3> QED
      BY <3>2, <3>3 DEF HubTyped
  <2>4. ViewTyped
    BY DEF ViewTyped, View
  <2> QED
    BY <2>1, <2>2, <2>3, <2>4, TypeSplit DEF Parts
<1>2. Served
  BY DEF Served, Untouched, PushesStored, NotSkipped, ServedOrOwed
<1> QED
  BY <1>1, <1>2 DEF Inv

(* Every step keeps the types.  ReadCur needs that a stored reading is a    *)
(* frequency (PushesStored).                                                *)
LEMMA TypeStep == Inv /\ [Next]_vars => TypeOK'
<1> SUFFICES ASSUME Inv, [Next]_vars PROVE TypeOK'
  OBVIOUS
<1>0. PollTyped /\ ConnTyped /\ HubTyped /\ ViewTyped
  BY TypeSplit DEF Inv, Parts
<1>a. /\ poll.at \in {"idle", "read"} => poll.hz = None
      /\ poll.at \notin Pushing => poll.now = None
      /\ poll.at = "idle" <=> poll.src = None
  BY <1>0 DEF PollTyped
<1> USE ConstantsOK DEF Goto, Spend
<1>1. ASSUME PollTake PROVE Parts'
  <2>1. PollTyped'
    <3>1. CASE src = None
      BY <1>0, <1>1, <3>1 DEF PollTake, PollTyped
    <3>2. CASE ~(src = None)
      <4>1. poll' = [at |-> "read", src |-> src, hz |-> poll.hz,
                   changed |-> poll.changed, todo |-> poll.todo, now |-> poll.now]
        BY <1>0, <1>1, <3>2 DEF PollTake, PollTyped
      <4> QED
        BY <1>0, <1>a, <1>1, <3>2, <4>1 DEF PollTake, PollTyped, HubTyped
    <3> QED
      BY <3>1, <3>2
  <2>2. (ConnTyped /\ HubTyped /\ ViewTyped)'
    BY <1>0, <1>1 DEF PollTake, ConnTyped, HubTyped, ViewTyped
  <2> QED
    BY <2>1, <2>2 DEF Parts
<1>2. ASSUME PollRead PROVE Parts'
  <2>1. PollTyped'
    <3>1. poll' = [at |-> "clear", src |-> poll.src, hz |-> dial[poll.src],
                   changed |-> poll.changed, todo |-> poll.todo, now |-> poll.now]
      BY <1>0, <1>2 DEF PollRead, PollTyped
    <3>2. dial[poll.src] \in Freq /\ dial[poll.src] # None
      BY <1>0, <1>2 DEF PollRead, PollTyped, HubTyped
    <3>3. /\ poll.src \in Sources /\ poll.changed \in BOOLEAN /\ poll.todo \in SUBSET Client
          /\ poll.now = None
      BY <1>0, <1>a, <1>2 DEF PollRead, PollTyped
    <3> QED
      BY <3>1, <3>2, <3>3 DEF PollTyped
  <2>2. HubTyped'
    BY <1>0, <1>2 DEF PollRead, HubTyped
  <2>3. (ConnTyped /\ ViewTyped)'
    BY <1>0, <1>2 DEF PollRead, ConnTyped, ViewTyped
  <2> QED
    BY <2>1, <2>2, <2>3 DEF Parts
<1>3. ASSUME PollFails PROVE Parts'
  <2>1. PollTyped'
    BY <1>0, <1>3 DEF PollFails, PollTyped, Idle, HubTyped
  <2>2. HubTyped'
    BY <1>0, <1>3 DEF PollFails, HubTyped
  <2>3. (ConnTyped /\ ViewTyped)'
    BY <1>0, <1>3 DEF PollFails, ConnTyped, ViewTyped
  <2> QED
    BY <2>1, <2>2, <2>3 DEF Parts
<1>4. ASSUME ClearError PROVE Parts'
  <2>1. PollTyped'
    BY <1>0, <1>4 DEF ClearError, PollTyped, Idle, HubTyped
  <2>2. HubTyped'
    BY <1>0, <1>4 DEF ClearError, HubTyped
  <2>3. (ConnTyped /\ ViewTyped)'
    BY <1>0, <1>4 DEF ClearError, ConnTyped, ViewTyped
  <2> QED
    BY <2>1, <2>2, <2>3 DEF Parts
<1>5. ASSUME TickStore PROVE Parts'
  <2>1. PollTyped'
    <3>1. CASE clients = {}
      BY <1>0, <1>5, <3>1 DEF TickStore, PollTyped, Idle
    <3>2. CASE ~(clients = {})
      <4>1. poll' = [at |-> "gate", src |-> poll.src, hz |-> poll.hz,
                   changed |-> (~have \/ Abs(poll.hz - last) >= StationHz),
                   todo |-> clients, now |-> poll.now]
        BY <1>0, <1>5, <3>2 DEF TickStore, PollTyped
      <4>2. /\ poll.src \in Sources /\ poll.hz \in Freq /\ poll.now = None
            /\ clients \in SUBSET Client
            /\ (~have \/ Abs(poll.hz - last) >= StationHz) \in BOOLEAN
        BY <1>0, <1>a, <1>5 DEF TickStore, PollTyped, HubTyped
      <4> QED
        BY <4>1, <4>2 DEF PollTyped
    <3> QED
      BY <3>1, <3>2
  <2>2. HubTyped'
    BY <1>0, <1>5 DEF TickStore, HubTyped, PollTyped
  <2>3. (ConnTyped /\ ViewTyped)'
    BY <1>0, <1>5 DEF TickStore, ConnTyped, ViewTyped
  <2> QED
    BY <2>1, <2>2, <2>3 DEF Parts
<1>6. ASSUME NEW c \in Client, TickGate(c) PROVE Parts'
  <2>1. PollTyped'
    <3>1. poll' = [at |-> poll'.at, src |-> poll.src, hz |-> poll.hz,
                   changed |-> poll.changed, todo |-> poll.todo, now |-> c]
      BY <1>0, <1>6 DEF TickGate, PollTyped
    <3> QED
      BY <1>0, <1>a, <1>6, <3>1 DEF TickGate, PollTyped, HubTyped
  <2>2. HubTyped'
    BY <1>0, <1>6 DEF TickGate, HubTyped, PollTyped
  <2>3. (ConnTyped /\ ViewTyped)'
    BY <1>0, <1>6 DEF TickGate, ConnTyped, ViewTyped
  <2> QED
    BY <2>1, <2>2, <2>3 DEF Parts
<1>7. ASSUME TickStream PROVE Parts'
  <2>1. PollTyped'
    BY <1>0, <1>7, NextClientTyped DEF TickStream, HubTyped
  <2>2. ViewTyped'
    BY <1>0, <1>7, DeliverTyped, FramesTyped DEF TickStream, ViewTyped, PollTyped
  <2>3. (ConnTyped /\ HubTyped)'
    BY <1>0, <1>7 DEF TickStream, ConnTyped, HubTyped
  <2> QED
    BY <2>1, <2>2, <2>3 DEF Parts
<1>8. ASSUME TickTune PROVE Parts'
  <2>1. PollTyped'
    BY <1>0, <1>8 DEF TickTune, PollTyped, Idle, HubTyped
  <2>2. ViewTyped'
    BY <1>0, <1>8, DeliverTyped, FramesTyped DEF TickTune, ViewTyped, PollTyped
  <2>3. (ConnTyped /\ HubTyped)'
    BY <1>0, <1>8 DEF TickTune, ConnTyped, HubTyped
  <2> QED
    BY <2>1, <2>2, <2>3 DEF Parts
<1>9. ASSUME TickMeta PROVE Parts'
  <2>1. PollTyped'
    BY <1>0, <1>9, NextClientTyped DEF TickMeta, HubTyped
  <2>2. ViewTyped'
    BY <1>0, <1>9, DeliverTyped, FramesTyped DEF TickMeta, ViewTyped, PollTyped
  <2>3. (ConnTyped /\ HubTyped)'
    BY <1>0, <1>9 DEF TickMeta, ConnTyped, HubTyped
  <2> QED
    BY <2>1, <2>2, <2>3 DEF Parts
<1>10. ASSUME NEW c \in Client, Connect(c) PROVE Parts'
  <2>1. ConnTyped'
    BY <1>0, <1>10 DEF Connect, ConnTyped, HubTyped
  <2>2. HubTyped'
    BY <1>0, <1>10 DEF Connect, HubTyped
  <2>3. (PollTyped /\ ViewTyped)'
    BY <1>0, <1>10 DEF Connect, PollTyped, ViewTyped
  <2> QED
    BY <2>1, <2>2, <2>3 DEF Parts
<1>11. ASSUME NEW c \in Client, ReadSource(c) PROVE Parts'
  <2>1. ConnTyped'
    BY <1>0, <1>11 DEF ReadSource, ConnTyped, HubTyped
  <2>2. (PollTyped /\ HubTyped /\ ViewTyped)'
    BY <1>0, <1>11 DEF ReadSource, PollTyped, HubTyped, ViewTyped
  <2> QED
    BY <2>1, <2>2 DEF Parts
<1>12. ASSUME NEW c \in Client, SendHello(c) PROVE Parts'
  <2>1. ConnTyped'
    BY <1>0, <1>12 DEF SendHello, ConnTyped, HubTyped
  <2>2. ViewTyped'
    <3>1. view[c] \in View /\ (held[c] \in Setters) \in BOOLEAN
      BY <1>0 DEF ViewTyped
    <3>2. OnHello(view[c], held[c] \in Setters) \in View
      BY <3>1, FramesTyped
    <3> QED
      BY <1>0, <1>12, <3>2, DeliverTyped DEF SendHello
  <2>3. (PollTyped /\ HubTyped)'
    BY <1>0, <1>12 DEF SendHello, PollTyped, HubTyped
  <2> QED
    BY <2>1, <2>2, <2>3 DEF Parts
<1>13. ASSUME NEW c \in Client, ReadCur(c) PROVE Parts'
  <2>1. ConnTyped'
    BY <1>0, <1>13 DEF ReadCur, ConnTyped, HubTyped, Inv, Served, PushesStored
  <2>2. (PollTyped /\ HubTyped /\ ViewTyped)'
    BY <1>0, <1>13 DEF ReadCur, PollTyped, HubTyped, ViewTyped
  <2> QED
    BY <2>1, <2>2 DEF Parts
<1>14. ASSUME NEW c \in Client, Claim(c) PROVE Parts'
  <2>1. ConnTyped'
    BY <1>0, <1>14 DEF Claim, ConnTyped, HubTyped
  <2>2. HubTyped'
    BY <1>0, <1>14 DEF Claim, HubTyped
  <2>3. (PollTyped /\ ViewTyped)'
    BY <1>0, <1>14 DEF Claim, PollTyped, ViewTyped
  <2> QED
    BY <2>1, <2>2, <2>3 DEF Parts
<1>15. ASSUME NEW c \in Client, SendFirst(c) PROVE Parts'
  <2>1. ConnTyped'
    BY <1>0, <1>15 DEF SendFirst, ConnTyped, HubTyped
  <2>2. HubTyped'
    BY <1>0, <1>15 DEF SendFirst, HubTyped
  <2>3. ViewTyped'
    BY <1>0, <1>15, DeliverTyped, FramesTyped DEF SendFirst, ViewTyped, ConnTyped
  <2>4. PollTyped'
    BY <1>0, <1>15 DEF SendFirst, PollTyped
  <2> QED
    BY <2>1, <2>2, <2>3, <2>4 DEF Parts
<1>16. ASSUME NEW c \in Client, ReceiveControl(c) PROVE Parts'
  <2>1. ConnTyped'
    BY <1>0, <1>16 DEF ReceiveControl, ConnTyped, HubTyped
  <2>2. HubTyped'
    BY <1>0, <1>16 DEF ReceiveControl, HubTyped
  <2>3. (PollTyped /\ ViewTyped)'
    BY <1>0, <1>16 DEF ReceiveControl, PollTyped, ViewTyped
  <2> QED
    BY <2>1, <2>2, <2>3 DEF Parts
<1>17. ASSUME NEW c \in Client, Set(c) PROVE Parts'
  <2>1. ConnTyped'
    BY <1>0, <1>17 DEF Set, ConnTyped, HubTyped
  <2>2. HubTyped'
    BY <1>0, <1>17 DEF Set, HubTyped, ConnTyped
  <2>3. (PollTyped /\ ViewTyped)'
    BY <1>0, <1>17 DEF Set, PollTyped, ViewTyped
  <2> QED
    BY <2>1, <2>2, <2>3 DEF Parts
<1>18. ASSUME NEW c \in Client, Remove(c) PROVE Parts'
  <2>1. ConnTyped'
    BY <1>0, <1>18 DEF Remove, ConnTyped, HubTyped
  <2>2. HubTyped'
    BY <1>0, <1>18 DEF Remove, HubTyped
  <2>3. (PollTyped /\ ViewTyped)'
    BY <1>0, <1>18 DEF Remove, PollTyped, ViewTyped
  <2> QED
    BY <2>1, <2>2, <2>3 DEF Parts
<1>19. ASSUME NEW s \in Sources, Swap(s) PROVE Parts'
  <2>1. HubTyped'
    <3>1. src' \in Sources \cup {None} /\ lastErr' \in BOOLEAN
      BY <1>19 DEF Swap
    <3>2. used' \in [moves : 0..MaxMoves, swaps : 0..MaxSwaps, errors : 0..MaxErrors,
                    faults : 0..MaxFaults]
      BY <1>0, <1>19 DEF Swap, HubTyped
    <3> QED
      BY <1>0, <1>19, <3>1, <3>2 DEF Swap, HubTyped
  <2>2. (PollTyped /\ ConnTyped /\ ViewTyped)'
    BY <1>0, <1>19 DEF Swap, PollTyped, ConnTyped, ViewTyped
  <2> QED
    BY <2>1, <2>2 DEF Parts
<1>20. ASSUME NEW s \in Sources, NEW f \in Freq, TurnDial(s, f) PROVE Parts'
  <2>1. HubTyped'
    BY <1>0, <1>20 DEF TurnDial, HubTyped
  <2>2. (PollTyped /\ ConnTyped /\ ViewTyped)'
    BY <1>0, <1>20 DEF TurnDial, PollTyped, ConnTyped, ViewTyped
  <2> QED
    BY <2>1, <2>2 DEF Parts
<1>21. ASSUME NEW c \in Client, Fault(c) PROVE Parts'
  <2>1. HubTyped'
    BY <1>0, <1>21 DEF Fault, HubTyped
  <2>2. (PollTyped /\ ConnTyped /\ ViewTyped)'
    BY <1>0, <1>21 DEF Fault, PollTyped, ConnTyped, ViewTyped
  <2> QED
    BY <2>1, <2>2 DEF Parts
<1>22. ASSUME UNCHANGED vars PROVE Parts'
  BY <1>0, <1>22 DEF vars, Parts, PollTyped, ConnTyped, HubTyped, ViewTyped
<1> HIDE DEF Parts
<1>23. Parts'
  BY <1>1, <1>2, <1>3, <1>4, <1>5, <1>6, <1>7, <1>8, <1>9, <1>10, <1>11, <1>12, <1>13,
     <1>14, <1>15, <1>16, <1>17, <1>18, <1>19, <1>20, <1>21, <1>22
     DEF Next, Poll, Connection, Environment
<1> QED
  BY <1>23 DEF TypeOK, Parts, PollTyped, ConnTyped, HubTyped, ViewTyped, View

(* Every step keeps the rest.                                               *)
LEMMA ServedStep == Inv /\ [Next]_vars => Served'
<1> SUFFICES ASSUME Inv, [Next]_vars PROVE Served'
  OBVIOUS
<1> USE ConstantsOK DEF Inv, TypeOK, Goto, Spend, Idle
<1> USE DEF Served, Untouched, PushesStored, NotSkipped, ServedOrOwed, Owed
<1>1. ASSUME PollTake PROVE Served'
  BY <1>1 DEF PollTake
<1>2. ASSUME PollRead PROVE Served'
  BY <1>2 DEF PollRead
<1>3. ASSUME PollFails PROVE Served'
  BY <1>3 DEF PollFails
<1>4. ASSUME ClearError PROVE Served'
  BY <1>4 DEF ClearError
<1>5. ASSUME TickStore PROVE Served'
  BY <1>5 DEF TickStore
<1>6. ASSUME NEW c \in Client, TickGate(c) PROVE Served'
  BY <1>6 DEF TickGate
<1>7. ASSUME TickStream PROVE Served'
  <2>1. \A c \in Client : Owed(c)' = (Owed(c) /\ c # poll.now)
    BY <1>7 DEF TickStream, NextClient
  <2>2. \A c \in Client : view'[c].vfo = IF c = poll.now /\ link[c] = "up" THEN poll.hz
                                        ELSE view[c].vfo
    BY <1>7 DEF TickStream, Deliver, OnStation
  <2>3. /\ have' = have /\ cur' = cur /\ clients' = clients /\ streamed' = streamed
        /\ link' = link /\ late' = late /\ pc' = pc /\ poll.hz = cur
    BY <1>7 DEF TickStream
  <2>4. (Untouched /\ PushesStored)'
    BY <1>7 DEF TickStream, NextClient
  <2>5. (NotSkipped /\ ServedOrOwed)'
    BY <2>1, <2>2, <2>3
  <2> QED
    BY <2>4, <2>5
<1>8. ASSUME TickTune PROVE Served'
  BY <1>8 DEF TickTune, Deliver, OnStation
<1>9. ASSUME TickMeta PROVE Served'
  <2>1. \A c \in Client : Owed(c)' = (Owed(c) /\ c # poll.now)
    BY <1>9 DEF TickMeta, NextClient
  <2>2. \A c \in Client : view'[c].vfo = IF c = poll.now /\ link[c] = "up" THEN poll.hz
                                        ELSE view[c].vfo
    BY <1>9 DEF TickMeta, Deliver, OnMeta
  <2>3. /\ have' = have /\ cur' = cur /\ clients' = clients /\ streamed' = streamed
        /\ link' = link /\ late' = late /\ pc' = pc /\ poll.hz = cur
    BY <1>9 DEF TickMeta
  <2>4. (Untouched /\ PushesStored)'
    BY <1>9 DEF TickMeta, NextClient
  <2>5. (NotSkipped /\ ServedOrOwed)'
    BY <2>1, <2>2, <2>3
  <2> QED
    BY <2>4, <2>5
<1>10. ASSUME NEW c \in Client, Connect(c) PROVE Served'
  BY <1>10 DEF Connect
<1>11. ASSUME NEW c \in Client, ReadSource(c) PROVE Served'
  BY <1>11 DEF ReadSource
<1>12. ASSUME NEW c \in Client, SendHello(c) PROVE Served'
  BY <1>12 DEF SendHello, Deliver, OnHello
<1>13. ASSUME NEW c \in Client, ReadCur(c) PROVE Served'
  BY <1>13 DEF ReadCur
<1>14. ASSUME NEW c \in Client, Claim(c) PROVE Served'
  BY <1>14 DEF Claim
<1>15. ASSUME NEW c \in Client, SendFirst(c) PROVE Served'
  <2>1. \A d \in Client : d # c => view'[d] = view[d] /\ pc'[d] = pc[d]
    BY <1>15 DEF SendFirst, Deliver
  <2>2. /\ have' = have /\ cur' = cur /\ clients' = clients /\ streamed' = streamed
        /\ link' = link /\ late' = late \cup {c} /\ poll' = poll
    BY <1>15 DEF SendFirst
  <2>3. (Untouched /\ PushesStored)'
    BY <1>15 DEF SendFirst
  <2>4. NotSkipped'
    BY <1>15 DEF SendFirst
  <2>5. ServedOrOwed'
    BY <2>1, <2>2
  <2> QED
    BY <2>3, <2>4, <2>5
<1>16. ASSUME NEW c \in Client, ReceiveControl(c) PROVE Served'
  BY <1>16 DEF ReceiveControl
<1>17. ASSUME NEW c \in Client, Set(c) PROVE Served'
  BY <1>17 DEF Set
<1>18. ASSUME NEW c \in Client, Remove(c) PROVE Served'
  BY <1>18 DEF Remove
<1>19. ASSUME NEW s \in Sources, Swap(s) PROVE Served'
  BY <1>19 DEF Swap
<1>20. ASSUME NEW s \in Sources, NEW f \in Freq, TurnDial(s, f) PROVE Served'
  BY <1>20 DEF TurnDial
<1>21. ASSUME NEW c \in Client, Fault(c) PROVE Served'
  BY <1>21 DEF Fault
<1>22. ASSUME UNCHANGED vars PROVE Served'
  BY <1>22 DEF vars
<1> QED
  BY <1>1, <1>2, <1>3, <1>4, <1>5, <1>6, <1>7, <1>8, <1>9, <1>10, <1>11, <1>12, <1>13,
     <1>14, <1>15, <1>16, <1>17, <1>18, <1>19, <1>20, <1>21, <1>22
     DEF Next, Poll, Connection, Environment

------------------------------------------------------------------------------
(* The theorems.                                                            *)

(* The invariant holds in every reachable state.                            *)
LEMMA InvAlways == Spec => []Inv
<1>1. Inv /\ [Next]_vars => Inv'
  BY TypeStep, ServedStep DEF Inv
<1> QED
  BY InvInit, <1>1, PTL DEF Spec

(* Every variable keeps its type, and every local is live only where used.  *)
THEOREM TypeCorrect == Spec => []TypeOK
<1>1. Inv => TypeOK
  BY DEF Inv
<1> QED
  BY InvAlways, <1>1, PTL

(* helper/main.go tick and onConnect: a Bridge at rest shows the last       *)
(* reading of the poll loop, unless its greeting overtook that reading.     *)
THEOREM NewestShownAtRest == Spec => []RestShowsNewest
<1>1. Inv => RestShowsNewest
  BY DEF Inv, Served, TypeOK, NotSkipped, ServedOrOwed, RestShowsNewest, AtRest
<1> QED
  BY InvAlways, <1>1, PTL
=============================================================================
