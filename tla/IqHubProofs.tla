---------------------------- MODULE IqHubProofs ----------------------------
(***************************************************************************)
(* Theorems about IqHub for any number of connections, tunes, moves, drops *)
(* and faults: every variable keeps its type, the "streamed" gate never    *)
(* loses an announce, what a settled Bridge shows was not overtaken, and   *)
(* the lane implements the board of announces.                             *)
(*                                                                         *)
(* None of these is inductive.  What completes them: a connection that is  *)
(* not there yet is in nobody's client copy and has a closed gate          *)
(* (Untouched); a broadcast writes to a client of its copy (AtTarget); the *)
(* hub numbers its announces one by one (Numbered); whatever a goroutine   *)
(* is about to send is on the board and is the newest announce or was in   *)
(* flight when that was stored (CarriedFresh), and is not older than the   *)
(* Bridge it goes to (NeverBefore); and an open gate means that the Bridge *)
(* shows such an announce or that somebody still owes it one (GateKept).   *)
(***************************************************************************)
EXTENDS IqHub, FiniteSetTheorems, TLAPS

(* A connection that is not there yet is nobody's target.                   *)
Untouched ==
    \A c \in Client : pc[c] = "off" =>
        /\ c \notin clients
        /\ ~streamed[c]
        /\ \A p \in Process : c \notin todo[p]

(* A broadcast writes to a client of its copy.                              *)
AtTarget == \A p \in Process : at[p] # None => pc[p] = "send" /\ at[p] \in todo[p]

(* The hub numbers its announces one by one, and the last is fresh.         *)
Numbered ==
    /\ IsFiniteSet(posted) /\ Cardinality(posted) = Ver
    /\ \A a \in posted : a.n \in 1..Ver
    /\ last # None => last \in posted /\ last.n \in fresh

(* A goroutine holds an announce that was stored and is to be sent.         *)
Carries(p) == ann[p] # None /\ pc[p] \in {"control", "hello", "claim", "first", "send"}

(* What is about to be sent was posted and is not stale.                    *)
CarriedFresh == \A p \in Process : Carries(p) => ann[p] \in posted /\ ann[p].n \in fresh

(* Nor is it older than the newest announce when its target joined.         *)
NeverBefore ==
    /\ \A c \in Client : joined[c] <= Ver
    /\ \A c \in Client : Carries(c) /\ pc[c] # "send" => joined[c] <= ann[c].n
    /\ \A p \in Process : pc[p] = "send" => \A c \in todo[p] : joined[c] <= ann[p].n

(* The page of c shows an announce that is not stale.                       *)
ShowsFresh(c) == view[c].ann # None /\ view[c].ann.n \in fresh

(* An open gate means that such an announce is shown or on its way.         *)
GateKept ==
    \A c \in clients :
        haveStream /\ link[c] = "up" /\ streamed[c]
            => ShowsFresh(c) \/ Owed(c) \/ pc[c] = "first"

(* So it is, gate or not, once there is an announce.                        *)
FreshOrComing ==
    \A c \in clients :
        haveStream /\ link[c] = "up" => ShowsFresh(c) \/ Owed(c) \/ Greeting(c)

Marks == Untouched /\ AtTarget /\ Numbered /\ CarriedFresh /\ NeverBefore

Inv == TypeOK /\ Marks /\ GateKept /\ FreshOrComing

USE DEF Process, Announce, hubVars, localVars, ghostVars

(* What a Bridge adopts from a frame keeps the type of its view.            *)
LEMMA ViewTyped ==
    ASSUME NEW v \in View
    PROVE  /\ \A b \in BOOLEAN : OnHello(v, b) \in View
           /\ \A a \in Announce : OnStream(v, a) \in View
           /\ \A f \in Centre \cup {None} : OnMeta(v, f) \in View
BY DEF OnHello, OnStream, OnMeta, View

(* Type correctness is inductive.                                           *)
LEMMA TypeInit == Init => TypeOK
<1> SUFFICES ASSUME Init PROVE TypeOK
  OBVIOUS
<1> USE ConstantsOK DEF Init
<1>1. TypeHub
  BY DEF TypeHub
<1>2. TypeLocals
  BY DEF TypeLocals, Handling, Reading
<1>3. TypeWorld
  BY DEF TypeWorld, View
<1>4. Locals
  BY DEF Locals, Handling, Reading
<1> QED
  BY <1>1, <1>2, <1>3, <1>4 DEF TypeOK

(* Every step keeps the types: one action after the other.                  *)
LEMMA TypeStep == TypeOK /\ [Next]_vars => TypeOK'
<1> USE ConstantsOK DEF TypeOK, TypeHub, TypeLocals, TypeWorld, Locals, Radio,
        Handling, Reading, Goto, Spend
<1> SUFFICES ASSUME TypeOK, [Next]_vars PROVE TypeOK'
  OBVIOUS
<1>1. ASSUME NEW c \in Client, ReadHub(c) PROVE TypeOK'
  BY <1>1 DEF ReadHub
<1>2. ASSUME NEW c \in Client, ReadControllable(c) PROVE TypeOK'
  BY <1>2 DEF ReadControllable
<1>3. ASSUME NEW c \in Client, SendHello(c) PROVE TypeOK'
  <2> USE <1>3 DEF SendHello
  <2>1. TypeHub'
    OBVIOUS
  <2>2. TypeLocals'
    OBVIOUS
  <2>3. TypeWorld'
    <3>1. view[c] \in View /\ hello[c] \in BOOLEAN
      OBVIOUS
    <3>2. OnHello(view[c], hello[c]) \in View
      BY <3>1, ViewTyped, Zenon
    <3>3. view' \in [Client -> View]
      BY <3>2 DEF Deliver
    <3> QED
      BY <3>3
  <2>4. Locals'
    OBVIOUS
  <2> QED
    BY <2>1, <2>2, <2>3, <2>4
<1>4. ASSUME NEW c \in Client, Claim(c) PROVE TypeOK'
  <2>1. CASE streamed[c]
    <3> USE <1>4, <2>1 DEF Claim
    <3>1. TypeHub' /\ TypeWorld'
      OBVIOUS
    <3>2. TypeLocals'
      OBVIOUS
    <3>3. Locals'
      BY SMTT(60)
    <3> QED
      BY <3>1, <3>2, <3>3
  <2>2. CASE ~streamed[c]
    <3> USE <1>4, <2>2 DEF Claim
    <3>1. TypeHub' /\ TypeWorld'
      OBVIOUS
    <3>2. TypeLocals'
      OBVIOUS
    <3>3. Locals'
      BY SMTT(30)
    <3> QED
      BY <3>1, <3>2, <3>3
  <2> QED
    BY <2>1, <2>2
<1>5. ASSUME NEW c \in Client, SendFirst(c) PROVE TypeOK'
  <2> USE <1>5 DEF SendFirst
  <2>1. TypeHub'
    OBVIOUS
  <2>2. TypeLocals'
    OBVIOUS
  <2>3. TypeWorld'
    <3>1. OnStream(view[c], ann[c]) \in View
      BY ViewTyped
    <3>2. view' \in [Client -> View]
      BY <3>1 DEF Deliver
    <3> QED
      BY <3>2
  <2>4. Locals'
    OBVIOUS
  <2> QED
    BY <2>1, <2>2, <2>3, <2>4
<1>6. ASSUME NEW c \in Client, SendError(c) PROVE TypeOK'
  BY <1>6 DEF SendError
<1>7. ASSUME NEW c \in Client, ReadCentre(c) PROVE TypeOK'
  BY <1>7 DEF ReadCentre
<1>8. ASSUME NEW c \in Client, SendMeta(c) PROVE TypeOK'
  <2> USE <1>8 DEF SendMeta
  <2>1. TypeHub'
    OBVIOUS
  <2>2. TypeLocals'
    OBVIOUS
  <2>3. TypeWorld'
    <3>1. view[c] \in View /\ hz[c] \in Centre \cup {None}
      OBVIOUS
    <3>2. OnMeta(view[c], hz[c]) \in View
      BY <3>1, ViewTyped, Zenon
    <3>3. view' \in [Client -> View]
      BY <3>2 DEF Deliver
    <3> QED
      BY <3>3
  <2>4. Locals'
    OBVIOUS
  <2> QED
    BY <2>1, <2>2, <2>3, <2>4
<1>9. ASSUME NEW c \in Client, Reannounce(c) PROVE TypeOK'
  <2> USE <1>9 DEF Reannounce
  <2>1. TypeHub'
    OBVIOUS
  <2>2. TypeLocals'
    BY SMTT(30)
  <2>3. TypeWorld'
    OBVIOUS
  <2>4. Locals'
    BY SMTT(60)
  <2> QED
    BY <2>1, <2>2, <2>3, <2>4
<1>10. ASSUME NEW c \in Client, Remove(c) PROVE TypeOK'
  BY <1>10 DEF Remove
<1>11. ASSUME NEW c \in Client, Connect(c) PROVE TypeOK'
  BY SMTT(60), <1>11 DEF Connect, Ver
<1>12. ASSUME NEW c \in Client, TuneRefused(c) PROVE TypeOK'
  <2> USE <1>12 DEF TuneRefused, ReceiveTune
  <2>1. TypeHub'
    OBVIOUS
  <2>2. TypeLocals'
    OBVIOUS
  <2>3. TypeWorld'
    OBVIOUS
  <2>4. Locals'
    OBVIOUS
  <2> QED
    BY <2>1, <2>2, <2>3, <2>4
<1>13. ASSUME NEW c \in Client, Stall(c) PROVE TypeOK'
  BY SMTT(30), <1>13 DEF Stall
<1>14. ASSUME NEW c \in Client, Close(c) PROVE TypeOK'
  <2> USE <1>14 DEF Close
  <2>1. TypeHub'
    OBVIOUS
  <2>2. TypeLocals'
    OBVIOUS
  <2>3. TypeWorld'
    OBVIOUS
  <2>4. Locals'
    OBVIOUS
  <2> QED
    BY <2>1, <2>2, <2>3, <2>4
<1>15. ASSUME NEW c \in Client, SendBlock(c) PROVE TypeOK'
  BY <1>15 DEF SendBlock
<1>16. ASSUME NEW c \in Client, NEW f \in Centre, TuneOk(c, f) PROVE TypeOK'
  <2> USE <1>16 DEF TuneOk, ReceiveTune
  <2>1. TypeHub'
    OBVIOUS
  <2>2. TypeLocals'
    OBVIOUS
  <2>3. TypeWorld'
    BY SMTT(30)
  <2>4. Locals'
    OBVIOUS
  <2> QED
    BY <2>1, <2>2, <2>3, <2>4
<1>17. ASSUME NEW r \in Radio, SourceStarts(r) PROVE TypeOK'
  BY <1>17 DEF SourceStarts
<1>18. ASSUME NEW r \in Radio, SourceMoves(r) PROVE TypeOK'
  <2> USE <1>18 DEF SourceMoves
  <2>1. TypeHub'
    OBVIOUS
  <2>2. TypeLocals'
    OBVIOUS
  <2>3. TypeWorld'
    BY SMTT(30)
  <2>4. Locals'
    OBVIOUS
  <2> QED
    BY <2>1, <2>2, <2>3, <2>4
<1>19. ASSUME TakeBlock PROVE TypeOK'
  <2> USE <1>19 DEF TakeBlock
  <2>1. TypeHub'
    OBVIOUS
  <2>2. TypeLocals'
    OBVIOUS
  <2>3. TypeWorld'
    OBVIOUS
  <2>4. Locals'
    BY SMTT(30)
  <2> QED
    BY <2>1, <2>2, <2>3, <2>4
<1>20. ASSUME SourceFails PROVE TypeOK'
  <2> USE <1>20 DEF SourceFails
  <2>1. TypeHub'
    OBVIOUS
  <2>2. TypeLocals'
    OBVIOUS
  <2>3. TypeWorld'
    OBVIOUS
  <2>4. Locals'
    OBVIOUS
  <2> QED
    BY <2>1, <2>2, <2>3, <2>4
<1>21. ASSUME StreamingOff PROVE TypeOK'
  BY <1>21 DEF StreamingOff
<1>22. ASSUME ReportError PROVE TypeOK'
  BY <1>22 DEF ReportError
<1>23. ASSUME NEW p \in Process, Store(p) PROVE TypeOK'
  <2> USE <1>23 DEF Store, Ver, InFlight, Home
  <2>1. TypeHub'
    BY SMTT(30)
  <2>2. TypeLocals'
    BY SMTT(30)
  <2>3. TypeWorld'
    OBVIOUS
  <2>4. Locals'
    BY SMTT(30)
  <2> QED
    BY <2>1, <2>2, <2>3, <2>4
<1>24. ASSUME NEW p \in Process, NEW c \in Client, OpenGate(p, c) PROVE TypeOK'
  BY <1>24 DEF OpenGate
<1>25. ASSUME NEW p \in Process, NEW c \in Client, SendAnnounce(p, c) PROVE TypeOK'
  <2> USE <1>25 DEF SendAnnounce, Home
  <2>1. TypeHub'
    OBVIOUS
  <2>2. TypeLocals'
    BY SMTT(30)
  <2>3. TypeWorld'
    <3>1. OnStream(view[c], ann[p]) \in View
      BY ViewTyped
    <3>2. view' \in [Client -> View]
      BY <3>1 DEF Deliver
    <3> QED
      BY <3>2
  <2>4. Locals'
    BY SMTT(30)
  <2> QED
    BY <2>1, <2>2, <2>3, <2>4
<1>26. ASSUME UNCHANGED vars PROVE TypeOK'
  BY <1>26 DEF vars
<1> QED
  BY <1>1, <1>2, <1>3, <1>4, <1>5, <1>6, <1>7, <1>8, <1>9, <1>10, <1>11, <1>12, <1>13, <1>14, <1>15, <1>16, <1>17, <1>18, <1>19, <1>20, <1>21, <1>22, <1>23, <1>24, <1>25, <1>26
  DEF Next, Handler, ReadLoop, Broadcast, Run, Environment

(* THEOREM: in every reachable state of the lane every variable has its     *)
(* type and each goroutine's locals are live only where the code uses them. *)
THEOREM TypeCorrect == Spec => []TypeOK
BY TypeInit, TypeStep, PTL DEF Spec

------------------------------------------------------------------------------
(* Before the first connection and the first announce nothing is owed.      *)
LEMMA InvInit == Init => Inv
<1> SUFFICES ASSUME Init PROVE Inv
  OBVIOUS
<1>1. TypeOK
  BY TypeInit
<1>2. Untouched /\ AtTarget /\ CarriedFresh /\ GateKept /\ FreshOrComing
  BY ConstantsOK DEF Init, Untouched, AtTarget, CarriedFresh, Carries, GateKept, FreshOrComing
<1>3. Ver = 0
  BY DEF Init, Ver
<1>4. Numbered /\ NeverBefore
  BY <1>3, FS_EmptySet, ConstantsOK DEF Init, Numbered, NeverBefore, Carries
<1> QED
  BY <1>1, <1>2, <1>4 DEF Inv, Marks

(* A step in which no goroutine takes or drops an announce that is to be    *)
(* sent, no Bridge adopts one and none comes or goes.                       *)
Apart(p) == pc[p] \notin {"off", "greet", "control", "hello", "claim", "first", "send"}

Bystander ==
    /\ UNCHANGED <<clients, haveStream, last, streamed, at, ghostVars>>
    /\ \A c \in Client : view'[c].ann = view[c].ann /\ (link'[c] = "up" => link[c] = "up")
    /\ \A p \in Process :
         \/ pc'[p] = pc[p] /\ ann'[p] = ann[p] /\ todo'[p] = todo[p]
         \/ Apart(p) /\ Apart(p)' /\ todo'[p] \subseteq todo[p] \cup clients

(* Such a step keeps the invariant.                                         *)
LEMMA BystanderStep ==
    ASSUME Inv, TypeOK', Bystander
    PROVE  Inv'
<1> USE DEF Inv, Marks, TypeOK, TypeHub, TypeLocals, Bystander, Apart
<1>1. Untouched'
  BY DEF Untouched
<1>2. AtTarget'
  BY DEF AtTarget
<1>3. Numbered'
  BY DEF Numbered, Ver
<1>4. CarriedFresh'
  BY DEF CarriedFresh, Carries
<1>5. NeverBefore'
  BY DEF NeverBefore, Carries, Ver
<1>6. \A c \in Client : /\ ShowsFresh(c)' = ShowsFresh(c)
                        /\ Owed(c)' = Owed(c)
                        /\ Greeting(c)' = Greeting(c)
                        /\ (pc'[c] = "first") = (pc[c] = "first")
  BY DEF ShowsFresh, Owed, Greeting
<1>7. GateKept' /\ FreshOrComing'
  BY <1>6 DEF GateKept, FreshOrComing
<1> QED
  BY <1>1, <1>2, <1>3, <1>4, <1>5, <1>7

(* The steps that have a part in the greeting or the sending of announces.  *)
Involved ==
    \/ \E c \in Client : \/ Connect(c) \/ ReadHub(c) \/ ReadControllable(c) \/ SendHello(c)
                        \/ Claim(c) \/ SendFirst(c) \/ Remove(c)
    \/ \E p \in Process : Store(p) \/ \E c \in Client : OpenGate(p, c) \/ SendAnnounce(p, c)

(* Every step is one of those or a Bystander step.                          *)
LEMMA StepKinds ==
    ASSUME Inv, [Next]_vars
    PROVE  Bystander \/ Involved
<1> USE ConstantsOK DEF Bystander, Apart, Inv, Marks, TypeOK, TypeHub, TypeLocals, TypeWorld,
        Locals, Goto, Spend
<1>1. ASSUME NEW c \in Client, SendError(c) PROVE Bystander
  BY <1>1 DEF SendError
<1>2. ASSUME NEW c \in Client, ReadCentre(c) PROVE Bystander
  BY <1>2 DEF ReadCentre
<1>3. ASSUME NEW c \in Client, SendMeta(c) PROVE Bystander
  BY <1>3 DEF SendMeta, Deliver, OnMeta, View
<1>4. ASSUME NEW c \in Client, Reannounce(c) PROVE Bystander
  BY <1>4 DEF Reannounce
<1>5. ASSUME NEW c \in Client, TuneRefused(c) PROVE Bystander
  BY <1>5 DEF TuneRefused, ReceiveTune
<1>6. ASSUME NEW c \in Client, Stall(c) PROVE Bystander
  BY <1>6 DEF Stall
<1>7. ASSUME NEW c \in Client, Close(c) PROVE Bystander
  BY <1>7 DEF Close
<1>8. ASSUME NEW c \in Client, SendBlock(c) PROVE Bystander
  BY <1>8 DEF SendBlock
<1>9. ASSUME NEW c \in Client, NEW f \in Centre, TuneOk(c, f) PROVE Bystander
  BY <1>9 DEF TuneOk, ReceiveTune
<1>10. ASSUME NEW r \in Radio, SourceStarts(r) PROVE Bystander
  BY <1>10 DEF SourceStarts
<1>11. ASSUME NEW r \in Radio, SourceMoves(r) PROVE Bystander
  BY <1>11 DEF SourceMoves
<1>12. ASSUME TakeBlock PROVE Bystander
  BY <1>12 DEF TakeBlock
<1>13. ASSUME SourceFails PROVE Bystander
  BY <1>13 DEF SourceFails
<1>14. ASSUME StreamingOff PROVE Bystander
  BY <1>14 DEF StreamingOff
<1>15. ASSUME ReportError PROVE Bystander
  BY <1>15 DEF ReportError
<1>16. ASSUME UNCHANGED vars PROVE Bystander
  BY <1>16 DEF vars
<1> QED
  BY <1>1, <1>2, <1>3, <1>4, <1>5, <1>6, <1>7, <1>8, <1>9, <1>10, <1>11, <1>12, <1>13, <1>14, <1>15, <1>16
     DEF Involved, Next, Handler, ReadLoop, Broadcast, Run, Environment

(* Every step keeps the invariant: the bystanders, then those that greet,   *)
(* store, open a gate, send or close.                                       *)
LEMMA InvStep == Inv /\ [Next]_vars => Inv'
<1> SUFFICES ASSUME Inv, [Next]_vars PROVE Inv'
  OBVIOUS
<1>0. TypeOK'
  BY TypeStep DEF Inv
<1> USE ConstantsOK DEF Inv, Marks, TypeOK, TypeHub, TypeLocals, TypeWorld, Locals, Goto
<1>1. ASSUME Bystander PROVE Inv'
  BY <1>0, <1>1, BystanderStep
<1>2. ASSUME NEW c \in Client, Connect(c) PROVE Inv'
  <2> USE <1>2 DEF Connect
  <2>1. Untouched'
    BY DEF Untouched
  <2>2. AtTarget'
    BY DEF AtTarget
  <2>3. Numbered'
    BY DEF Numbered, Ver
  <2>4. CarriedFresh'
    BY DEF CarriedFresh, Carries
  <2>5. NeverBefore'
    BY DEF NeverBefore, Carries, Ver, Untouched
  <2>6. \A d \in Client \ {c} : /\ ShowsFresh(d)' = ShowsFresh(d)
                                /\ Owed(d)' = Owed(d)
                                /\ Greeting(d)' = Greeting(d)
                                /\ (pc'[d] = "first") = (pc[d] = "first")
    BY DEF ShowsFresh, Owed, Greeting
  <2>7. ~streamed[c] /\ Greeting(c)'
    BY DEF Untouched, Greeting
  <2>8. GateKept' /\ FreshOrComing'
    BY <2>6, <2>7 DEF GateKept, FreshOrComing
  <2> QED
    BY <1>0, <2>1, <2>2, <2>3, <2>4, <2>5, <2>8
<1>3. ASSUME NEW c \in Client, ReadHub(c) PROVE Inv'
  <2> USE <1>3 DEF ReadHub
  <2>1. Untouched'
    BY DEF Untouched
  <2>2. AtTarget'
    BY DEF AtTarget
  <2>3. Numbered'
    BY DEF Numbered, Ver
  <2>4. CarriedFresh'
    BY DEF CarriedFresh, Carries, Numbered
  <2>5. NeverBefore'
    BY DEF NeverBefore, Carries, Ver
  <2>6. GateKept' /\ FreshOrComing'
    BY DEF GateKept, FreshOrComing, ShowsFresh, Owed, Greeting
  <2> QED
    BY <1>0, <2>1, <2>2, <2>3, <2>4, <2>5, <2>6
<1>4. ASSUME NEW c \in Client, ReadControllable(c) PROVE Inv'
  <2> USE <1>4 DEF ReadControllable
  <2>1. Untouched'
    BY DEF Untouched
  <2>2. AtTarget'
    BY DEF AtTarget
  <2>3. Numbered'
    BY DEF Numbered, Ver
  <2>4. CarriedFresh'
    BY DEF CarriedFresh, Carries
  <2>5. NeverBefore'
    BY DEF NeverBefore, Carries, Ver
  <2>6. GateKept' /\ FreshOrComing'
    BY DEF GateKept, FreshOrComing, ShowsFresh, Owed, Greeting
  <2> QED
    BY <1>0, <2>1, <2>2, <2>3, <2>4, <2>5, <2>6
<1>5. ASSUME NEW c \in Client, SendHello(c) PROVE Inv'
  <2> USE <1>5 DEF SendHello
  <2>0. \A d \in Client : view'[d].ann = view[d].ann
    BY DEF Deliver, OnHello, View
  <2>1. Untouched'
    BY DEF Untouched
  <2>2. AtTarget'
    BY DEF AtTarget
  <2>3. Numbered'
    BY DEF Numbered, Ver
  <2>4. CarriedFresh'
    BY DEF CarriedFresh, Carries
  <2>5. NeverBefore'
    BY DEF NeverBefore, Carries, Ver
  <2>6. GateKept' /\ FreshOrComing'
    BY ZenonT(60), <2>0 DEF GateKept, FreshOrComing, ShowsFresh, Owed, Greeting
  <2> QED
    BY <1>0, <2>1, <2>2, <2>3, <2>4, <2>5, <2>6
<1>6. ASSUME NEW c \in Client, Claim(c) PROVE Inv'
  <2> USE <1>6 DEF Claim
  <2>1. Untouched'
    BY DEF Untouched
  <2>2. AtTarget'
    BY DEF AtTarget
  <2>3. Numbered'
    BY DEF Numbered, Ver
  <2>4. CarriedFresh'
    BY DEF CarriedFresh, Carries
  <2>5. NeverBefore'
    BY DEF NeverBefore, Carries, Ver
  <2>a. \A d \in Client : /\ ShowsFresh(d)' = ShowsFresh(d)
                          /\ Owed(d)' = Owed(d)
                          /\ d # c => /\ Greeting(d)' = Greeting(d)
                                      /\ (pc'[d] = "first") = (pc[d] = "first")
                                      /\ streamed'[d] = streamed[d]
    BY DEF ShowsFresh, Owed, Greeting
  <2>b. ~streamed[c] => Greeting(c)' /\ pc'[c] = "first"
    BY DEF Greeting
  <2>c. pc[c] # "first"
    OBVIOUS
  <2>6. GateKept' /\ FreshOrComing'
    BY SMTT(30), <2>a, <2>b, <2>c DEF GateKept, FreshOrComing
  <2> QED
    BY <1>0, <2>1, <2>2, <2>3, <2>4, <2>5, <2>6
<1>7. ASSUME NEW c \in Client, SendFirst(c) PROVE Inv'
  <2> USE <1>7 DEF SendFirst
  <2>0. /\ \A d \in Client \ {c} : view'[d] = view[d]
        /\ link[c] = "up" => ShowsFresh(c)'
    BY DEF Deliver, OnStream, View, ShowsFresh, CarriedFresh, Carries
  <2>1. Untouched'
    BY DEF Untouched
  <2>2. AtTarget'
    BY DEF AtTarget
  <2>3. Numbered'
    BY DEF Numbered, Ver
  <2>4. CarriedFresh'
    BY DEF CarriedFresh, Carries
  <2>5. NeverBefore'
    BY DEF NeverBefore, Carries, Ver
  <2>a. \A d \in Client \ {c} : /\ ShowsFresh(d)' = ShowsFresh(d)
                                /\ Owed(d) => Owed(d)'
                                /\ Greeting(d) => Greeting(d)'
                                /\ pc[d] = "first" => pc'[d] = "first"
    BY <2>0 DEF ShowsFresh, Owed, Greeting
  <2>6. GateKept' /\ FreshOrComing'
    BY <2>0, <2>a DEF GateKept, FreshOrComing
  <2> QED
    BY <1>0, <2>1, <2>2, <2>3, <2>4, <2>5, <2>6
<1>8. ASSUME NEW c \in Client, Remove(c) PROVE Inv'
  <2> USE <1>8 DEF Remove
  <2>1. Untouched'
    BY DEF Untouched
  <2>2. AtTarget'
    BY DEF AtTarget
  <2>3. Numbered'
    BY DEF Numbered, Ver
  <2>4. CarriedFresh'
    BY DEF CarriedFresh, Carries
  <2>5. NeverBefore'
    <3>1. pc' = [pc EXCEPT ![c] = "gone"] /\ UNCHANGED <<ann, joined, todo, last>>
      OBVIOUS
    <3>2. NeverBefore
      OBVIOUS
    <3>3. (\A d \in Client : joined[d] <= Ver)'
      BY <3>1, <3>2 DEF NeverBefore, Ver
    <3>4. (\A d \in Client : Carries(d) /\ pc[d] # "send" => joined[d] <= ann[d].n)'
      BY <3>1, <3>2 DEF NeverBefore, Carries
    <3>5. (\A p \in Process : pc[p] = "send" => \A d \in todo[p] : joined[d] <= ann[p].n)'
      BY <3>1, <3>2 DEF NeverBefore
    <3> QED
      BY <3>3, <3>4, <3>5 DEF NeverBefore
  <2>6. GateKept' /\ FreshOrComing'
    BY DEF GateKept, FreshOrComing, ShowsFresh, Owed, Greeting
  <2> QED
    BY <1>0, <2>1, <2>2, <2>3, <2>4, <2>5, <2>6
<1>9. ASSUME NEW p \in Process, Store(p) PROVE Inv'
  <2> USE <1>9 DEF Store, Home
  <2> DEFINE f == [ann[p] EXCEPT !.n = Ver + 1]
  <2>0. /\ f \in Announce /\ f.n = Ver + 1 /\ Ver \in Nat /\ f \notin posted
        /\ last' = f /\ posted' = posted \cup {f} /\ fresh' = {f.n} \cup InFlight(p)
        /\ ann' = [ann EXCEPT ![p] = IF clients = {} THEN None ELSE f]
    BY DEF Numbered, Ver
  <2> HIDE DEF f
  <2>1. Untouched'
    BY DEF Untouched
  <2>2. AtTarget'
    BY DEF AtTarget
  <2>3. Numbered'
    <3>1. IsFiniteSet(posted') /\ Cardinality(posted') = Ver + 1
      <4> HIDE <1>9 DEF Store
      <4>1. IsFiniteSet(posted) /\ Cardinality(posted) = Ver
        BY DEF Numbered
      <4>2. /\ IsFiniteSet(posted \cup {f})
            /\ Cardinality(posted \cup {f}) = Cardinality(posted) + 1
        BY <2>0, <4>1, FS_AddElement, Zenon
      <4> QED
        BY <2>0, <4>1, <4>2
    <3>2. Ver' = Ver + 1
      BY <2>0 DEF Ver
    <3>3. \A a \in posted' : a.n \in 1..(Ver + 1)
      BY <2>0 DEF Numbered
    <3> QED
      BY <2>0, <3>1, <3>2, <3>3 DEF Numbered
  <2>4. CarriedFresh'
    BY <2>0 DEF CarriedFresh, Carries, InFlight
  <2>5. NeverBefore'
    BY <2>0 DEF NeverBefore, Carries, Ver
  <2>6. \A c \in clients : Owed(c)'
    BY DEF Owed
  <2>7. GateKept' /\ FreshOrComing'
    BY <2>6 DEF GateKept, FreshOrComing
  <2> QED
    BY <1>0, <2>1, <2>2, <2>3, <2>4, <2>5, <2>7
<1>10. ASSUME NEW p \in Process, NEW c \in Client, OpenGate(p, c) PROVE Inv'
  <2> USE <1>10 DEF OpenGate
  <2>1. Untouched'
    BY DEF Untouched
  <2>2. AtTarget'
    BY DEF AtTarget
  <2>3. Numbered'
    BY DEF Numbered, Ver
  <2>4. CarriedFresh'
    BY DEF CarriedFresh, Carries
  <2>5. NeverBefore'
    BY DEF NeverBefore, Carries, Ver
  <2>6. \A d \in Client : /\ ShowsFresh(d)' = ShowsFresh(d)
                          /\ Owed(d)' = Owed(d)
                          /\ Greeting(d)' = Greeting(d)
    BY DEF ShowsFresh, Owed, Greeting
  <2>7. Owed(c)
    BY DEF Owed
  <2>8. GateKept' /\ FreshOrComing'
    BY <2>6, <2>7 DEF GateKept, FreshOrComing
  <2> QED
    BY <1>0, <2>1, <2>2, <2>3, <2>4, <2>5, <2>8
<1>11. ASSUME NEW p \in Process, NEW c \in Client, SendAnnounce(p, c) PROVE Inv'
  <2>0. /\ \A d \in Client \ {c} : view'[d] = view[d]
        /\ link[c] = "up" => ShowsFresh(c)'
        /\ UNCHANGED <<clients, haveStream, streamed, link>>
    BY <1>11 DEF SendAnnounce, Deliver, OnStream, View, ShowsFresh, CarriedFresh, Carries
  <2>1. Untouched'
    BY <1>11 DEF SendAnnounce, Home, Untouched
  <2>2. AtTarget'
    BY <1>11 DEF SendAnnounce, Home, AtTarget
  <2>3. Numbered'
    BY <1>11 DEF SendAnnounce, Home, Numbered, Ver
  <2>4. CarriedFresh'
    BY <1>11 DEF SendAnnounce, Home, CarriedFresh, Carries
  <2>5. NeverBefore'
    BY <1>11 DEF SendAnnounce, Home, NeverBefore, Carries, Ver
  <2>6. \A d \in Client \ {c} : /\ ShowsFresh(d)' = ShowsFresh(d)
                                /\ Owed(d) => Owed(d)'
                                /\ Greeting(d) => Greeting(d)'
                                /\ pc[d] = "first" => pc'[d] = "first"
    BY SMTT(60), <1>11, <2>0 DEF SendAnnounce, Home, ShowsFresh, Owed, Greeting
  <2>7. GateKept' /\ FreshOrComing'
    BY SMTT(30), <2>0, <2>6 DEF GateKept, FreshOrComing
  <2> QED
    BY <1>0, <2>1, <2>2, <2>3, <2>4, <2>5, <2>7
<1> QED
  BY <1>1, <1>2, <1>3, <1>4, <1>5, <1>6, <1>7, <1>8, <1>9, <1>10, <1>11, StepKinds
     DEF Involved

(* THEOREM: a Bridge that is registered while the hub has a stream has an   *)
(* announce or is still to be written one, however onConnect and the        *)
(* broadcasts interleave around the "streamed" gate.                        *)
THEOREM AnnounceNeverLost == Spec => []NoLostAnnounce
<1>1. Inv => NoLostAnnounce
  BY DEF Inv, FreshOrComing, ShowsFresh, NoLostAnnounce
<1> QED
  BY <1>1, InvInit, InvStep, PTL DEF Spec

(* THEOREM: what a settled Bridge shows is the newest announce, or one that *)
(* was on its way when the newest was stored: a broadcast that had ended    *)
(* never comes back, neither to old Bridges nor to a late joiner.           *)
THEOREM NothingOldShown == Spec => []StaleOnlyIfOverlapped
<1>1. Inv => StaleOnlyIfOverlapped
  BY DEF Inv, FreshOrComing, ShowsFresh, StaleOnlyIfOverlapped, Settled, Greeting
<1> QED
  BY <1>1, InvInit, InvStep, PTL DEF Spec

------------------------------------------------------------------------------
(* The lane implements AnnounceBoard.                                       *)

(* Without an announce the board is empty.                                  *)
LEMMA BoardInit == Init => Board!Init
BY ConstantsOK DEF Init, Board!Init

(* The board counts with the same Cardinality.                              *)
LEMMA SameCount == \A S : Board!Cardinality(S) = Cardinality(S)
BY DEF Cardinality, Board!Cardinality

(* A store posts, serveClient joins, a delivered stream frame is shown, and *)
(* every other step changes nothing of the board.                           *)
LEMMA BoardStep ==
    ASSUME Inv, [Next]_vars
    PROVE  [Board!Next]_(Board!vars)
<1> USE ConstantsOK DEF Inv, Marks, TypeOK, TypeHub, TypeLocals, TypeWorld, Locals, Goto
<1>a. ASSUME \A c \in Client : /\ view'[c].ann = view[c].ann
                               /\ (pc'[c] = "off") = (pc[c] = "off"),
             UNCHANGED <<posted, joined>>
      PROVE  UNCHANGED Board!vars
  BY <1>a DEF Board!vars
<1>b. ASSUME NEW c \in Client, NEW a \in posted, joined[c] <= a.n, pc[c] # "off",
             \A d \in Client : (pc'[d] = "off") = (pc[d] = "off"),
             UNCHANGED <<posted, joined>>,
             view' = [view EXCEPT ![c] = OnStream(@, a)]
      PROVE  Board!Next
  <2>1. view[c] \in View /\ view'[c].ann = a
    BY <1>b DEF OnStream, View
  <2>2. [d \in Client |-> view'[d].ann] = [[d \in Client |-> view[d].ann] EXCEPT ![c] = a]
    BY <1>b, <2>1
  <2>3. joined[c] # None
    OBVIOUS
  <2>4. Board!Show(c)
    BY ZenonT(60), <1>b, <2>2, <2>3 DEF Board!Show
  <2> QED
    BY <2>4 DEF Board!Next
<1>1. ASSUME Bystander PROVE UNCHANGED Board!vars
  BY <1>a, <1>1 DEF Bystander, Apart
<1>2. ASSUME NEW c \in Client, Connect(c) PROVE Board!Next
  <2>1. Board!Join(c)
    BY <1>2, SameCount DEF Connect, Board!Join, Board!Newest, Numbered
  <2> QED
    BY <2>1 DEF Board!Next
<1>3. ASSUME NEW c \in Client, ReadHub(c) \/ ReadControllable(c) \/ Claim(c) \/ Remove(c)
      PROVE  UNCHANGED Board!vars
  BY <1>a, <1>3 DEF ReadHub, ReadControllable, Claim, Remove
<1>4. ASSUME NEW c \in Client, SendHello(c) PROVE UNCHANGED Board!vars
  BY <1>a, <1>4 DEF SendHello, Deliver, OnHello, View
<1>5. ASSUME NEW c \in Client, SendFirst(c) PROVE [Board!Next]_(Board!vars)
  <2>1. ann[c] \in posted /\ joined[c] <= ann[c].n
    BY <1>5 DEF SendFirst, CarriedFresh, NeverBefore, Carries
  <2>2. CASE link[c] = "up"
    BY <1>5, <1>b, <2>1, <2>2 DEF SendFirst, Deliver
  <2>3. CASE link[c] # "up"
    BY <1>5, <1>a, <2>3 DEF SendFirst, Deliver
  <2> QED
    BY <2>2, <2>3
<1>6. ASSUME NEW p \in Process, Store(p) PROVE Board!Next
  <2> DEFINE f == [ann[p] EXCEPT !.n = Ver + 1]
  <2>1. f \in [n : {Ver + 1}, centre : Centre, rate : Rate, ctl : BOOLEAN]
    BY <1>6 DEF Store, Ver
  <2>2. Board!Newest = Ver
    BY SameCount DEF Board!Newest, Numbered
  <2>3. posted' = posted \cup {f}
    BY <1>6 DEF Store
  <2>4. /\ \A c \in Client : (pc'[c] = "off") = (pc[c] = "off")
        /\ UNCHANGED <<view, joined>>
    BY <1>6 DEF Store, Home
  <2> HIDE DEF f
  <2>5. Board!Post
    BY <2>1, <2>2, <2>3, <2>4 DEF Board!Post
  <2> QED
    BY <2>5 DEF Board!Next
<1>7. ASSUME NEW p \in Process, NEW c \in Client, OpenGate(p, c)
      PROVE  UNCHANGED Board!vars
  BY <1>a, <1>7 DEF OpenGate
<1>8. ASSUME NEW p \in Process, NEW c \in Client, SendAnnounce(p, c)
      PROVE  [Board!Next]_(Board!vars)
  <2>1. /\ pc[p] = "send" /\ c \in todo[p] /\ pc[c] # "off"
        /\ \A d \in Client : (pc'[d] = "off") = (pc[d] = "off")
        /\ UNCHANGED <<posted, joined>>
    BY <1>8 DEF SendAnnounce, Home, AtTarget, Untouched
  <2>2. ann[p] \in posted /\ joined[c] <= ann[p].n
    BY <2>1 DEF CarriedFresh, NeverBefore, Carries
  <2>3. CASE link[c] = "up"
    BY <1>8, <1>b, <2>1, <2>2, <2>3 DEF SendAnnounce, Deliver
  <2>4. CASE link[c] # "up"
    BY <1>8, <1>a, <2>1, <2>4 DEF SendAnnounce, Deliver
  <2> QED
    BY <2>3, <2>4
<1> QED
  BY <1>1, <1>2, <1>3, <1>4, <1>5, <1>6, <1>7, <1>8, StepKinds DEF Involved

(* THEOREM: whatever the goroutines do, a Bridge is only shown announces    *)
(* that broadcastStream stored, numbered one by one, and none that was      *)
(* superseded when the Bridge connected.                                    *)
THEOREM ImplementsBoard == Spec => BoardSpec
<1>1. Inv /\ [Next]_vars => [Board!Next]_(Board!vars)
  BY BoardStep
<1> QED
  BY <1>1, BoardInit, InvInit, InvStep, PTL DEF Spec, BoardSpec, Board!Spec
=============================================================================
