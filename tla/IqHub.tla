------------------------------- MODULE IqHub -------------------------------
(***************************************************************************)
(* The wsiq lane of rds-bridge-helper: helper/iqlane.go, with the client   *)
(* type of helper/main.go and the two frame handlers of the Bridge page    *)
(* (index.html) that give the frames their meaning.                        *)
(*                                                                         *)
(* Goroutines.  One source goroutine (iqHub.run -> iqSource.Start) pushes  *)
(* announces and sample blocks through the broadcast callbacks.  Each      *)
(* connection has one goroutine at a time: the HTTP handler (serveClient:  *)
(* add, onConnect) and then readLoop.  The critical sections of q.mu, each *)
(* write under a client's own mutex and each atomic access to "streamed"   *)
(* are single steps; everything between two of them can interleave.        *)
(*                                                                         *)
(* The device behind iqSource is abstract here: it has a centre (radio), a *)
(* rate and a Controllable() bit, may move on its own and may fail.        *)
(***************************************************************************)
EXTENDS Naturals, FiniteSets

CONSTANTS
    Client,     \* connections (a Bridge that reconnects is another client)
    Tuners,     \* the connections whose Bridge sends tune requests
    Centre,     \* frequencies the radio can be tuned to
    Rate,       \* sample rates the source can announce
    Source,     \* the name of the source goroutine
    None,       \* "no value"
    MaxTunes,   \* bound: tune requests received
    MaxMoves,   \* bound: changes the source makes on its own
    MaxDrops,   \* bound: times Start returns an error
    MaxFaults   \* bound: connections that stall or close

Process == Client \cup {Source}

(* iqStreamFrame, with a ghost number n: the n-th announce the hub stored.  *)
Announce == [n : Nat, centre : Centre, rate : Rate, ctl : BOOLEAN]

ASSUME ConstantsOK ==
    /\ Source \notin Client
    /\ Tuners \subseteq Client
    /\ None \notin Announce \cup Nat
    /\ None \notin Process
    /\ None \notin Centre
    /\ {MaxTunes, MaxMoves, MaxDrops, MaxFaults} \subseteq Nat

VARIABLES
    clients,     \* q.clients
    haveStream,  \* q.haveStream
    last,        \* q.last
    centerHz,    \* q.centerHz
    streaming,   \* q.streaming
    lastErr,     \* hub.lastErr # "", shown by the config page
    streamed,    \* client.streamed
    pc,          \* where each goroutine is
    ann,         \* the announce a goroutine holds in a local variable
    hz,          \* the frequency a readLoop holds in a local variable
    hello,       \* the Controllable() value onConnect holds
    todo,        \* clients a broadcast has still to write to
    at,          \* the client whose gate a broadcast has just set
    radio,       \* the device: [centre, rate, ctl]
    link,        \* each connection: "up", "stalled" (reads nothing), "closed"
    view,        \* what each Bridge has adopted from the frames it received
    posted,      \* ghost: every announce the hub ever stored
    joined,      \* ghost: number of the newest announce when a client joined
    fresh,       \* ghost: the newest announce, and those in flight at its store
    used         \* ghost: events counted against the bounds

hubVars    == <<clients, haveStream, last, centerHz, streaming, lastErr>>
localVars  == <<ann, hz, hello, todo, at>>
ghostVars  == <<posted, joined, fresh>>
vars == <<hubVars, streamed, pc, localVars, radio, link, view, ghostVars, used>>

------------------------------------------------------------------------------
(* Helpers.                                                                 *)

Ver == IF last = None THEN 0 ELSE last.n

Goto(p, l) == pc' = [pc EXCEPT ![p] = l]

Spend(b) == used' = [used EXCEPT ![b] = @ + 1]

(* After a broadcast the source returns to its read loop, a readLoop to its *)
(* next frame.                                                              *)
Home(p) == IF p = Source THEN "up" ELSE "loop"

(* A frame reaches the Bridge only over a connection that still delivers;   *)
(* the write error of any other is dropped by every caller.                 *)
Deliver(c, v) == view' = IF link[c] = "up" THEN [view EXCEPT ![c] = v] ELSE view

(* niqHandleJSON: what the Bridge adopts from each kind of frame.  A hello  *)
(* and a stream both set the control bit, the later frame wins.             *)
OnHello(v, ctl) == [v EXCEPT !.hello = TRUE, !.ctl = ctl]
OnStream(v, a)  == [v EXCEPT !.ann = a, !.vfo = a.centre, !.ctl = a.ctl]
OnMeta(v, f)    == [v EXCEPT !.vfo = f]

(* The announces some goroutine other than p may still write.               *)
InFlight(p) ==
    {ann[q].n : q \in {r \in Process \ {p} :
        ann[r] # None /\ pc[r] \in {"control", "hello", "claim", "first", "send"}}}

------------------------------------------------------------------------------
(* The HTTP handler: serveClient and onConnect.                             *)

(* serveClient: q.add(c).                                                   *)
Connect(c) ==
    /\ pc[c] = "off"
    /\ Goto(c, "greet")
    /\ clients' = clients \cup {c}
    /\ link' = [link EXCEPT ![c] = "up"]
    /\ joined' = [joined EXCEPT ![c] = Ver]
    /\ UNCHANGED <<haveStream, last, centerHz, streaming, lastErr, streamed,
                   localVars, radio, view, posted, fresh, used>>

(* Mutant of ReadHub: greets by "streaming" instead of haveStream.          *)
ReadHubByStreaming(c) ==
    /\ pc[c] = "greet"
    /\ Goto(c, "control")
    /\ ann' = [ann EXCEPT ![c] = IF streaming THEN last ELSE None]
    /\ UNCHANGED <<hubVars, streamed, hz, hello, todo, at, radio, link, view,
                   ghostVars, used>>

(* onConnect: have, last := q.haveStream, q.last under q.mu.                *)
ReadHub(c) ==
    /\ pc[c] = "greet"
    /\ Goto(c, "control")
    /\ ann' = [ann EXCEPT ![c] = IF haveStream THEN last ELSE None]
    /\ UNCHANGED <<hubVars, streamed, hz, hello, todo, at, radio, link, view,
                   ghostVars, used>>

(* onConnect: ctrl := q.source.Controllable().                              *)
ReadControllable(c) ==
    /\ pc[c] = "control"
    /\ Goto(c, "hello")
    /\ hello' = [hello EXCEPT ![c] = radio.ctl]
    /\ UNCHANGED <<hubVars, streamed, ann, hz, todo, at, radio, link, view,
                   ghostVars, used>>

(* onConnect: c.send(helloFrame); the gate is tried only if "have".         *)
SendHello(c) ==
    /\ pc[c] = "hello"
    /\ Goto(c, IF ann[c] = None THEN "loop" ELSE "claim")
    /\ Deliver(c, OnHello(view[c], hello[c]))
    /\ hello' = [hello EXCEPT ![c] = FALSE]
    /\ UNCHANGED <<hubVars, streamed, ann, hz, todo, at, radio, link,
                   ghostVars, used>>

(* Mutant of Claim: the handler that loses the gate keeps its announce.     *)
ClaimKeepsAnnounce(c) ==
    /\ pc[c] = "claim"
    /\ streamed' = [streamed EXCEPT ![c] = TRUE]
    /\ Goto(c, IF streamed[c] THEN "loop" ELSE "first")
    /\ UNCHANGED <<hubVars, ann, hz, hello, todo, at, radio, link, view,
                   ghostVars, used>>

(* onConnect: c.streamed.CompareAndSwap(false, true).                       *)
Claim(c) ==
    /\ pc[c] = "claim"
    /\ \/ /\ ~streamed[c]
          /\ streamed' = [streamed EXCEPT ![c] = TRUE]
          /\ Goto(c, "first")
          /\ UNCHANGED ann
       \/ /\ streamed[c]
          /\ Goto(c, "loop")
          /\ ann' = [ann EXCEPT ![c] = None]
          /\ UNCHANGED streamed
    /\ UNCHANGED <<hubVars, hz, hello, todo, at, radio, link, view, ghostVars,
                   used>>

(* onConnect: c.send(last); the handler then starts readLoop.               *)
SendFirst(c) ==
    /\ pc[c] = "first"
    /\ Goto(c, "loop")
    /\ Deliver(c, OnStream(view[c], ann[c]))
    /\ ann' = [ann EXCEPT ![c] = None]
    /\ UNCHANGED <<hubVars, streamed, hz, hello, todo, at, radio, link,
                   ghostVars, used>>

------------------------------------------------------------------------------
(* readLoop: a tune request, its refusal or its re-announce.                *)

(* Start is running over a live connection, or is dialling one.             *)
SourceOpen == pc[Source] \notin {"lost", "report"}

ReceiveTune(c) ==
    /\ pc[c] = "loop"
    /\ c \in Tuners
    /\ link[c] = "up"
    /\ used.tunes < MaxTunes
    /\ Spend("tunes")

(* q.source.Tune(vfo) returned nil: the device moves.                       *)
TuneOk(c, f) ==
    /\ ReceiveTune(c)
    /\ SourceOpen
    /\ radio.ctl
    /\ radio' = [radio EXCEPT !.centre = f]
    /\ hz' = [hz EXCEPT ![c] = f]
    /\ Goto(c, "renew")
    /\ UNCHANGED <<hubVars, streamed, ann, hello, todo, at, link, view, ghostVars>>

(* q.source.Tune(vfo) returned an error: no control, or no connection.      *)
TuneRefused(c) ==
    /\ ReceiveTune(c)
    /\ \/ ~radio.ctl
       \/ pc[Source] \in {"down", "lost", "report"}
    /\ Goto(c, "error")
    /\ UNCHANGED <<hubVars, streamed, localVars, radio, link, view, ghostVars>>

(* c.send(errorFrame): the page has no case for it and adopts nothing.      *)
SendError(c) ==
    /\ pc[c] = "error"
    /\ Goto(c, "snap")
    /\ UNCHANGED <<hubVars, streamed, localVars, radio, link, view, ghostVars,
                   used>>

(* cur := q.centerHz under q.mu.                                            *)
ReadCentre(c) ==
    /\ pc[c] = "snap"
    /\ Goto(c, "meta")
    /\ hz' = [hz EXCEPT ![c] = centerHz]
    /\ UNCHANGED <<hubVars, streamed, ann, hello, todo, at, radio, link, view,
                   ghostVars, used>>

(* c.send(vfoFrame meta): the snap-back.                                    *)
SendMeta(c) ==
    /\ pc[c] = "meta"
    /\ Goto(c, "loop")
    /\ Deliver(c, OnMeta(view[c], hz[c]))
    /\ hz' = [hz EXCEPT ![c] = None]
    /\ UNCHANGED <<hubVars, streamed, ann, hello, todo, at, radio, link,
                   ghostVars, used>>

(* reannounce: read q.last and q.haveStream, keep all but the centre.       *)
Reannounce(c) ==
    /\ pc[c] = "renew"
    /\ Goto(c, IF haveStream THEN "store" ELSE "loop")
    /\ ann' = [ann EXCEPT ![c] = IF haveStream THEN [last EXCEPT !.centre = hz[c]]
                                 ELSE None]
    /\ hz' = [hz EXCEPT ![c] = None]
    /\ UNCHANGED <<hubVars, streamed, hello, todo, at, radio, link, view,
                   ghostVars, used>>

(* Mutant of Remove: readLoop returns without the deferred q.remove.        *)
RemoveForgotten(c) ==
    /\ pc[c] = "loop"
    /\ link[c] = "closed"
    /\ Goto(c, "gone")
    /\ UNCHANGED <<hubVars, streamed, localVars, radio, link, view, ghostVars,
                   used>>

(* The connection is closed or fails: readLoop returns and q.remove runs.   *)
Remove(c) ==
    /\ pc[c] = "loop"
    /\ link[c] = "closed"
    /\ Goto(c, "gone")
    /\ clients' = clients \ {c}
    /\ UNCHANGED <<haveStream, last, centerHz, streaming, lastErr, streamed,
                   localVars, radio, link, view, ghostVars, used>>

------------------------------------------------------------------------------
(* broadcastStream, run by the source goroutine or by a readLoop.           *)

(* Mutant of Store: only clients that never had an announce get this one.   *)
StoreForNewOnly(p) ==
    /\ pc[p] = "store"
    /\ LET f  == [ann[p] EXCEPT !.n = Ver + 1]
           cs == {c \in clients : ~streamed[c]}
       IN  /\ last' = f
           /\ centerHz' = f.centre
           /\ posted' = posted \cup {f}
           /\ fresh' = {f.n} \cup InFlight(p)
           /\ ann' = [ann EXCEPT ![p] = IF cs = {} THEN None ELSE f]
           /\ todo' = [todo EXCEPT ![p] = cs]
           /\ Goto(p, IF cs = {} THEN Home(p) ELSE "send")
    /\ haveStream' = TRUE
    /\ streaming' = TRUE
    /\ UNCHANGED <<clients, lastErr, streamed, hz, hello, at, radio, link, view,
                   joined, used>>

(* The q.mu section: store the announce and copy the client set.            *)
Store(p) ==
    /\ pc[p] = "store"
    /\ LET f == [ann[p] EXCEPT !.n = Ver + 1]
       IN  /\ last' = f
           /\ centerHz' = f.centre
           /\ posted' = posted \cup {f}
           /\ fresh' = {f.n} \cup InFlight(p)
           /\ ann' = [ann EXCEPT ![p] = IF clients = {} THEN None ELSE f]
    /\ haveStream' = TRUE
    /\ streaming' = TRUE
    /\ todo' = [todo EXCEPT ![p] = clients]
    /\ Goto(p, IF clients = {} THEN Home(p) ELSE "send")
    /\ UNCHANGED <<clients, lastErr, streamed, hz, hello, at, radio, link, view,
                   joined, used>>

(* Mutant of OpenGate: the loop ranges over q.clients, not over the copy.   *)
OpenGateLive(p, c) ==
    /\ pc[p] = "send"
    /\ at[p] = None
    /\ c \in todo[p] \cup clients
    /\ streamed' = [streamed EXCEPT ![c] = TRUE]
    /\ at' = [at EXCEPT ![p] = c]
    /\ UNCHANGED <<hubVars, pc, ann, hz, hello, todo, radio, link, view,
                   ghostVars, used>>

(* c.streamed.Store(true), in the map's arbitrary order.                    *)
OpenGate(p, c) ==
    /\ pc[p] = "send"
    /\ at[p] = None
    /\ c \in todo[p]
    /\ streamed' = [streamed EXCEPT ![c] = TRUE]
    /\ at' = [at EXCEPT ![p] = c]
    /\ UNCHANGED <<hubVars, pc, ann, hz, hello, todo, radio, link, view,
                   ghostVars, used>>

(* Mutant of SendAnnounce: a write to a stalled client has no deadline.     *)
SendAnnounceNoDeadline(p, c) ==
    /\ pc[p] = "send"
    /\ at[p] = c
    /\ \/ link[c] = "stalled" /\ UNCHANGED vars
       \/ /\ link[c] # "stalled"
          /\ Deliver(c, OnStream(view[c], ann[p]))
          /\ at' = [at EXCEPT ![p] = None]
          /\ todo' = [todo EXCEPT ![p] = @ \ {c}]
          /\ IF todo[p] = {c}
               THEN Goto(p, Home(p)) /\ ann' = [ann EXCEPT ![p] = None]
               ELSE UNCHANGED <<pc, ann>>
          /\ UNCHANGED <<hubVars, streamed, hz, hello, radio, link, ghostVars, used>>

(* c.send(f): delivered, or given up at the 5 s write deadline.             *)
SendAnnounce(p, c) ==
    /\ pc[p] = "send"
    /\ at[p] = c
    /\ Deliver(c, OnStream(view[c], ann[p]))
    /\ at' = [at EXCEPT ![p] = None]
    /\ todo' = [todo EXCEPT ![p] = @ \ {c}]
    /\ IF todo[p] = {c}
         THEN Goto(p, Home(p)) /\ ann' = [ann EXCEPT ![p] = None]
         ELSE UNCHANGED <<pc, ann>>
    /\ UNCHANGED <<hubVars, streamed, hz, hello, radio, link, ghostVars, used>>

------------------------------------------------------------------------------
(* The source goroutine: run and the callbacks of Start.                    *)

(* Start has its connection and its handshake, and calls onStream with the  *)
(* device's actual centre and rate.                                         *)
SourceStarts(r) ==
    /\ pc[Source] = "down"
    /\ Goto(Source, "store")
    /\ radio' = r
    /\ ann' = [ann EXCEPT ![Source] =
                 [n |-> 0, centre |-> r.centre, rate |-> r.rate, ctl |-> r.ctl]]
    /\ UNCHANGED <<hubVars, streamed, hz, hello, todo, at, link, view, ghostVars,
                   used>>

(* The device's centre or rate changed by itself; Start re-announces it.    *)
SourceMoves(r) ==
    /\ pc[Source] = "up"
    /\ used.moves < MaxMoves
    /\ r # radio
    /\ Spend("moves")
    /\ Goto(Source, "store")
    /\ radio' = r
    /\ ann' = [ann EXCEPT ![Source] =
                 [n |-> 0, centre |-> r.centre, rate |-> r.rate, ctl |-> r.ctl]]
    /\ UNCHANGED <<hubVars, streamed, hz, hello, todo, at, link, view, ghostVars>>

(* broadcastIQ / broadcastFFT: snapshotClients; without a client the block  *)
(* is dropped.                                                              *)
TakeBlock ==
    /\ pc[Source] = "up"
    /\ \/ /\ clients # {}
          /\ Goto(Source, "block")
          /\ todo' = [todo EXCEPT ![Source] = clients]
       \/ /\ clients = {}
          /\ UNCHANGED <<pc, todo>>
    /\ UNCHANGED <<hubVars, streamed, ann, hz, hello, at, radio, link, view,
                   ghostVars, used>>

(* c.sendBinary(frame).                                                     *)
SendBlock(c) ==
    /\ pc[Source] = "block"
    /\ c \in todo[Source]
    /\ todo' = [todo EXCEPT ![Source] = @ \ {c}]
    /\ Goto(Source, IF todo[Source] = {c} THEN "up" ELSE "block")
    /\ UNCHANGED <<hubVars, streamed, ann, hz, hello, at, radio, link, view,
                   ghostVars, used>>

(* Start returns an error: while dialling, or from its read loop.           *)
SourceFails ==
    /\ pc[Source] \in {"down", "up"}
    /\ used.drops < MaxDrops
    /\ Spend("drops")
    /\ Goto(Source, "lost")
    /\ UNCHANGED <<hubVars, streamed, localVars, radio, link, view, ghostVars>>

(* run: q.streaming = false.                                                *)
StreamingOff ==
    /\ pc[Source] = "lost"
    /\ Goto(Source, "report")
    /\ streaming' = FALSE
    /\ UNCHANGED <<clients, haveStream, last, centerHz, lastErr, streamed,
                   localVars, radio, link, view, ghostVars, used>>

(* run: setErr(err), then the 2 s backoff and Start again.                  *)
ReportError ==
    /\ pc[Source] = "report"
    /\ Goto(Source, "down")
    /\ lastErr' = TRUE
    /\ UNCHANGED <<clients, haveStream, last, centerHz, streaming, streamed,
                   localVars, radio, link, view, ghostVars, used>>

------------------------------------------------------------------------------
(* The connections: a Bridge stops reading, or closes.                      *)

Stall(c) ==
    /\ link[c] = "up"
    /\ pc[c] \notin {"off", "gone"}
    /\ used.faults < MaxFaults
    /\ Spend("faults")
    /\ link' = [link EXCEPT ![c] = "stalled"]
    /\ UNCHANGED <<hubVars, streamed, pc, localVars, radio, view, ghostVars>>

Close(c) ==
    /\ link[c] \in {"up", "stalled"}
    /\ pc[c] \notin {"off", "gone"}
    /\ used.faults < MaxFaults
    /\ Spend("faults")
    /\ link' = [link EXCEPT ![c] = "closed"]
    /\ UNCHANGED <<hubVars, streamed, pc, localVars, radio, view, ghostVars>>

------------------------------------------------------------------------------
Radio == [centre : Centre, rate : Rate, ctl : BOOLEAN]

Init ==
    /\ clients = {}
    /\ haveStream = FALSE
    /\ last = None
    /\ centerHz = None
    /\ streaming = FALSE
    /\ lastErr = FALSE
    /\ streamed = [c \in Client |-> FALSE]
    /\ pc = [p \in Process |-> IF p = Source THEN "down" ELSE "off"]
    /\ ann = [p \in Process |-> None]
    /\ hz = [c \in Client |-> None]
    /\ hello = [c \in Client |-> FALSE]
    /\ todo = [p \in Process |-> {}]
    /\ at = [p \in Process |-> None]
    /\ radio \in Radio
    /\ link = [c \in Client |-> "closed"]
    /\ view = [c \in Client |->
                 [hello |-> FALSE, ann |-> None, vfo |-> None, ctl |-> FALSE]]
    /\ posted = {}
    /\ joined = [c \in Client |-> 0]
    /\ fresh = {}
    /\ used = [tunes |-> 0, moves |-> 0, drops |-> 0,
             faults |-> 0]

Handler(c) ==
    \/ ReadHub(c)
    \/ ReadControllable(c)
    \/ SendHello(c)
    \/ Claim(c)
    \/ SendFirst(c)

ReadLoop(c) ==
    \/ SendError(c)
    \/ ReadCentre(c)
    \/ SendMeta(c)
    \/ Reannounce(c)
    \/ Remove(c)

Broadcast(p) ==
    \/ Store(p)
    \/ \E c \in Client : OpenGate(p, c) \/ SendAnnounce(p, c)

Run ==
    \/ \E c \in Client : SendBlock(c)
    \/ StreamingOff
    \/ ReportError

Environment ==
    \/ \E c \in Client : Connect(c) \/ TuneRefused(c) \/ Stall(c) \/ Close(c)
    \/ \E c \in Client, f \in Centre : TuneOk(c, f)
    \/ \E r \in Radio : SourceStarts(r) \/ SourceMoves(r)
    \/ TakeBlock
    \/ SourceFails

Next ==
    \/ \E c \in Client : Handler(c) \/ ReadLoop(c)
    \/ \E p \in Process : Broadcast(p)
    \/ Run
    \/ Environment

Spec == Init /\ [][Next]_vars

(* The Go scheduler runs every runnable goroutine and every write ends      *)
(* within its 5 s deadline, so each goroutine's own steps are weakly fair.  *)
(* Connections, tune requests and the device's moves are not.               *)
Fairness ==
    /\ \A c \in Client : WF_vars(Handler(c)) /\ WF_vars(ReadLoop(c))
    /\ \A p \in Process : WF_vars(Broadcast(p))
    /\ WF_vars(Run)

FairSpec == Spec /\ Fairness

------------------------------------------------------------------------------
(* Properties.                                                              *)

Handling == {"greet", "control", "hello", "claim", "first"}
Reading  == {"loop", "renew", "error", "snap", "meta", "store", "send"}

View == [hello : BOOLEAN, ann : Announce \cup {None},
         vfo : Centre \cup {None}, ctl : BOOLEAN]

TypeHub ==
    /\ clients \subseteq Client
    /\ haveStream \in BOOLEAN
    /\ last \in Announce \cup {None}
    /\ centerHz \in Centre \cup {None}
    /\ streaming \in BOOLEAN
    /\ lastErr \in BOOLEAN
    /\ streamed \in [Client -> BOOLEAN]

TypeLocals ==
    /\ pc \in [Process -> {"off", "gone", "down", "up", "block", "lost", "report"}
                           \cup Handling \cup Reading]
    /\ ann \in [Process -> Announce \cup {None}]
    /\ hz \in [Client -> Centre \cup {None}]
    /\ hello \in [Client -> BOOLEAN]
    /\ todo \in [Process -> SUBSET Client]
    /\ at \in [Process -> Client \cup {None}]

TypeWorld ==
    /\ radio \in Radio
    /\ link \in [Client -> {"up", "stalled", "closed"}]
    /\ view \in [Client -> View]
    /\ posted \subseteq Announce
    /\ joined \in [Client -> Nat]
    /\ fresh \subseteq Nat
    /\ used \in [tunes : 0..MaxTunes, moves : 0..MaxMoves, drops : 0..MaxDrops,
                 faults : 0..MaxFaults]

(* Which program counters the goroutines can have, and that a goroutine     *)
(* holds an announce exactly while a later step of it sends or stores it.   *)
Locals ==
    /\ pc[Source] \in {"down", "up", "block", "lost", "report", "store", "send"}
    /\ \A c \in Client : pc[c] \in {"off", "gone"} \cup Handling \cup Reading
    /\ \A p \in Process :
         /\ pc[p] \in {"claim", "first", "store", "send"} => ann[p] # None
         /\ ann[p] # None => pc[p] \in {"control", "hello", "claim", "first",
                                        "store", "send"}
    /\ \A c \in Client : pc[c] = "renew" => hz[c] # None
    /\ haveStream => last # None

(* Every variable has its type, and every local is live only where used.    *)
TypeOK == TypeHub /\ TypeLocals /\ TypeWorld /\ Locals

(* A broadcast has c in the client copy it made and has not written it yet. *)
Owed(c) == \E p \in Process : pc[p] = "send" /\ c \in todo[p]

(* The handler of c holds an announce it may still send.                    *)
Greeting(c) ==
    \/ pc[c] = "greet"
    \/ pc[c] \in {"control", "hello", "claim", "first"} /\ ann[c] # None

(* The "streamed" gate never loses the announce: once the hub has a stream, *)
(* a registered Bridge whose connection works has an announce, or some      *)
(* goroutine is still about to send it one (onConnect and broadcastStream   *)
(* decide through CompareAndSwap and Store which of them does).             *)
NoLostAnnounce ==
    \A c \in clients :
        haveStream /\ link[c] = "up" /\ view[c].ann = None => Owed(c) \/ Greeting(c)

(* No goroutine holds a frame for c or is about to make one.                *)
Settled(c) == pc[c] = "loop" /\ ~Owed(c)

(* A settled Bridge shows the newest announce, or one whose sending         *)
(* overlapped the newest store: broadcastStream writes outside q.mu, so two *)
(* concurrent broadcasts may reach a Bridge in either order, but one that   *)
(* had finished can never come back, to old members or to late joiners.     *)
StaleOnlyIfOverlapped ==
    \A c \in clients :
        link[c] = "up" /\ Settled(c) /\ haveStream => view[c].ann.n \in fresh

(* The lane implements the board of announces: what a Bridge shows is       *)
(* something broadcastStream stored, and never older than q.last was when   *)
(* serveClient registered the Bridge.                                       *)
Board == INSTANCE AnnounceBoard WITH
            shown <- [c \in Client |-> view[c].ann],
            floor <- [c \in Client |-> IF pc[c] = "off" THEN None ELSE joined[c]]

BoardSpec == Board!Spec

(* Every registered Bridge whose connection works gets an announce once the *)
(* hub has one, even while another Bridge does not read a byte: the write   *)
(* deadline of client.send bounds what one stalled Bridge costs the others. *)
ClientsCatchUp ==
    \A c \in Client :
        c \in clients /\ haveStream ~> view[c].ann # None \/ link[c] # "up"

(* A closed connection leaves q.clients, whatever its goroutine was doing.  *)
GoneForgotten ==
    \A c \in Client : c \in clients /\ link[c] = "closed" ~> c \notin clients

------------------------------------------------------------------------------
(* What comments and the protocol document say, and the code does not keep. *)

(* PROTOCOL-generic-iq.md 4.1: hello is the first frame of a connection.    *)
HelloFirst == \A c \in Client : view[c].ann # None => view[c].hello

(* PROTOCOL-generic-iq.md 4.2: stream comes before samples.                 *)
StreamBeforeSamples ==
    [][\A c \in Client : SendBlock(c) /\ link[c] = "up" => view[c].ann # None]_vars

(* Nothing is under way: every goroutine is at its blocking read.           *)
Quiet ==
    /\ pc[Source] = "up"
    /\ \A c \in Client : pc[c] \in {"off", "loop", "gone"}

(* reannounce returns without an announce when there is none yet, because   *)
(* the initial announce will carry the centre; Start read it before.        *)
HonestCentre == Quiet => last.centre = radio.centre

(* readLoop: the tune returned no error, so the centre is the request.  If  *)
(* the source posted once and every tune was re-announced, the last         *)
(* announce has the device's centre.                                        *)
TunesInOrder ==
    Quiet /\ Cardinality(posted) = 1 + used.tunes /\ used.moves = 0 /\ used.drops = 0
        => last.centre = radio.centre

(* reannounce: a retune keeps every other parameter of the last announce.   *)
RateKept == Quiet => last.rate = radio.rate

(* index.html: the stream announce is authoritative for control.            *)
StreamRulesControl ==
    \A c \in Client : Settled(c) /\ view[c].ann # None => view[c].ctl = view[c].ann.ctl

(* onConnect: the announce goes to a late joiner if we are streaming.       *)
GreetOnlyIfStreaming ==
    [][\A c \in Client : ReadHub(c) /\ ~streaming => ann'[c] = None]_vars

(* status: "streaming" says whether IQ is flowing.                          *)
StreamingHonest == streaming => pc[Source] \notin {"report", "down"}

(* run: the helper recovers when the source returns, like the meta loop,    *)
(* which clears the error on the first good poll.                           *)
ErrorCleared == pc[Source] = "up" ~> (~lastErr \/ pc[Source] = "lost")
=============================================================================
