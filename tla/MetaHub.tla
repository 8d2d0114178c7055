------------------------------ MODULE MetaHub ------------------------------
(***************************************************************************)
(* The meta lane of rds-bridge-helper: the hub, the poll loop and the      *)
(* connections of helper/main.go.                                          *)
(*                                                                         *)
(* One poll goroutine reads the live source and pushes each reading (tick).*)
(* Each connection has its HTTP handler (add, currentSource, onConnect)    *)
(* and then its readLoop, which may steer the source (onControl).  The     *)
(* config page may swap the live source at any moment (setSource).  The    *)
(* sections under h.mu and h.srcMu, the accesses to "streamed" and each    *)
(* write to a connection are single steps.                                 *)
(*                                                                         *)
(* Opening, locking and closing a source's handle is module SourceSwap.    *)
(***************************************************************************)
EXTENDS Integers, FiniteSets

CONSTANTS
    Client,      \* connections
    Freq,        \* frequencies a source can be tuned to
    StationHz,   \* stationHz: a move this large is a station change
    Sources,     \* the sources the config page can select
    Setters,     \* those that are freqSetters (serial/CAT)
    None,
    MaxMoves,    \* bound: times somebody moves a source's dial
    MaxSwaps,    \* bound: source swaps by the config page
    MaxErrors,   \* bound: failed reads
    MaxFaults    \* bound: connections that stall or close

ASSUME ConstantsOK ==
    /\ Freq \subseteq Nat
    /\ StationHz \in Nat \ {0}
    /\ Setters \subseteq Sources
    /\ None \notin Freq \cup Sources \cup Client
    /\ {MaxMoves, MaxSwaps, MaxErrors, MaxFaults} \subseteq Nat

VARIABLES
    clients,   \* h.clients
    cur,       \* h.cur
    last,      \* h.last
    have,      \* h.have
    src,       \* h.src
    lastErr,   \* h.lastErr # ""
    streamed,  \* client.streamed
    poll,      \* the poll loop: [at, src, hz, changed, todo, now]
    pc,        \* where each connection's goroutine is
    held,      \* a source in a local variable: the handler's or onControl's
    greet,     \* the reading onConnect holds, or None
    dial,      \* the frequency each source is really tuned to
    link,      \* each connection: "up", "stalled" (reads nothing), "closed"
    view,      \* what each Bridge last heard
    late,      \* ghost: Bridges greeted after the newest reading was stored
    used       \* ghost: events counted against the bounds

hubVars  == <<clients, cur, last, have>>
srcVars  == <<src, lastErr>>
connVars == <<pc, held, greet>>
vars == <<hubVars, srcVars, streamed, poll, connVars, dial, link, view, late, used>>

------------------------------------------------------------------------------
(* Helpers.                                                                 *)

Abs(x) == IF x < 0 THEN -x ELSE x

Spend(b) == used' = [used EXCEPT ![b] = @ + 1]

Goto(c, l) == pc' = [pc EXCEPT ![c] = l]

Idle == [at |-> "idle", src |-> None, hz |-> None, changed |-> FALSE,
         todo |-> {}, now |-> None]

Deliver(c, v) == view' = IF link[c] = "up" THEN [view EXCEPT ![c] = v] ELSE view

(* gHandleJSON: every frame with a vfo_hz sets the reading; "stream" and    *)
(* "tune" also announce a station.                                         *)
OnHello(v, ctl) == [v EXCEPT !.hello = TRUE, !.ctl = ctl]
OnStation(v, f) == [v EXCEPT !.vfo = f, !.station = f]
OnMeta(v, f)    == [v EXCEPT !.vfo = f]

------------------------------------------------------------------------------
(* The poll loop.                                                           *)

(* src := h.currentSource(), skipped while there is none.                   *)
PollTake ==
    /\ poll.at = "idle"
    /\ poll' = IF src = None THEN poll ELSE [poll EXCEPT !.at = "read", !.src = src]
    /\ UNCHANGED <<hubVars, srcVars, streamed, connVars, dial, link, view, late, used>>

(* hz, err := src.read() with a reading.                                    *)
PollRead ==
    /\ poll.at = "read"
    /\ poll' = [poll EXCEPT !.at = "clear", !.hz = dial[poll.src]]
    /\ UNCHANGED <<hubVars, srcVars, streamed, connVars, dial, link, view, late, used>>

(* src.read() with an error: h.setErr(err), and on to the next tick.        *)
PollFails ==
    /\ poll.at = "read"
    /\ used.errors < MaxErrors
    /\ Spend("errors")
    /\ lastErr' = TRUE
    /\ poll' = Idle
    /\ UNCHANGED <<hubVars, src, streamed, connVars, dial, link, view, late>>

(* h.setErr("").                                                            *)
ClearError ==
    /\ poll.at = "clear"
    /\ lastErr' = FALSE
    /\ poll' = [poll EXCEPT !.at = "store"]
    /\ UNCHANGED <<hubVars, src, streamed, connVars, dial, link, view, late, used>>

(* Mutant of TickStore: only a station change is pushed.                    *)
TickStoreOnChange ==
    /\ poll.at = "store"
    /\ LET changed == ~have \/ Abs(poll.hz - last) >= StationHz
       IN  /\ last' = IF changed THEN poll.hz ELSE last
           /\ poll' = IF clients = {} \/ ~changed THEN Idle
                      ELSE [poll EXCEPT !.at = "gate", !.changed = changed,
                                        !.todo = clients]
    /\ cur' = poll.hz
    /\ have' = TRUE
    /\ late' = {}
    /\ UNCHANGED <<clients, srcVars, streamed, connVars, dial, link, view, used>>

(* tick, the h.mu section: record the reading, copy the client set.         *)
TickStore ==
    /\ poll.at = "store"
    /\ LET changed == ~have \/ Abs(poll.hz - last) >= StationHz
       IN  /\ last' = IF changed THEN poll.hz ELSE last
           /\ poll' = IF clients = {} THEN Idle
                      ELSE [poll EXCEPT !.at = "gate", !.changed = changed,
                                        !.todo = clients]
    /\ cur' = poll.hz
    /\ have' = TRUE
    /\ late' = {}
    /\ UNCHANGED <<clients, srcVars, streamed, connVars, dial, link, view, used>>

(* tick: c.streamed.CompareAndSwap(false, true) for the next client.        *)
TickGate(c) ==
    /\ poll.at = "gate"
    /\ c \in poll.todo
    /\ streamed' = [streamed EXCEPT ![c] = TRUE]
    /\ poll' = [poll EXCEPT !.now = c,
                            !.at = IF ~streamed[c] THEN "stream"
                                   ELSE IF poll.changed THEN "tune" ELSE "meta"]
    /\ UNCHANGED <<hubVars, srcVars, connVars, dial, link, view, late, used>>

(* The client is served: on to the next, or back to the ticker.             *)
NextClient ==
    poll' = IF poll.todo = {poll.now} THEN Idle
            ELSE [poll EXCEPT !.at = "gate", !.todo = @ \ {poll.now}, !.now = None]

(* tick: c.send(stream), the first reading of this connection.              *)
TickStream ==
    /\ poll.at = "stream"
    /\ Deliver(poll.now, OnStation(view[poll.now], poll.hz))
    /\ NextClient
    /\ UNCHANGED <<hubVars, srcVars, streamed, connVars, dial, link, late, used>>

(* tick: c.send(tune), only for a station change.                           *)
TickTune ==
    /\ poll.at = "tune"
    /\ Deliver(poll.now, OnStation(view[poll.now], poll.hz))
    /\ poll' = [poll EXCEPT !.at = "meta"]
    /\ UNCHANGED <<hubVars, srcVars, streamed, connVars, dial, link, late, used>>

(* Mutant of TickMeta: the reading goes out with a station change only.     *)
TickMetaOnChange ==
    /\ poll.at = "meta"
    /\ IF poll.changed
         THEN Deliver(poll.now, OnMeta(view[poll.now], poll.hz))
         ELSE UNCHANGED view
    /\ NextClient
    /\ UNCHANGED <<hubVars, srcVars, streamed, connVars, dial, link, late, used>>

(* tick: c.send(meta), every time.                                          *)
TickMeta ==
    /\ poll.at = "meta"
    /\ Deliver(poll.now, OnMeta(view[poll.now], poll.hz))
    /\ NextClient
    /\ UNCHANGED <<hubVars, srcVars, streamed, connVars, dial, link, late, used>>

------------------------------------------------------------------------------
(* A connection: the HTTP handler, then readLoop.                           *)

(* h.add(c).                                                                *)
Connect(c) ==
    /\ pc[c] = "off"
    /\ Goto(c, "source")
    /\ clients' = clients \cup {c}
    /\ link' = [link EXCEPT ![c] = "up"]
    /\ UNCHANGED <<cur, last, have, srcVars, streamed, poll, held, greet, dial, view,
                   late, used>>

(* _, controllable := h.currentSource().(freqSetter)                        *)
ReadSource(c) ==
    /\ pc[c] = "source"
    /\ Goto(c, "hello")
    /\ held' = [held EXCEPT ![c] = src]
    /\ UNCHANGED <<hubVars, srcVars, streamed, poll, greet, dial, link, view, late, used>>

(* onConnect: c.send(hello).                                                *)
SendHello(c) ==
    /\ pc[c] = "hello"
    /\ Goto(c, "cur")
    /\ Deliver(c, OnHello(view[c], held[c] \in Setters))
    /\ held' = [held EXCEPT ![c] = None]
    /\ UNCHANGED <<hubVars, srcVars, streamed, poll, greet, dial, link, late, used>>

(* onConnect: have, cur := h.have, h.cur under h.mu.                        *)
ReadCur(c) ==
    /\ pc[c] = "cur"
    /\ Goto(c, IF have THEN "claim" ELSE "loop")
    /\ greet' = [greet EXCEPT ![c] = IF have THEN cur ELSE None]
    /\ UNCHANGED <<hubVars, srcVars, streamed, poll, held, dial, link, view, late, used>>

(* Mutant of Claim: the handler that loses the gate keeps its reading.      *)
ClaimKeepsReading(c) ==
    /\ pc[c] = "claim"
    /\ streamed' = [streamed EXCEPT ![c] = TRUE]
    /\ Goto(c, IF streamed[c] THEN "loop" ELSE "first")
    /\ UNCHANGED <<hubVars, srcVars, poll, held, greet, dial, link, view, late, used>>

(* onConnect: c.streamed.CompareAndSwap(false, true).                       *)
Claim(c) ==
    /\ pc[c] = "claim"
    /\ streamed' = [streamed EXCEPT ![c] = TRUE]
    /\ IF streamed[c]
         THEN Goto(c, "loop") /\ greet' = [greet EXCEPT ![c] = None]
         ELSE Goto(c, "first") /\ UNCHANGED greet
    /\ UNCHANGED <<hubVars, srcVars, poll, held, dial, link, view, late, used>>

(* onConnect: c.send(stream); the handler then starts readLoop.             *)
SendFirst(c) ==
    /\ pc[c] = "first"
    /\ Goto(c, "loop")
    /\ Deliver(c, OnStation(view[c], greet[c]))
    /\ late' = late \cup {c}
    /\ greet' = [greet EXCEPT ![c] = None]
    /\ UNCHANGED <<hubVars, srcVars, streamed, poll, held, dial, link, used>>

(* onControl: setter, ok := h.currentSource().(freqSetter).  Without ok, or *)
(* with a bad frequency or action, an error frame is all that happens.      *)
ReceiveControl(c) ==
    /\ pc[c] = "loop"
    /\ link[c] = "up"
    /\ view[c].ctl
    /\ used.moves < MaxMoves
    /\ src \in Setters
    /\ Spend("moves")
    /\ Goto(c, "set")
    /\ held' = [held EXCEPT ![c] = src]
    /\ UNCHANGED <<hubVars, srcVars, streamed, poll, greet, dial, link, view, late>>

(* onControl: setter.set(hz) moves the dial, or fails and an error frame    *)
(* follows.  Nothing is echoed: the next reading confirms it.               *)
Set(c) ==
    /\ pc[c] = "set"
    /\ Goto(c, "loop")
    /\ held' = [held EXCEPT ![c] = None]
    /\ \E f \in Freq : dial' \in {dial, [dial EXCEPT ![held[c]] = f]}
    /\ UNCHANGED <<hubVars, srcVars, streamed, poll, greet, link, view, late, used>>

(* readLoop returns and h.remove runs.                                      *)
Remove(c) ==
    /\ pc[c] = "loop"
    /\ link[c] = "closed"
    /\ Goto(c, "gone")
    /\ clients' = clients \ {c}
    /\ UNCHANGED <<cur, last, have, srcVars, streamed, poll, held, greet, dial, link,
                   view, late, used>>

------------------------------------------------------------------------------
(* The config page, the radio and the network.                              *)

(* setSource, its h.srcMu section (what it closes is in SourceSwap).        *)
Swap(s) ==
    /\ used.swaps < MaxSwaps
    /\ s # src
    /\ Spend("swaps")
    /\ src' = s
    /\ lastErr' = FALSE
    /\ UNCHANGED <<hubVars, streamed, poll, connVars, dial, link, view, late>>

(* The user turns the dial of a radio.                                      *)
TurnDial(s, f) ==
    /\ used.moves < MaxMoves
    /\ f # dial[s]
    /\ Spend("moves")
    /\ dial' = [dial EXCEPT ![s] = f]
    /\ UNCHANGED <<hubVars, srcVars, streamed, poll, connVars, link, view, late>>

Fault(c) ==
    /\ link[c] = "up"
    /\ pc[c] \notin {"off", "gone"}
    /\ used.faults < MaxFaults
    /\ Spend("faults")
    /\ \E l \in {"stalled", "closed"} : link' = [link EXCEPT ![c] = l]
    /\ UNCHANGED <<hubVars, srcVars, streamed, poll, connVars, dial, view, late>>

------------------------------------------------------------------------------
Init ==
    /\ clients = {}
    /\ cur = 0
    /\ last = 0
    /\ have = FALSE
    /\ src \in Sources \cup {None}
    /\ lastErr = FALSE
    /\ streamed = [c \in Client |-> FALSE]
    /\ poll = Idle
    /\ pc = [c \in Client |-> "off"]
    /\ held = [c \in Client |-> None]
    /\ greet = [c \in Client |-> None]
    /\ dial \in [Sources -> Freq]
    /\ link = [c \in Client |-> "closed"]
    /\ view = [c \in Client |-> [hello |-> FALSE, ctl |-> FALSE, vfo |-> None,
                                 station |-> None]]
    /\ late = {}
    /\ used = [moves |-> 0, swaps |-> 0, errors |-> 0, faults |-> 0]

Poll ==
    \/ PollTake
    \/ PollRead
    \/ ClearError
    \/ TickStore
    \/ \E c \in Client : TickGate(c)
    \/ TickStream
    \/ TickTune
    \/ TickMeta

Connection(c) ==
    \/ ReadSource(c)
    \/ SendHello(c)
    \/ ReadCur(c)
    \/ Claim(c)
    \/ SendFirst(c)
    \/ Set(c)
    \/ Remove(c)

Environment ==
    \/ PollFails
    \/ \E c \in Client : Connect(c) \/ ReceiveControl(c) \/ Fault(c)
    \/ \E s \in Sources : Swap(s) \/ \E f \in Freq : TurnDial(s, f)

Next == Poll \/ (\E c \in Client : Connection(c)) \/ Environment

Spec == Init /\ [][Next]_vars

(* The ticker and the goroutines of the connections keep running, and every *)
(* write ends within its deadline.  Nobody has to connect, turn a dial or   *)
(* open the config page, and reads need not fail.                           *)
Fairness == WF_vars(Poll) /\ \A c \in Client : WF_vars(Connection(c))

FairSpec == Spec /\ Fairness

------------------------------------------------------------------------------
(* Properties.                                                              *)

Handling == {"source", "hello", "cur", "claim", "first"}
Pushing  == {"stream", "tune", "meta"}

(* Every variable has its type, and every local is live only where used.    *)
TypeOK ==
    /\ clients \subseteq Client
    /\ cur \in Freq \cup {0} /\ last \in Freq \cup {0} /\ have \in BOOLEAN
    /\ src \in Sources \cup {None} /\ lastErr \in BOOLEAN
    /\ streamed \in [Client -> BOOLEAN]
    /\ poll \in [at : {"idle", "read", "clear", "store", "gate"} \cup Pushing,
                 src : Sources \cup {None}, hz : Freq \cup {None}, changed : BOOLEAN,
                 todo : SUBSET Client, now : Client \cup {None}]
    /\ (poll.at = "idle") = (poll.src = None)
    /\ (poll.at \in {"idle", "read"}) = (poll.hz = None)
    /\ (poll.at \in Pushing) = (poll.now # None)
    /\ pc \in [Client -> {"off", "loop", "set", "gone"} \cup Handling]
    /\ held \in [Client -> Sources \cup {None}]
    /\ greet \in [Client -> Freq \cup {None}]
    /\ \A c \in Client : (pc[c] \in {"claim", "first"}) = (greet[c] # None)
    /\ \A c \in Client : pc[c] = "set" => held[c] \in Setters
    /\ dial \in [Sources -> Freq]
    /\ link \in [Client -> {"up", "stalled", "closed"}]
    /\ view \in [Client -> [hello : BOOLEAN, ctl : BOOLEAN, vfo : Freq \cup {None},
                            station : Freq \cup {None}]]
    /\ late \subseteq Client
    /\ used \in [moves : 0..MaxMoves, swaps : 0..MaxSwaps, errors : 0..MaxErrors,
                 faults : 0..MaxFaults]

(* The tick under way has still to serve c.                                 *)
Owed(c) == poll.at \in {"gate"} \cup Pushing /\ c \in poll.todo

AtRest(c) == c \in clients /\ link[c] = "up" /\ pc[c] \in {"loop", "set"} /\ ~Owed(c)

(* A Bridge at rest shows the last reading of the poll loop, unless its     *)
(* greeting was written after that reading was stored: a handler may still  *)
(* hold an older one, and the next tick replaces it.                        *)
RestShowsNewest ==
    \A c \in clients : AtRest(c) /\ have /\ c \notin late => view[c].vfo = cur

(* Confirmation is driven by readback: when nobody moves a dial or swaps    *)
(* the source any more, every Bridge ends up showing the live dial, however *)
(* it was moved and however small the move.                                 *)
FollowsDial ==
    \A c \in Client :
        <>[](src # None /\ c \in clients /\ link[c] = "up" => view[c].vfo = dial[src])

------------------------------------------------------------------------------
(* What comments and the protocol document say, and the code does not keep. *)

(* PROTOCOL-generic-iq.md 4.1: hello is the first frame of a connection.    *)
HelloFirst == \A c \in Client : view[c].vfo # None => view[c].hello

(* PROTOCOL-generic-iq.md 4.1: controllable says whether the source accepts *)
(* control frames.                                                          *)
HelloTruthful ==
    \A c \in Client : AtRest(c) /\ view[c].hello => (view[c].ctl <=> src \in Setters)

(* main.go: a move as large as stationHz is a genuine station change.       *)
StationTold ==
    \A c \in Client :
        AtRest(c) /\ view[c].vfo # None => Abs(view[c].vfo - view[c].station) < StationHz
=============================================================================
