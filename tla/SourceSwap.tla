----------------------------- MODULE SourceSwap -----------------------------
(***************************************************************************)
(* The live frequency source and its handle: helper/web.go handleConfig,   *)
(* helper/config.go, hub.setSource, and the read, set and close of the     *)
(* serial and rigctld sources (helper/serial.go, helper/main.go).          *)
(*                                                                         *)
(* The poll loop reads the live source; CAT connections steer it; each     *)
(* POST of the config page builds a new source object, installs it, closes *)
(* the one it replaced and saves the config file.  The process may be      *)
(* stopped anywhere, and is launched again from the file.                  *)
(*                                                                         *)
(* A source object is named after the POST that built it, or Boot.  The    *)
(* h.srcMu sections are single steps; a serial object's s.mu is modelled;  *)
(* the rigctld object has no lock, so each use of its fields is a step.    *)
(* Only one process-wide handle of a serial port can be open (the driver   *)
(* opens it exclusively).  What Bridges are sent is module MetaHub.        *)
(***************************************************************************)
EXTENDS Naturals, FiniteSets

CONSTANTS
    Post,         \* requests to /config
    Steer,        \* connections whose Bridge sends control frames
    Poll,         \* the poll goroutine
    Boot,         \* the source object built at launch
    Port,         \* serial ports
    Addr,         \* addresses of rigctld servers
    Body,         \* the bodies the config page may post
    Default,      \* defaultConfig()
    None,
    MaxSteers,    \* bound: control frames received
    MaxFailures,  \* bound: handles that fail
    MaxStops      \* bound: times the process is stopped

Kind   == {"serial", "rigctld", "iq"}
Config == [source : Kind, port : Port \cup {None}, addr : Addr]
Object == Post \cup {Boot}

ASSUME ConstantsOK ==
    /\ Poll \notin Post \cup Steer
    /\ Boot \notin Post
    /\ Post \cap Steer = {}
    /\ None \notin Port \cup Addr \cup Config \cup Object \cup Steer \cup {Poll}
    /\ Body \subseteq [source : Kind, port : Port \cup {None}, addr : Addr \cup {None}]
    /\ Default \in Config
    /\ {MaxSteers, MaxFailures, MaxStops} \subseteq Nat

VARIABLES
    up,         \* the process: "running", "stopped" or "panicked"
    iqMode,     \* h.iqMode
    src,        \* h.src
    cfg,        \* h.cfg
    conf,       \* the config each object was built from
    handle,     \* s.p or s.conn: "nil", "open", or "shut" (closed, not yet nil)
    br,         \* rigctldSource.br # nil
    mu,         \* who holds serialSource.mu
    pc,         \* where each goroutine is
    use,        \* the object a goroutine reads, steers or closes
    draft,      \* the config a POST has in its local variable
    file,       \* the saved config file: [top, size]
    closed,     \* ghost: objects whose close() has run
    installed,  \* ghost: objects that are or were h.src
    used        \* ghost: events counted against the bounds

liveVars   == <<src, cfg, iqMode>>
handleVars == <<handle, br, mu>>
goVars     == <<pc, use, draft>>
ghostVars  == <<closed, installed, used>>
vars == <<up, liveVars, conf, handleVars, goVars, file, ghostVars>>

------------------------------------------------------------------------------
(* Helpers.                                                                 *)

Goto(g, l) == pc' = [pc EXCEPT ![g] = l]

Spend(b) == used' = [used EXCEPT ![b] = @ + 1]

Running == up = "running"

(* The goroutine leaves its object: a POST goes on to save, the poll loop   *)
(* to its next tick, a connection to its next frame.                        *)
Leave(g) ==
    /\ Goto(g, IF g \in Post THEN "truncate" ELSE "idle")
    /\ use' = [use EXCEPT ![g] = None]

(* buildSource: only a serial source without a port is refused.             *)
Buildable(c) == c.source = "serial" => c.port # None

(* The form always carries source and port; an empty address keeps the old. *)
Merge(c, b) == [source |-> b.source, port |-> b.port,
                addr |-> IF b.addr = None THEN c.addr ELSE b.addr]

(* The length of a config's JSON text, up to what all of them share.        *)
Size(c) == (IF c.source = "rigctld" THEN 7 ELSE 6) + (IF c.port = None THEN 0 ELSE 5)

(* loadConfig: a file that is missing or does not parse gives the defaults. *)
Loaded == IF file.top # None /\ file.size = Size(file.top) THEN file.top ELSE Default

PortFree(p) ==
    ~\E o \in Object : conf[o] # None /\ conf[o].source = "serial" /\ conf[o].port = p
                       /\ handle[o] = "open"

------------------------------------------------------------------------------
(* The poll loop and onControl pick up the live source.                     *)

PollTake ==
    /\ Running
    /\ pc[Poll] = "idle"
    /\ \/ src = None /\ UNCHANGED <<pc, use>>
       \/ /\ src # None
          /\ use' = [use EXCEPT ![Poll] = src]
          /\ Goto(Poll, IF conf[src].source = "serial" THEN "lock" ELSE "check")
    /\ UNCHANGED <<up, liveVars, conf, handleVars, draft, file, ghostVars>>

(* onControl: h.currentSource().(freqSetter) is the serial source.          *)
Control(k) ==
    /\ Running
    /\ pc[k] = "idle"
    /\ used.steers < MaxSteers
    /\ Spend("steers")
    /\ src # None /\ conf[src].source = "serial"
    /\ use' = [use EXCEPT ![k] = src]
    /\ Goto(k, "lock")
    /\ UNCHANGED <<up, liveVars, conf, handleVars, draft, file, closed, installed>>

------------------------------------------------------------------------------
(* serialSource: read (by the poll loop) and set (by a connection).         *)

(* Mutant of Lock: set does not take s.mu.                                  *)
LockReadOnly(g) ==
    /\ Running
    /\ pc[g] = "lock"
    /\ \/ g = Poll /\ mu[use[g]] = None /\ mu' = [mu EXCEPT ![use[g]] = g]
       \/ g # Poll /\ UNCHANGED mu
    /\ Goto(g, IF handle[use[g]] = "nil" THEN "open" ELSE "write")
    /\ UNCHANGED <<up, liveVars, conf, handle, br, use, draft, file, ghostVars>>

(* s.mu.Lock(), then s.p == nil decides whether to open.                    *)
Lock(g) ==
    /\ Running
    /\ pc[g] = "lock"
    /\ mu[use[g]] = None
    /\ mu' = [mu EXCEPT ![use[g]] = g]
    /\ Goto(g, IF handle[use[g]] = "nil" THEN "open" ELSE "write")
    /\ UNCHANGED <<up, liveVars, conf, handle, br, use, draft, file, ghostVars>>

(* s.open(): fails while another handle of the port is open, or when the    *)
(* port is not there.                                                       *)
Open(g) ==
    /\ Running
    /\ pc[g] = "open"
    /\ \/ /\ PortFree(conf[use[g]].port)
          /\ handle' = [handle EXCEPT ![use[g]] = "open"]
          /\ Goto(g, "write")
          /\ UNCHANGED <<mu, use, used>>
       \/ /\ \/ ~PortFree(conf[use[g]].port) /\ UNCHANGED used
             \/ used.failures < MaxFailures /\ Spend("failures")
          /\ mu' = [mu EXCEPT ![use[g]] = None]
          /\ Leave(g)
          /\ UNCHANGED handle
    /\ UNCHANGED <<up, liveVars, conf, br, draft, file, closed, installed>>

(* s.p.Write: the query of read, the command of set (which then returns).   *)
Write(g) ==
    /\ Running
    /\ pc[g] = "write"
    /\ \/ /\ g = Poll
          /\ Goto(g, "reply")
          /\ UNCHANGED <<handle, mu, use, used>>
       \/ /\ g # Poll
          /\ mu' = [mu EXCEPT ![use[g]] = None]
          /\ Leave(g)
          /\ UNCHANGED <<handle, used>>
       \/ /\ used.failures < MaxFailures
          /\ Spend("failures")
          /\ handle' = [handle EXCEPT ![use[g]] = "nil"]
          /\ mu' = [mu EXCEPT ![use[g]] = None]
          /\ Leave(g)
    /\ UNCHANGED <<up, liveVars, conf, br, draft, file, closed, installed>>

(* read: an FA reply or the reply deadline ends it; a read error also drops *)
(* the handle.                                                              *)
Reply ==
    /\ Running
    /\ pc[Poll] = "reply"
    /\ Leave(Poll)
    /\ mu' = [mu EXCEPT ![use[Poll]] = None]
    /\ \/ UNCHANGED <<handle, used>>
       \/ /\ used.failures < MaxFailures
          /\ Spend("failures")
          /\ handle' = [handle EXCEPT ![use[Poll]] = "nil"]
    /\ UNCHANGED <<up, liveVars, conf, br, draft, file, closed, installed>>

(* Mutant of CloseSerial: close leaves an open handle to its reader and     *)
(* waits for it to go.                                                      *)
CloseSerialWaits(r) ==
    /\ Running
    /\ pc[r] = "close"
    /\ mu[use[r]] = None
    /\ handle[use[r]] = "nil"
    /\ closed' = closed \cup {use[r]}
    /\ Leave(r)
    /\ UNCHANGED <<up, liveVars, conf, handleVars, draft, file, installed, used>>

(* close(): s.reset() under s.mu.                                           *)
CloseSerial(r) ==
    /\ Running
    /\ pc[r] = "close"
    /\ mu[use[r]] = None
    /\ handle' = [handle EXCEPT ![use[r]] = "nil"]
    /\ closed' = closed \cup {use[r]}
    /\ Leave(r)
    /\ UNCHANGED <<up, liveVars, conf, br, mu, draft, file, installed, used>>

------------------------------------------------------------------------------
(* rigctldSource: read (by the poll loop only) and reset, without a lock.   *)

(* A method call on a nil s.conn or s.br.  In the poll goroutine it ends the *)
(* process; in a POST net/http recovers it, and nothing more of the request *)
(* runs (use still tells what it was closing, which only properties read).  *)
Panic(g) ==
    /\ \/ g = Poll /\ up' = "panicked" /\ UNCHANGED <<pc, draft>>
       \/ /\ g # Poll
          /\ Goto(g, "aborted")
          /\ draft' = [draft EXCEPT ![g] = None]
          /\ UNCHANGED up
    /\ UNCHANGED <<liveVars, conf, handleVars, use, file, ghostVars>>

(* A step of g that dereferences s.conn, and what follows if it is not nil. *)
OnConn(g, at, next) ==
    /\ Running
    /\ pc[g] = at
    /\ \/ handle[use[g]] = "nil" /\ Panic(g)
       \/ handle[use[g]] # "nil" /\ next

(* if s.conn == nil                                                         *)
CheckConn ==
    /\ Running
    /\ pc[Poll] = "check"
    /\ Goto(Poll, IF handle[use[Poll]] = "nil" THEN "dial" ELSE "deadline")
    /\ UNCHANGED <<up, liveVars, conf, handleVars, use, draft, file, ghostVars>>

(* net.DialTimeout, then s.conn and s.br are set; or an error.              *)
Dial ==
    /\ Running
    /\ pc[Poll] = "dial"
    /\ \/ /\ handle' = [handle EXCEPT ![use[Poll]] = "open"]
          /\ br' = [br EXCEPT ![use[Poll]] = TRUE]
          /\ Goto(Poll, "deadline")
          /\ UNCHANGED <<use, used>>
       \/ /\ used.failures < MaxFailures
          /\ Spend("failures")
          /\ Leave(Poll)
          /\ UNCHANGED <<handle, br>>
    /\ UNCHANGED <<up, liveVars, conf, mu, draft, file, closed, installed>>

(* s.conn.SetDeadline, whose error is ignored.                              *)
SetDeadline ==
    OnConn(Poll, "deadline",
           /\ Goto(Poll, "send")
           /\ UNCHANGED <<up, liveVars, conf, handleVars, use, draft, file, ghostVars>>)

(* s.conn.Write of the query; an error goes to reset.                       *)
SendQuery ==
    OnConn(Poll, "send",
           /\ \/ handle[use[Poll]] = "open" /\ Goto(Poll, "receive") /\ UNCHANGED used
              \/ handle[use[Poll]] = "shut" /\ Goto(Poll, "test") /\ UNCHANGED used
              \/ used.failures < MaxFailures /\ Spend("failures") /\ Goto(Poll, "test")
           /\ UNCHANGED <<up, liveVars, conf, handleVars, use, draft, file, closed,
                          installed>>)

(* s.br.ReadString reads the connection the reader was made for.            *)
Receive ==
    /\ Running
    /\ pc[Poll] = "receive"
    /\ \/ ~br[use[Poll]] /\ Panic(Poll)
       \/ /\ br[use[Poll]]
          /\ \/ handle[use[Poll]] = "open" /\ Leave(Poll) /\ UNCHANGED used
             \/ /\ handle[use[Poll]] # "open"
                /\ Goto(Poll, "test")
                /\ UNCHANGED <<use, used>>
             \/ /\ used.failures < MaxFailures
                /\ Spend("failures")
                /\ Goto(Poll, "test")
                /\ UNCHANGED use
          /\ UNCHANGED <<up, liveVars, conf, handleVars, draft, file, closed, installed>>

(* reset: if s.conn != nil, by the poll loop or by a close.                 *)
TestConn(g) ==
    /\ Running
    /\ pc[g] = "test"
    /\ \/ /\ handle[use[g]] # "nil"
          /\ Goto(g, "shut")
          /\ UNCHANGED <<use, closed>>
       \/ /\ handle[use[g]] = "nil"
          /\ closed' = IF g = Poll THEN closed ELSE closed \cup {use[g]}
          /\ Leave(g)
    /\ UNCHANGED <<up, liveVars, conf, handleVars, draft, file, installed, used>>

(* reset: s.conn.Close()                                                    *)
ShutConn(g) ==
    OnConn(g, "shut",
           /\ Goto(g, "clear")
           /\ handle' = [handle EXCEPT ![use[g]] = "shut"]
           /\ UNCHANGED <<up, liveVars, conf, br, mu, use, draft, file, ghostVars>>)

(* reset: s.conn = nil                                                      *)
ClearConn(g) ==
    /\ Running
    /\ pc[g] = "clear"
    /\ Goto(g, "reader")
    /\ handle' = [handle EXCEPT ![use[g]] = "nil"]
    /\ UNCHANGED <<up, liveVars, conf, br, mu, use, draft, file, ghostVars>>

(* reset: s.br = nil                                                        *)
ClearReader(g) ==
    /\ Running
    /\ pc[g] = "reader"
    /\ br' = [br EXCEPT ![use[g]] = FALSE]
    /\ closed' = IF g = Poll THEN closed ELSE closed \cup {use[g]}
    /\ Leave(g)
    /\ UNCHANGED <<up, liveVars, conf, handle, mu, draft, file, installed, used>>

------------------------------------------------------------------------------
(* A POST to /config: handleConfig.                                         *)

(* cfg := h.cfg under h.srcMu, and the body laid over it.                   *)
CopyConfig(r, b) ==
    /\ Running
    /\ pc[r] = "off"
    /\ draft' = [draft EXCEPT ![r] = Merge(cfg, b)]
    /\ Goto(r, "build")
    /\ UNCHANGED <<up, liveVars, conf, handleVars, use, file, ghostVars>>

(* Mutant of Build: a change that involves the IQ lane is also made live.   *)
BuildStoresConfig(r) ==
    /\ Running
    /\ pc[r] = "build"
    /\ \/ /\ iqMode \/ draft[r].source = "iq"
          /\ Goto(r, "truncate")
          /\ cfg' = draft[r]
          /\ UNCHANGED <<conf, draft>>
       \/ /\ ~iqMode /\ draft[r].source # "iq"
          /\ UNCHANGED cfg
          /\ IF Buildable(draft[r])
               THEN /\ conf' = [conf EXCEPT ![r] = draft[r]]
                    /\ Goto(r, "swap")
                    /\ UNCHANGED draft
               ELSE /\ Goto(r, "done")
                    /\ draft' = [draft EXCEPT ![r] = None]
                    /\ UNCHANGED conf
    /\ UNCHANGED <<up, iqMode, src, handleVars, use, file, ghostVars>>

(* A change that involves the IQ lane is only saved.  Otherwise             *)
(* buildSource, which may refuse the POST.                                  *)
Build(r) ==
    /\ Running
    /\ pc[r] = "build"
    /\ \/ /\ iqMode \/ draft[r].source = "iq"
          /\ Goto(r, "truncate")
          /\ UNCHANGED <<conf, draft>>
       \/ /\ ~iqMode /\ draft[r].source # "iq"
          /\ Buildable(draft[r])
          /\ conf' = [conf EXCEPT ![r] = draft[r]]
          /\ Goto(r, "swap")
          /\ UNCHANGED draft
       \/ /\ ~iqMode /\ draft[r].source # "iq"
          /\ ~Buildable(draft[r])
          /\ Goto(r, "done")
          /\ draft' = [draft EXCEPT ![r] = None]
          /\ UNCHANGED conf
    /\ UNCHANGED <<up, liveVars, handleVars, use, file, ghostVars>>

(* Where setSource goes after its h.srcMu section.                          *)
CloseAt(old) == IF old = None THEN "truncate"
                ELSE IF conf[old].source = "serial" THEN "close" ELSE "test"

(* Mutant of Swap: a source of the same config is not closed.               *)
SwapKeepsSame(r) ==
    /\ Running
    /\ pc[r] = "swap"
    /\ src' = r
    /\ cfg' = draft[r]
    /\ installed' = installed \cup {r}
    /\ LET old == IF src # None /\ conf[src] = draft[r] THEN None ELSE src
       IN  use' = [use EXCEPT ![r] = old] /\ Goto(r, CloseAt(old))
    /\ UNCHANGED <<up, iqMode, conf, handleVars, draft, file, closed, used>>

(* setSource under h.srcMu: take the old source, install the new one.       *)
Swap(r) ==
    /\ Running
    /\ pc[r] = "swap"
    /\ src' = r
    /\ cfg' = draft[r]
    /\ installed' = installed \cup {r}
    /\ use' = [use EXCEPT ![r] = src]
    /\ Goto(r, CloseAt(src))
    /\ UNCHANGED <<up, iqMode, conf, handleVars, draft, file, closed, used>>

(* saveConfig: os.WriteFile opens with O_TRUNC, or fails to.                *)
Truncate(r) ==
    /\ Running
    /\ pc[r] = "truncate"
    /\ \/ /\ file' = [top |-> None, size |-> 0]
          /\ Goto(r, "save")
          /\ UNCHANGED <<draft, used>>
       \/ /\ used.failures < MaxFailures
          /\ Spend("failures")
          /\ Goto(r, "done")
          /\ draft' = [draft EXCEPT ![r] = None]
          /\ UNCHANGED file
    /\ UNCHANGED <<up, liveVars, conf, handleVars, use, closed, installed>>

(* saveConfig: the write at offset 0; a longer text below it stays.         *)
Save(r) ==
    /\ Running
    /\ pc[r] = "save"
    /\ LET n == Size(draft[r])
       IN  file' = [top |-> draft[r], size |-> IF n > file.size THEN n ELSE file.size]
    /\ Goto(r, "done")
    /\ draft' = [draft EXCEPT ![r] = None]
    /\ UNCHANGED <<up, liveVars, conf, handleVars, use, ghostVars>>

------------------------------------------------------------------------------
(* The process: /quit, Ctrl-C or a crash stops it; main launches it.        *)

Stop ==
    /\ Running
    /\ used.stops < MaxStops
    /\ Spend("stops")
    /\ up' = "stopped"
    /\ UNCHANGED <<liveVars, conf, handleVars, goVars, file, closed, installed>>

(* What main builds from a loaded config c.                                 *)
Booted(c) == c.source # "iq" /\ Buildable(c)

Launch ==
    /\ ~Running
    /\ up' = "running"
    /\ cfg' = Loaded
    /\ iqMode' = (Loaded.source = "iq")
    /\ src' = IF Booted(Loaded) THEN Boot ELSE None
    /\ conf' = [o \in Object |-> IF o = Boot /\ Booted(Loaded) THEN Loaded ELSE None]
    /\ installed' = IF Booted(Loaded) THEN {Boot} ELSE {}
    /\ closed' = {}
    /\ handle' = [o \in Object |-> "nil"]
    /\ br' = [o \in Object |-> FALSE]
    /\ mu' = [o \in Object |-> None]
    /\ pc' = [g \in DOMAIN pc |-> IF g \notin Post THEN "idle"
                                  ELSE IF pc[g] = "off" THEN "off" ELSE "done"]
    /\ use' = [g \in DOMAIN use |-> None]
    /\ draft' = [r \in Post |-> None]
    /\ UNCHANGED <<file, used>>

------------------------------------------------------------------------------
Goroutine == Post \cup Steer \cup {Poll}

Init ==
    /\ up = "running"
    /\ \E c \in Config :
         /\ cfg = c
         /\ file = [top |-> c, size |-> Size(c)]
         /\ iqMode = (c.source = "iq")
         /\ src = IF Booted(c) THEN Boot ELSE None
         /\ conf = [o \in Object |-> IF o = Boot /\ Booted(c) THEN c ELSE None]
         /\ installed = IF Booted(c) THEN {Boot} ELSE {}
    /\ handle = [o \in Object |-> "nil"]
    /\ br = [o \in Object |-> FALSE]
    /\ mu = [o \in Object |-> None]
    /\ pc = [g \in Goroutine |-> IF g \in Post THEN "off" ELSE "idle"]
    /\ use = [g \in Goroutine |-> None]
    /\ draft = [r \in Post |-> None]
    /\ closed = {}
    /\ used = [steers |-> 0, failures |-> 0, stops |-> 0]

SerialStep(g) == Lock(g) \/ Open(g) \/ Write(g)
ResetStep(g)  == TestConn(g) \/ ShutConn(g) \/ ClearConn(g) \/ ClearReader(g)

PollStep ==
    \/ PollTake
    \/ SerialStep(Poll)
    \/ Reply
    \/ CheckConn
    \/ Dial
    \/ SetDeadline
    \/ SendQuery
    \/ Receive
    \/ ResetStep(Poll)

PostStep(r) ==
    \/ Build(r)
    \/ Swap(r)
    \/ CloseSerial(r)
    \/ ResetStep(r)
    \/ Truncate(r)
    \/ Save(r)

Environment ==
    \/ \E k \in Steer : Control(k)
    \/ \E r \in Post, b \in Body : CopyConfig(r, b)
    \/ Stop
    \/ Launch

Next ==
    \/ PollStep
    \/ \E k \in Steer : SerialStep(k)
    \/ \E r \in Post : PostStep(r)
    \/ Environment

Spec == Init /\ [][Next]_vars

(* Every runnable goroutine runs; serial and TCP calls end within their     *)
(* timeouts.  s.mu is a sync.Mutex, which hands over to a waiter that has   *)
(* starved for 1 ms, so a waiting close or set is strongly fair.            *)
Fairness ==
    /\ WF_vars(PollStep)
    /\ \A k \in Steer : WF_vars(SerialStep(k)) /\ SF_vars(Lock(k))
    /\ \A r \in Post : WF_vars(PostStep(r)) /\ SF_vars(CloseSerial(r))

FairSpec == Spec /\ Fairness

------------------------------------------------------------------------------
(* Properties.                                                              *)

InRead  == {"lock", "open", "write", "reply"}
InReset == {"test", "shut", "clear", "reader"}

(* Every variable has its type, and a goroutine has an object exactly while *)
(* it works on one.                                                         *)
TypeOK ==
    /\ up \in {"running", "stopped", "panicked"}
    /\ iqMode \in BOOLEAN
    /\ src \in Object \cup {None}
    /\ cfg \in Config
    /\ conf \in [Object -> Config \cup {None}]
    /\ handle \in [Object -> {"nil", "open", "shut"}]
    /\ br \in [Object -> BOOLEAN]
    /\ mu \in [Object -> Goroutine \cup {None}]
    /\ pc \in [Goroutine -> {"idle", "off", "check", "dial", "deadline", "send",
                             "receive", "build", "swap", "close", "truncate", "save",
                             "done", "aborted"} \cup InRead \cup InReset]
    /\ use \in [Goroutine -> Object \cup {None}]
    /\ \A g \in Goroutine :
         (use[g] = None) = (pc[g] \in {"idle", "off", "build", "swap", "truncate", "save",
                                       "done"})
    /\ \A g \in Goroutine : use[g] # None => conf[use[g]] # None
    /\ draft \in [Post -> Config \cup {None}]
    /\ file \in [top : Config \cup {None}, size : Nat]
    /\ closed \subseteq installed /\ installed \subseteq Object
    /\ used \in [steers : 0..MaxSteers, failures : 0..MaxFailures, stops : 0..MaxStops]

(* serial.go: read and set of the same radio cannot interleave bytes.  One  *)
(* object is protected by s.mu; a replaced object and its successor on the  *)
(* same port only by the exclusive open.                                    *)
Talking(g) == pc[g] \in {"write", "reply"}

OneTalker ==
    \A g, h \in Goroutine :
        Talking(g) /\ Talking(h) /\ conf[use[g]].port = conf[use[h]].port => g = h

(* However POSTs overlap, every source that was replaced has been closed,   *)
(* or the POST that replaced it is on its way to close it, or was aborted   *)
(* doing so: then the poll loop's own reset has closed the connection, and  *)
(* nothing opens another.  The live source is never closed.                 *)
ReplacedIsClosed ==
    \A o \in installed :
        IF o = src THEN o \notin closed
        ELSE \/ o \in closed
             \/ \E r \in Post :
                  /\ use[r] = o
                  /\ pc[r] \in {"close"} \cup InReset \/ (pc[r] = "aborted" /\ handle[o] = "nil")

(* /status: the config it reports is the config of the live source.         *)
StatusCoherent == src # None => conf[src] = cfg

(* Every POST is answered, although its close waits for a read in progress. *)
(* This is about serial sources; a POST that closes another may be aborted. *)
PostsAnswered ==
    \A r \in Post : pc[r] # "off" /\ Running ~> pc[r] = "done" \/ ~Running

------------------------------------------------------------------------------
(* What comments say, and the code does not keep.                           *)

Quiet == Running /\ \A g \in Goroutine : pc[g] \in {"idle", "off", "done", "aborted"}

(* main.go: setSource closes the old source so that a re-selected serial    *)
(* port is released before it is re-opened; close releases any held handle. *)
ReplacedHoldsNothing ==
    Quiet => \A o \in Object : handle[o] = "open" => o = src

(* main.go: a live swap from the config page takes effect on the next tick. *)
NoPanic == up # "panicked"

(* main.go: close releases any held handle on swap, web.go: "the live change *)
(* took effect": what handleConfig has begun it also saves and answers.     *)
NoAbort == \A r \in Post : pc[r] # "aborted"

(* main.go: the saved config file is the source of truth once created.      *)
SavedIsLive == Quiet /\ ~iqMode => Loaded = cfg

(* main.go: the saved config file is the source of truth once created; a    *)
(* process that is stopped must leave a file the next launch can read.      *)
StopLeavesFile == ~Running => file.top # None /\ file.size = Size(file.top)
=============================================================================
