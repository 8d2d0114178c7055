------------------------------- MODULE Launch -------------------------------
(***************************************************************************)
(* Launches of the helper: main and setupLogging (helper/main.go,          *)
(* logging.go), and what the config page's /config and /quit do to the     *)
(* process and to the file all launches share (web.go, config.go).         *)
(*                                                                         *)
(* Each process reads the saved config, lays its flags over it, starts its *)
(* source, and only then finds out whether it has the address.  Processes  *)
(* with different addresses run side by side.  A config is the address and *)
(* the lane of its source; the poll interval, the source name and the IQ   *)
(* frequency, which only flags set, fare as the address does.  Requests    *)
(* within one process are module SourceSwap.                               *)
(***************************************************************************)
EXTENDS Naturals

CONSTANTS
    Launches,    \* bound: launches
    Address,     \* listen addresses
    Flag,        \* what launches may be given on the command line
    Default,     \* defaultConfig()
    None,
    MaxPosts,    \* bound: requests to /config
    MaxStops     \* bound: processes that are stopped

Proc   == 1..Launches  \* processes, in the order in which they are launched
Lane   == {"meta", "iq"}
Config == [listen : Address, source : Lane]
Open   == {"always", "never", "firstrun"}

ConstantsOK ==
    /\ None \notin Address \cup Lane \cup Config
    /\ Flag \subseteq [listen : Address \cup {None}, source : Lane \cup {None}, open : Open]
    /\ Default \in Config
    /\ {Launches, MaxPosts, MaxStops} \subseteq Nat

VARIABLES
    pc,     \* where each process is
    flags,  \* the flags of each process
    cfg,    \* cfg of main, later h.cfg
    first,  \* processes that found no file
    due,    \* processes whose goroutine is about to open the page
    shown,  \* ghost: processes that opened a page
    draft,  \* the config a process's POST is about to save
    cut,    \* processes between truncating the file and writing it
    file,   \* the saved config file
    lost,   \* ghost: <<q, p>> when p truncated the log of a running q
    last,   \* ghost: the config of the last save that came to its end
    clash,  \* ghost: a save was interrupted, or two overlapped
    used    \* ghost: events counted against the bounds

vars == <<pc, flags, cfg, first, due, shown, draft, cut, file, lost, last, clash, used>>

------------------------------------------------------------------------------
Goto(p, l) == pc' = [pc EXCEPT ![p] = l]

Spend(b, max) == used[b] < max /\ used' = [used EXCEPT ![b] = @ + 1]

Ready(p) == pc[p] \in {"serving", "quitting"}
Alive(p) == pc[p] \in {"starting", "bound"} \/ Ready(p)
InUse(a) == \E q \in Proc : (pc[q] = "bound" \/ Ready(q)) /\ cfg[q].listen = a

NoFile  == [top |-> None, whole |-> FALSE, there |-> FALSE]
Loaded  == IF file.whole THEN file.top ELSE Default

(* flag.Visit: explicitly set flags over the saved config.                  *)
Overlay(c, f) == [listen |-> IF f.listen = None THEN c.listen ELSE f.listen,
                  source |-> IF f.source = None THEN c.source ELSE f.source]

(* os.Create: what the log holds of other processes is gone.                *)
Truncates(p) == lost' = lost \cup {<<q, p>> : q \in {x \in Proc \ {p} : Ready(x)}}

(* Mutant of Load: the log file is opened first.                            *)
LoadLogs(p, f) ==
    /\ pc[p] = "off" /\ \A q \in 1..(p - 1) : pc[q] # "off"
    /\ flags' = [flags EXCEPT ![p] = f]
    /\ cfg' = [cfg EXCEPT ![p] = Overlay(Loaded, f)]
    /\ first' = IF file.there THEN first ELSE first \cup {p}
    /\ Truncates(p)
    /\ Goto(p, "starting")
    /\ UNCHANGED <<due, shown, draft, cut, file, last, clash, used>>

(* main up to net.Listen.  From here on the poll loop runs, or iq.run dials *)
(* the SDR server.                                                          *)
Load(p, f) ==
    /\ pc[p] = "off" /\ \A q \in 1..(p - 1) : pc[q] # "off"
    /\ flags' = [flags EXCEPT ![p] = f]
    /\ cfg' = [cfg EXCEPT ![p] = Overlay(Loaded, f)]
    /\ first' = IF file.there THEN first ELSE first \cup {p}
    /\ Goto(p, "starting")
    /\ UNCHANGED <<due, shown, draft, cut, file, lost, last, clash, used>>

(* Mutant of Listen: a launch that has not bound its address counts.        *)
ListenLocks(p) ==
    /\ pc[p] = "starting"
    /\ LET taken == \E q \in Proc \ {p} : Alive(q) /\ cfg[q].listen = cfg[p].listen
       IN /\ Goto(p, IF taken THEN "second" ELSE "bound")
          /\ shown' = IF taken /\ flags[p].open # "never" THEN shown \cup {p} ELSE shown
    /\ UNCHANGED <<flags, cfg, first, due, draft, cut, file, lost, last, clash, used>>

(* net.Listen.  An address in use means that the helper is already running: *)
(* its page is opened instead, where errors.Is finds syscall.EADDRINUSE in  *)
(* the error.  Windows reports WSAEADDRINUSE, which is not that: there the  *)
(* launch ends in log.Fatalf.                                               *)
Listen(p) ==
    /\ pc[p] = "starting"
    /\ LET taken == InUse(cfg[p].listen)
       IN \/ ~taken /\ Goto(p, "bound") /\ UNCHANGED shown
          \/ /\ taken /\ Goto(p, "second")
             /\ shown' = IF flags[p].open # "never" THEN shown \cup {p} ELSE shown
          \/ taken /\ Goto(p, "fatal") /\ UNCHANGED shown
    /\ UNCHANGED <<flags, cfg, first, due, draft, cut, file, lost, last, clash, used>>

(* setupLogging, the goroutine that opens the page, and http.Serve.         *)
Serve(p) ==
    /\ pc[p] = "bound"
    /\ Goto(p, "serving")
    /\ Truncates(p)
    /\ due' = IF flags[p].open = "always" \/ (flags[p].open = "firstrun" /\ p \in first)
                THEN due \cup {p} ELSE due
    /\ UNCHANGED <<flags, cfg, first, shown, draft, cut, file, last, clash, used>>

OpenPage(p) ==
    /\ p \in due /\ Ready(p)
    /\ due' = due \ {p}
    /\ shown' = shown \cup {p}
    /\ UNCHANGED <<pc, flags, cfg, first, draft, cut, file, lost, last, clash, used>>

------------------------------------------------------------------------------
(* The config page's requests, and the end of a process.                    *)

(* handleConfig: a copy of h.cfg with the page's fields laid over it.  A    *)
(* change that involves the IQ lane is only saved.                          *)
Post(p, s) ==
    /\ Ready(p) /\ draft[p] = None
    /\ Spend("posts", MaxPosts)
    /\ draft' = [draft EXCEPT ![p] = [cfg[p] EXCEPT !.source = s]]
    /\ cfg' = IF "iq" \in {cfg[p].source, s} THEN cfg ELSE [cfg EXCEPT ![p].source = s]
    /\ UNCHANGED <<pc, flags, first, due, shown, cut, file, lost, last, clash>>

(* os.WriteFile opens the file and truncates it ...                         *)
Truncate(p) ==
    /\ Ready(p) /\ draft[p] # None /\ p \notin cut
    /\ clash' = (clash \/ cut # {})
    /\ cut' = cut \cup {p}
    /\ file' = [top |-> None, whole |-> FALSE, there |-> TRUE]
    /\ UNCHANGED <<pc, flags, cfg, first, due, shown, draft, lost, last, used>>

(* Mutant of Save: what is written is h.cfg.                                *)
SaveLive(p) ==
    /\ Ready(p) /\ p \in cut
    /\ file' = [top |-> cfg[p], whole |-> TRUE, there |-> TRUE]
    /\ cut' = cut \ {p}
    /\ draft' = [draft EXCEPT ![p] = None]
    /\ last' = draft[p]
    /\ UNCHANGED <<pc, flags, cfg, first, due, shown, lost, clash, used>>

(* ... and writes it.  A longer text that another process wrote meanwhile   *)
(* leaves its tail.                                                         *)
Save(p) ==
    /\ Ready(p) /\ p \in cut
    /\ \E whole \in (IF file.top = None THEN {TRUE} ELSE BOOLEAN) :
         file' = [top |-> draft[p], whole |-> whole, there |-> TRUE]
    /\ cut' = cut \ {p}
    /\ draft' = [draft EXCEPT ![p] = None]
    /\ last' = draft[p]
    /\ UNCHANGED <<pc, flags, cfg, first, due, shown, lost, clash, used>>

(* handleQuit: the process goes on for 250 ms.                              *)
Quit(p) ==
    /\ pc[p] = "serving"
    /\ Spend("stops", MaxStops)
    /\ Goto(p, "quitting")
    /\ UNCHANGED <<flags, cfg, first, due, shown, draft, cut, file, lost, last, clash>>

Ends(p) ==
    /\ Goto(p, "exited")
    /\ clash' = (clash \/ p \in cut)
    /\ cut' = cut \ {p}
    /\ draft' = [draft EXCEPT ![p] = None]
    /\ UNCHANGED <<flags, cfg, first, due, shown, file, lost, last>>

Exit(p) == pc[p] = "quitting" /\ Ends(p) /\ UNCHANGED used

(* The process is killed, or fails to listen for another reason.            *)
Crash(p) == Alive(p) /\ Spend("stops", MaxStops) /\ Ends(p)

------------------------------------------------------------------------------
Init ==
    /\ pc = [p \in Proc |-> "off"]
    /\ flags = [p \in Proc |-> None]
    /\ cfg = [p \in Proc |-> None]
    /\ first = {} /\ due = {} /\ shown = {} /\ cut = {} /\ lost = {}
    /\ draft = [p \in Proc |-> None]
    /\ file \in {NoFile, [top |-> Default, whole |-> TRUE, there |-> TRUE]}
    /\ last = None /\ clash = FALSE
    /\ used = [posts |-> 0, stops |-> 0]

ProcStep(p) ==
    \/ Listen(p)
    \/ Serve(p)
    \/ OpenPage(p)
    \/ Truncate(p)
    \/ Save(p)
    \/ Exit(p)

Next ==
    \E p \in Proc :
        \/ ProcStep(p)
        \/ \E f \in Flag : Load(p, f)
        \/ \E s \in Lane : Post(p, s)
        \/ Quit(p)
        \/ Crash(p)

Spec == Init /\ [][Next]_vars

------------------------------------------------------------------------------
(* Properties.                                                              *)

(* Every variable has its type, and a process that is cut has a draft.      *)
TypeOK ==
    /\ pc \in [Proc -> {"off", "starting", "bound", "serving", "quitting", "second",
                        "fatal", "exited"}]
    /\ cfg \in [Proc -> Config \cup {None}] /\ flags \in [Proc -> Flag \cup {None}]
    /\ \A p \in Proc : (pc[p] = "off") = (cfg[p] = None)
    /\ {first, due, shown, cut} \subseteq SUBSET Proc
    /\ draft \in [Proc -> Config \cup {None}]
    /\ \A p \in cut : draft[p] # None /\ Ready(p)
    /\ file \in [top : Config \cup {None}, whole : BOOLEAN, there : BOOLEAN]
    /\ lost \subseteq Proc \X Proc
    /\ last \in Config \cup {None} /\ clash \in BOOLEAN

(* main.go: "a second launch never clobbers the running instance's log".  A *)
(* launch on another address is no second launch of that instance.          *)
LogKept == \A x \in lost : cfg[x[1]].listen # cfg[x[2]].listen

(* config.go: whatever processes save, the file is read back as the last    *)
(* save left it, unless a save was interrupted or two of them overlapped.   *)
SaveReadBack == ~clash /\ cut = {} /\ last # None => Loaded = last

(* main.go: "If it's already in use, the helper is almost certainly already *)
(* running": of launches that race for an address, those that give way give *)
(* way to one that got it, and has it until it is stopped.                  *)
GivesWay ==
    \A p \in Proc : pc[p] \in {"second", "fatal"} =>
        \E q \in Proc \ {p} :
            /\ cfg[q] # None /\ cfg[q].listen = cfg[p].listen
            /\ Ready(q) \/ pc[q] \in {"bound", "exited"}

------------------------------------------------------------------------------
(* What comments say, and the code does not keep.                           *)

(* main.go: "Double-clicking the file again therefore always shows the      *)
(* page, whether or not one was already running": a launch that is over, or *)
(* that serves and has nothing left to open, has opened one.  It has not on *)
(* Windows, where a launch that finds its address in use ends as "fatal".   *)
PageShown ==
    \A p \in Proc :
        /\ pc[p] \in {"second", "fatal"} \/ (Ready(p) /\ p \notin due)
        /\ flags[p].open = "always"
        => p \in shown

(* main.go: "explicitly-set flags override it for this run only": nothing   *)
(* but a flag ever names an address, so the file keeps the default one.     *)
FlagsForOneRun == last # None => last.listen = Default.listen

(* main.go: a second launch must "just open the running instance's page and *)
(* exit cleanly": it does not talk to the SDR server that instance uses.    *)
SecondIsQuiet ==
    \A p, q \in Proc :
        Ready(q) /\ pc[p] = "starting" /\ cfg[p] = cfg[q] /\ p # q => cfg[p].source # "iq"

(* web.go: "Restart the helper to switch to this source": once an instance  *)
(* was told to stop, launching it again leaves one that runs.               *)
RestartRuns ==
    [][\A p \in Proc :
         pc[p] = "starting" /\ pc'[p] = "second" =>
             \E q \in Proc : cfg[q] # None /\ cfg[q].listen = cfg[p].listen
                            /\ pc[q] \in {"bound", "serving"}]_vars
=============================================================================
