----------------------------- MODULE SpyServer -----------------------------
(***************************************************************************)
(* The SpyServer source (helper/spyserver.go) under iqHub.run, which calls *)
(* Start again after every failure, and under the readLoops, which call    *)
(* Tune and then reannounce.  Of the hub only the centre of its last       *)
(* announce is kept; how announces reach the Bridges is module IqHub.      *)
(*                                                                         *)
(* The s.mu sections are single steps.  A command is two conn.Writes, its  *)
(* header and its body, and nothing keeps another goroutine's writes out   *)
(* of the gap: the server reads what arrives.  Settings that carry neither *)
(* a frequency nor the end of the set-up stand as one command.             *)
(*                                                                         *)
(* The server has its own life: its owner or another client may move it or *)
(* take and give control, and it reports both in ClientSync messages.      *)
(***************************************************************************)
EXTENDS Naturals, Sequences

CONSTANTS
    Tuner,     \* readLoops that may receive tune requests
    Start,     \* the source goroutine
    Freq,      \* frequencies
    Initial,   \* initialHz
    None,
    Confirms,  \* whether the server reports the centre a client set
    MaxTunes,  \* bound: tune requests received
    MaxMoves,  \* bound: times the server changes by itself
    MaxDrops   \* bound: connections the server drops

Goroutine == Tuner \cup {Start}

ConstantsOK ==
    /\ Start \notin Tuner
    /\ Initial \in Freq
    /\ None \notin Freq \cup Goroutine
    /\ Confirms \in BOOLEAN
    /\ {MaxTunes, MaxMoves, MaxDrops} \subseteq Nat

VARIABLES
    pc,          \* where each goroutine is
    conn,        \* s.conn: the number of the dial, 0 for nil
    alive,       \* the server still holds the connection Start uses
    centerHz,    \* s.centerHz
    canControl,  \* s.canControl
    announced,   \* Start's local variable: the centre last announced
    req,         \* the frequency a goroutine is setting
    half,        \* the connection that took a command's header, 0 for none
    wire,        \* the server: the goroutine whose body it waits for, or None
    garbled,     \* the server took one goroutine's bytes for another's
    server,      \* the server's [iq, fft, control]
    syncs,       \* ClientSync messages on their way to Start
    told,        \* the centre of the hub's last announce
    used         \* ghost: events counted against the bounds

deviceVars == <<wire, garbled, server, syncs>>
sourceVars == <<conn, alive, centerHz, canControl, announced>>
vars == <<pc, req, half, sourceVars, deviceVars, told, used>>

------------------------------------------------------------------------------
(* Writing a command.                                                       *)

Goto(g, l) == pc' = [pc EXCEPT ![g] = l]

Sync == [iq |-> server.iq, control |-> server.control]

(* The server obeys a frequency setting of a client that has control; some  *)
(* servers report the new centre.                                           *)
Obey(what, f) ==
    IF server.control /\ what # "other"
    THEN /\ server' = [server EXCEPT ![what] = f]
         /\ syncs' = IF Confirms /\ what = "iq"
                     THEN Append(syncs, [iq |-> f, control |-> TRUE]) ELSE syncs
    ELSE UNCHANGED <<server, syncs>>

(* send's conn is still open: Start closes its own when it returns.         *)
Open(g) == pc[Start] # "dial" /\ half[g] \in {0, conn}

(* The header of a command; what the server makes of one it did not expect. *)
Header(g) ==
    /\ half' = [half EXCEPT ![g] = conn]
    /\ wire' = IF alive /\ wire = None THEN g ELSE wire
    /\ garbled' = (garbled \/ (alive /\ wire # None))
    /\ UNCHANGED <<server, syncs>>

(* The body, at which a server that is still in step acts.                  *)
SendBody(g, what, f) ==
    /\ half' = [half EXCEPT ![g] = 0]
    /\ wire' = IF wire = g THEN None ELSE wire
    /\ garbled' = (garbled \/ (alive /\ wire # g))
    /\ IF alive /\ wire = g /\ ~garbled THEN Obey(what, f)
       ELSE UNCHANGED <<server, syncs>>

(* Goroutine g writes one command at label l and goes on to next.           *)
Command(g, l, what, f, next) ==
    /\ pc[g] = l
    /\ Open(g)
    /\ \/ half[g] = 0 /\ Header(g) /\ UNCHANGED pc
       \/ half[g] # 0 /\ SendBody(g, what, f) /\ Goto(g, next)
    /\ UNCHANGED <<req, sourceVars, told, used>>

------------------------------------------------------------------------------
(* Start.                                                                   *)

(* The dial and the s.mu section that sets s.conn.  The server greets a     *)
(* client with DeviceInfo and one ClientSync.                               *)
Dial ==
    /\ pc[Start] = "dial"
    /\ Goto(Start, "hello")
    /\ conn' = conn + 1
    /\ alive' = TRUE
    /\ wire' = None
    /\ garbled' = FALSE
    /\ syncs' = <<Sync>>
    /\ UNCHANGED <<centerHz, canControl, announced, req, half, server, told, used>>

Hello == Command(Start, "hello", "other", None, "handshake")

(* Mutant of Handshake: a read-only server's centre is not taken.           *)
HandshakeOfControl ==
    /\ pc[Start] = "handshake"
    /\ ~garbled
    /\ syncs # <<>>
    /\ Goto(Start, "format")
    /\ canControl' = Head(syncs).control
    /\ syncs' = Tail(syncs)
    /\ UNCHANGED <<conn, alive, centerHz, announced, req, half, wire, garbled, server,
                   told, used>>

(* The ClientSync of the handshake: control, and the real centre of a       *)
(* read-only server.                                                        *)
Handshake ==
    /\ pc[Start] = "handshake"
    /\ ~garbled
    /\ syncs # <<>>
    /\ Goto(Start, "format")
    /\ LET s == Head(syncs)
       IN  /\ canControl' = s.control
           /\ centerHz' = IF s.control THEN centerHz ELSE s.iq
    /\ syncs' = Tail(syncs)
    /\ UNCHANGED <<conn, alive, announced, req, half, wire, garbled, server, told, used>>

(* Streaming mode, formats, decimation and FFT display.                     *)
Configure == Command(Start, "format", "other", None, "centre")

(* s.mu section: with control the initial centre is set, else the announced *)
(* one is what the server reported.                                         *)
ChooseCentre ==
    /\ pc[Start] = "centre"
    /\ LET c == IF canControl THEN Initial ELSE centerHz
       IN  /\ centerHz' = c
           /\ announced' = c
           /\ req' = [req EXCEPT ![Start] = c]
    /\ Goto(Start, IF canControl THEN "setiq" ELSE "enable")
    /\ UNCHANGED <<conn, alive, canControl, half, deviceVars, told, used>>

SetIq == Command(Start, "setiq", "iq", req[Start], "setfft")

SetFft == Command(Start, "setfft", "fft", req[Start], "enable")
Enable == Command(Start, "enable", "other", None, "announce")

(* onStream: the hub stores the announce.                                   *)
AnnounceStream ==
    /\ pc[Start] = "announce"
    /\ Goto(Start, "loop")
    /\ told' = req[Start]
    /\ req' = [req EXCEPT ![Start] = None]
    /\ UNCHANGED <<half, sourceVars, deviceVars, used>>

(* A ClientSync in the stream loop: only its centre is looked at, and only  *)
(* one other than the last announced is announced.                          *)
ClientSync ==
    /\ pc[Start] = "loop"
    /\ syncs # <<>>
    /\ syncs' = Tail(syncs)
    /\ LET f == Head(syncs).iq
       IN  IF f = announced THEN UNCHANGED <<pc, req, centerHz, announced>>
           ELSE /\ announced' = f
                /\ centerHz' = f
                /\ req' = [req EXCEPT ![Start] = f]
                /\ Goto(Start, "announce")
    /\ UNCHANGED <<conn, alive, canControl, half, wire, garbled, server, told, used>>

(* Mutant of StartFails: a read error in the stream loop does not end it.   *)
StartFailsInSetup ==
    /\ pc[Start] \notin {"dial", "loop"}
    /\ ~alive
    /\ Goto(Start, "dial")
    /\ req' = [req EXCEPT ![Start] = None]
    /\ half' = [half EXCEPT ![Start] = 0]
    /\ syncs' = <<>>
    /\ UNCHANGED <<sourceVars, wire, garbled, server, told, used>>

(* A read or a write fails: Start returns and closes its conn; s.conn and   *)
(* s.canControl keep their values until the next handshake.                 *)
StartFails ==
    /\ pc[Start] # "dial"
    /\ ~alive
    /\ Goto(Start, "dial")
    /\ req' = [req EXCEPT ![Start] = None]
    /\ half' = [half EXCEPT ![Start] = 0]
    /\ syncs' = <<>>
    /\ UNCHANGED <<sourceVars, wire, garbled, server, told, used>>

------------------------------------------------------------------------------
(* readLoop: Tune, then reannounce.                                         *)

(* Tune: the s.mu section keeps the centre, and the gates that follow.      *)
Tune(t, f) ==
    /\ pc[t] = "idle"
    /\ used.tunes < MaxTunes
    /\ used' = [used EXCEPT !.tunes = @ + 1]
    /\ centerHz' = f
    /\ IF canControl /\ conn # 0
         THEN Goto(t, "setiq") /\ req' = [req EXCEPT ![t] = f]
         ELSE UNCHANGED <<pc, req>>
    /\ UNCHANGED <<conn, alive, canControl, announced, half, deviceVars, told>>

TuneIq(t) == Command(t, "setiq", "iq", req[t], "setfft")

TuneFft(t) == Command(t, "setfft", "fft", req[t], "renew")

(* A write of Tune fails on a closed or dropped connection.                 *)
TuneFails(t) ==
    /\ pc[t] \in {"setiq", "setfft"}
    /\ ~Open(t) \/ ~alive
    /\ Goto(t, "idle")
    /\ req' = [req EXCEPT ![t] = None]
    /\ half' = [half EXCEPT ![t] = 0]
    /\ UNCHANGED <<sourceVars, deviceVars, told, used>>

(* reannounce: without an announce there is nothing to renew.               *)
Reannounce(t) ==
    /\ pc[t] = "renew"
    /\ \/ told # None /\ Goto(t, "store") /\ UNCHANGED req
       \/ told = None /\ Goto(t, "idle") /\ req' = [req EXCEPT ![t] = None]
    /\ UNCHANGED <<half, sourceVars, deviceVars, told, used>>

(* reannounce: broadcastStream stores the new centre.                       *)
StoreAnnounce(t) ==
    /\ pc[t] = "store"
    /\ Goto(t, "idle")
    /\ told' = req[t]
    /\ req' = [req EXCEPT ![t] = None]
    /\ UNCHANGED <<half, sourceVars, deviceVars, used>>

------------------------------------------------------------------------------
(* The server.                                                              *)

Move(s) ==
    /\ used.moves < MaxMoves
    /\ used' = [used EXCEPT !.moves = @ + 1]
    /\ s # server
    /\ server' = s
    /\ syncs' = IF alive THEN Append(syncs, [iq |-> s.iq, control |-> s.control]) ELSE syncs
    /\ UNCHANGED <<pc, req, half, sourceVars, wire, garbled, told>>

Drop ==
    /\ alive
    /\ used.drops < MaxDrops
    /\ used' = [used EXCEPT !.drops = @ + 1]
    /\ alive' = FALSE
    /\ UNCHANGED <<pc, req, half, conn, centerHz, canControl, announced, deviceVars, told>>

------------------------------------------------------------------------------
Init ==
    /\ pc = [g \in Goroutine |-> IF g = Start THEN "dial" ELSE "idle"]
    /\ conn = 0
    /\ alive = FALSE
    /\ centerHz = Initial
    /\ canControl = FALSE
    /\ announced = None
    /\ req = [g \in Goroutine |-> None]
    /\ half = [g \in Goroutine |-> 0]
    /\ wire = None
    /\ garbled = FALSE
    /\ server \in [iq : Freq, fft : Freq, control : BOOLEAN]
    /\ server.fft = server.iq
    /\ syncs = <<>>
    /\ told = None
    /\ used = [tunes |-> 0, moves |-> 0, drops |-> 0]

Source ==
    \/ Dial
    \/ Hello
    \/ Handshake
    \/ Configure
    \/ ChooseCentre
    \/ SetIq
    \/ SetFft
    \/ Enable
    \/ AnnounceStream
    \/ ClientSync
    \/ StartFails

ReadLoop(t) == TuneIq(t) \/ TuneFft(t) \/ TuneFails(t) \/ Reannounce(t) \/ StoreAnnounce(t)

Environment ==
    \/ \E t \in Tuner, f \in Freq : Tune(t, f)
    \/ \E f \in Freq, c \in BOOLEAN : Move([iq |-> f, fft |-> f, control |-> c])
    \/ Drop

Next == Source \/ (\E t \in Tuner : ReadLoop(t)) \/ Environment

Spec == Init /\ [][Next]_vars

(* The source goroutine and every readLoop run; a dial succeeds when the    *)
(* server is there, and every write ends within its deadline.               *)
Fairness == WF_vars(Source) /\ \A t \in Tuner : WF_vars(ReadLoop(t))

FairSpec == Spec /\ Fairness

------------------------------------------------------------------------------
(* Properties.                                                              *)

(* Every variable has its type, and every local is live only where used.    *)
TypeOK ==
    /\ pc \in [Goroutine -> {"dial", "hello", "handshake", "format", "centre", "enable",
                             "announce", "loop", "idle", "setiq", "setfft", "renew", "store"}]
    /\ conn \in 0..(MaxDrops + 1)
    /\ alive \in BOOLEAN /\ canControl \in BOOLEAN /\ garbled \in BOOLEAN
    /\ centerHz \in Freq
    /\ announced \in Freq \cup {None}
    /\ req \in [Goroutine -> Freq \cup {None}]
    /\ \A g \in Goroutine : pc[g] \in {"setiq", "setfft", "renew", "store", "announce"}
                            => req[g] # None
    /\ half \in [Goroutine -> 0..conn]
    /\ wire \in Goroutine \cup {None}
    /\ server \in [iq : Freq, fft : Freq, control : BOOLEAN]
    /\ syncs \in Seq([iq : Freq, control : BOOLEAN])
    /\ told \in Freq \cup {None}
    /\ used \in [tunes : 0..MaxTunes, moves : 0..MaxMoves, drops : 0..MaxDrops]

(* Start streams, no readLoop is in a tune, and no report is on its way.    *)
Quiet ==
    /\ pc[Start] = "loop"
    /\ alive
    /\ syncs = <<>>
    /\ \A t \in Tuner : pc[t] = "idle"

(* A read-only server that moves by itself is followed through drops and    *)
(* redials: the hub, Start and s.centerHz have the last centre it reported. *)
Followed ==
    Quiet /\ ~canControl => told = server.iq /\ announced = told /\ centerHz = told

(* Whatever Bridges and others do to a server that reports every change,    *)
(* Start's idea of the centre comes to rest at the server's, Tune's pre-set *)
(* centre notwithstanding.                                                  *)
StartKnows == Quiet /\ ~garbled /\ canControl /\ Confirms => announced = server.iq

(* The source comes back: with finitely many drops it ends up streaming.    *)
Recovers == <>[](alive /\ pc[Start] \in {"loop", "announce"})

------------------------------------------------------------------------------
(* What comments say, and the code does not keep.                           *)

(* iqsource.go: Tune is safe to call concurrently with Start.               *)
CommandsWhole == ~garbled

(* spyserver.go: the waterfall centre is kept aligned with the centre of    *)
(* the samples.                                                             *)
FftAligned == Quiet /\ ~garbled => server.fft = server.iq

(* spyserver.go: a read-only source announces the server's real centre; a   *)
(* refused tune must not change that.                                       *)
ReadOnlyHonest == Quiet /\ ~canControl => told = server.iq

(* iqlane.go: a tune that returned no error is the centre, and a later      *)
(* report of the source corrects it.                                        *)
ReportsCorrect == Quiet /\ ~garbled /\ canControl => told = server.iq

(* iqsource.go: Controllable reports whether Tune can succeed.              *)
ControlFollowed == Quiet => canControl = server.control
=============================================================================
