----------------------------- MODULE SdrConnect -----------------------------
(***************************************************************************)
(* The SDRConnect source (helper/sdrconnect.go) under iqHub.run, which     *)
(* calls Start again after every failure, and under the readLoops, which   *)
(* call Tune and then reannounce.  Of the hub only its last announce is    *)
(* kept; how announces reach the Bridges is module IqHub.                  *)
(*                                                                         *)
(* The s.mu sections, one command and one message are single steps.        *)
(* SDRConnect takes the commands in order, some time after they were sent, *)
(* and reports every property it changes, for whomever it changes it.      *)
(***************************************************************************)
EXTENDS Naturals, Sequences

CONSTANTS
    Tuner,      \* readLoops that may receive tune requests
    Start,      \* the source goroutine
    Freq,       \* frequencies
    Rate,       \* sample rates of the device
    Target,     \* sdrcTargetRate
    Initial,    \* initialHz
    None,
    Movable,    \* the properties others change on the server
    MaxTunes,   \* bound: tune requests received
    MaxMoves,   \* bound: times the server changes by itself
    MaxDrops,   \* bound: connections the server drops
    MaxLate     \* bound: handshakes that run into their deadline

Prop == {"control", "rate", "centre"}

State == [control : BOOLEAN, rate : Rate, centre : Freq]

ConstantsOK ==
    /\ Start \notin Tuner
    /\ Initial \in Freq /\ Target \in Rate
    /\ None \notin Freq \cup Rate \cup State
    /\ Movable \subseteq Prop
    /\ {MaxTunes, MaxMoves, MaxDrops, MaxLate} \subseteq Nat

VARIABLES
    pc,          \* where each goroutine is
    alive,       \* the server still holds the connection Start uses
    centerHz,    \* s.centerHz
    sampleRate,  \* s.sampleRate
    canControl,  \* s.canControl
    have,        \* Start's haveRate, haveCentre and haveControl
    announced,   \* Start's local variable: the centre last announced
    val,         \* the announce Start is about to make
    req,         \* the frequency a readLoop is tuning to
    last,        \* a readLoop's copy of the last announce
    server,      \* SDRConnect's properties
    inbox,       \* commands on their way to it
    replies,     \* property messages on their way to Start
    told,        \* the hub's last announce
    used         \* ghost: events counted against the bounds

structVars == <<centerHz, sampleRate, canControl>>
startVars  == <<have, announced, val>>
tuneVars   == <<req, last>>
deviceVars == <<alive, server, inbox, replies>>
vars == <<pc, structVars, startVars, tuneVars, deviceVars, told, used>>

------------------------------------------------------------------------------
(* The two ends of the connection.                                          *)

Goto(g, l) == pc' = [pc EXCEPT ![g] = l]

At(l) == pc[Start] = l

(* A property_changed or a get_property_response.                           *)
Report(p, s) == [prop |-> p, of |-> s]

Get(p)    == [op |-> "get", prop |-> p, value |-> None]
Set(p, v) == [op |-> "set", prop |-> p, value |-> v]

(* Commands written to a connection the server has dropped are lost.        *)
Send(cmds) ==
    /\ inbox' = IF alive THEN inbox \o cmds ELSE inbox
    /\ UNCHANGED <<alive, server, replies>>

(* Start reads the next message.                                            *)
Message == Head(replies)

Read ==
    /\ replies # <<>>
    /\ replies' = Tail(replies)
    /\ UNCHANGED <<alive, server, inbox>>

(* SDRConnect takes a command.  It may keep another rate than the one set,  *)
(* and without control it keeps all of them.                                *)
Serve ==
    /\ alive
    /\ inbox # <<>>
    /\ inbox' = Tail(inbox)
    /\ LET c == Head(inbox)
       IN  \/ c.op = "get" /\ replies' = Append(replies, Report(c.prop, server))
                           /\ UNCHANGED server
           \/ c.op = "set" /\ ~server.control /\ UNCHANGED <<server, replies>>
           \/ /\ c.op = "set" /\ server.control
              /\ \E v \in IF c.prop = "rate" THEN Rate ELSE {c.value} :
                   /\ server' = [server EXCEPT ![c.prop] = v]
                   /\ replies' = Append(replies, Report(c.prop, server'))
    /\ UNCHANGED <<pc, structVars, startVars, tuneVars, alive, told, used>>

(* Its owner changes one property.                                          *)
Move(p, s) ==
    /\ used.moves < MaxMoves
    /\ used' = [used EXCEPT !.moves = @ + 1]
    /\ s # server
    /\ \A q \in Prop \ {p} : s[q] = server[q]
    /\ server' = s
    /\ replies' = IF alive THEN Append(replies, Report(p, s)) ELSE replies
    /\ UNCHANGED <<pc, structVars, startVars, tuneVars, alive, inbox, told>>

Drop ==
    /\ alive
    /\ used.drops < MaxDrops
    /\ used' = [used EXCEPT !.drops = @ + 1]
    /\ alive' = FALSE
    /\ inbox' = <<>>
    /\ UNCHANGED <<pc, structVars, startVars, tuneVars, server, replies, told>>

------------------------------------------------------------------------------
(* Start.                                                                   *)

Dial ==
    /\ At("dial")
    /\ Goto(Start, "ask")
    /\ alive' = TRUE
    /\ inbox' = <<>>
    /\ replies' = <<>>
    /\ UNCHANGED <<structVars, startVars, tuneVars, server, told, used>>

(* selected_device and the get_property requests.                           *)
Ask ==
    /\ At("ask")
    /\ Goto(Start, "gather")
    /\ Send(<<Get("control"), Get("rate"), Get("centre")>>)
    /\ UNCHANGED <<structVars, startVars, tuneVars, told, used>>

(* A message is applied to the struct, control only outside settle.         *)
Apply(m) ==
    /\ sampleRate' = IF m.prop = "rate" THEN m.of.rate ELSE sampleRate
    /\ centerHz' = IF m.prop = "centre" THEN m.of.centre ELSE centerHz

(* The handshake gathers until it has all three properties.                 *)
Gather ==
    /\ At("gather")
    /\ Read
    /\ Apply(Message)
    /\ canControl' = IF Message.prop = "control" THEN Message.of.control ELSE canControl
    /\ LET got == have \cup {Message.prop}
       IN  IF got # Prop THEN have' = got /\ UNCHANGED pc
           ELSE have' = {} /\ Goto(Start, IF canControl' THEN "narrow" ELSE "enable")
    /\ UNCHANGED <<announced, val, tuneVars, told, used>>

(* The deadline is tested after a message.                                  *)
GatherTooLate ==
    /\ At("gather")
    /\ used.late < MaxLate
    /\ used' = [used EXCEPT !.late = @ + 1]
    /\ Read
    /\ Apply(Message)
    /\ canControl' = IF Message.prop = "control" THEN Message.of.control ELSE canControl
    /\ have \cup {Message.prop} # Prop
    /\ have' = {}
    /\ Goto(Start, "dial")
    /\ UNCHANGED <<announced, val, tuneVars, told>>

(* With control: the target rate and the initial centre are set, one        *)
(* command after the other, and both are read back.                         *)
NarrowRate ==
    /\ At("narrow")
    /\ Goto(Start, "recentre")
    /\ Send(<<Set("rate", Target)>>)
    /\ UNCHANGED <<structVars, startVars, tuneVars, told, used>>

Recentre ==
    /\ At("recentre")
    /\ Goto(Start, "readback")
    /\ Send(<<Set("centre", Initial)>>)
    /\ UNCHANGED <<structVars, startVars, tuneVars, told, used>>

Readback ==
    /\ At("readback")
    /\ Goto(Start, "settle")
    /\ Send(<<Get("rate"), Get("centre")>>)
    /\ UNCHANGED <<structVars, startVars, tuneVars, told, used>>

Settle ==
    /\ At("settle")
    /\ Read
    /\ Apply(Message)
    /\ UNCHANGED <<pc, canControl, startVars, tuneVars, told, used>>

(* settle's time is over, whether or not the server has answered.           *)
SettleEnds ==
    /\ At("settle")
    /\ Goto(Start, "enable")
    /\ UNCHANGED <<structVars, startVars, tuneVars, deviceVars, told, used>>

(* The stream is enabled, and the s.mu section takes what to announce.      *)
TakeAnnounce ==
    /\ At("enable")
    /\ Goto(Start, "announce")
    /\ val' = [rate |-> sampleRate, centre |-> centerHz, control |-> canControl]
    /\ announced' = centerHz
    /\ UNCHANGED <<structVars, have, tuneVars, deviceVars, told, used>>

(* onStream: the hub stores the announce.                                   *)
AnnounceStream ==
    /\ At("announce")
    /\ Goto(Start, "loop")
    /\ told' = val
    /\ val' = None
    /\ UNCHANGED <<structVars, have, announced, tuneVars, deviceVars, used>>

(* Mutant of LoopCentre: the centre is compared with the one Tune pre-sets. *)
LoopCentreOfTune ==
    /\ At("loop")
    /\ Read
    /\ Message.prop = "centre"
    /\ LET hz == Message.of.centre
       IN  IF hz = centerHz THEN UNCHANGED <<pc, centerHz, announced, val>>
           ELSE /\ announced' = hz
                /\ centerHz' = hz
                /\ val' = [rate |-> sampleRate, centre |-> hz, control |-> canControl]
                /\ Goto(Start, "announce")
    /\ UNCHANGED <<sampleRate, canControl, have, tuneVars, told, used>>

(* The stream loop: only a centre other than the last announced counts.     *)
LoopCentre ==
    /\ At("loop")
    /\ Read
    /\ Message.prop = "centre"
    /\ LET hz == Message.of.centre
       IN  IF hz = announced THEN UNCHANGED <<pc, centerHz, announced, val>>
           ELSE /\ announced' = hz
                /\ centerHz' = hz
                /\ val' = [rate |-> sampleRate, centre |-> hz, control |-> canControl]
                /\ Goto(Start, "announce")
    /\ UNCHANGED <<sampleRate, canControl, have, tuneVars, told, used>>

(* The stream loop: every rate is announced, with s.centerHz.               *)
LoopRate ==
    /\ At("loop")
    /\ Read
    /\ Message.prop = "rate"
    /\ sampleRate' = Message.of.rate
    /\ val' = [rate |-> Message.of.rate, centre |-> centerHz, control |-> canControl]
    /\ Goto(Start, "announce")
    /\ UNCHANGED <<centerHz, canControl, have, announced, tuneVars, told, used>>

LoopControl ==
    /\ At("loop")
    /\ Read
    /\ Message.prop = "control"
    /\ canControl' = Message.of.control
    /\ UNCHANGED <<pc, centerHz, sampleRate, startVars, tuneVars, told, used>>

(* A read, or a write whose error Start looks at, fails.                    *)
StartFails ==
    /\ pc[Start] \in {"gather", "enable", "loop"}
    /\ ~alive
    /\ Goto(Start, "dial")
    /\ have' = {}
    /\ UNCHANGED <<structVars, announced, val, tuneVars, deviceVars, told, used>>

------------------------------------------------------------------------------
(* readLoop: Tune, then reannounce.                                         *)

Finish(t) ==
    /\ Goto(t, "idle")
    /\ req' = [req EXCEPT ![t] = None]
    /\ last' = [last EXCEPT ![t] = None]

(* Tune: the s.mu section keeps the centre, and the gate that follows.      *)
Tune(t, f) ==
    /\ pc[t] = "idle"
    /\ used.tunes < MaxTunes
    /\ used' = [used EXCEPT !.tunes = @ + 1]
    /\ centerHz' = f
    /\ IF canControl THEN Goto(t, "centre") /\ req' = [req EXCEPT ![t] = f]
       ELSE UNCHANGED <<pc, req>>
    /\ UNCHANGED <<sampleRate, canControl, startVars, last, deviceVars, told>>

TuneCentre(t) ==
    /\ pc[t] = "centre"
    /\ ~At("dial")
    /\ Goto(t, "vfo")
    /\ Send(<<Set("centre", req[t])>>)
    /\ UNCHANGED <<structVars, startVars, tuneVars, told, used>>

TuneVfo(t) ==
    /\ pc[t] = "vfo"
    /\ ~At("dial")
    /\ Goto(t, "renew")
    /\ UNCHANGED <<structVars, startVars, tuneVars, deviceVars, told, used>>

(* A write of Tune fails on a closed or dropped connection.                 *)
TuneFails(t) ==
    /\ pc[t] \in {"centre", "vfo"}
    /\ At("dial") \/ ~alive
    /\ Finish(t)
    /\ UNCHANGED <<structVars, startVars, deviceVars, told, used>>

(* reannounce: without an announce there is nothing to renew.               *)
Reannounce(t) ==
    /\ pc[t] = "renew"
    /\ \/ told # None /\ Goto(t, "store") /\ last' = [last EXCEPT ![t] = told]
                      /\ UNCHANGED req
       \/ told = None /\ Finish(t)
    /\ UNCHANGED <<structVars, startVars, deviceVars, told, used>>

(* reannounce: broadcastStream stores the copy with the new centre.         *)
StoreAnnounce(t) ==
    /\ pc[t] = "store"
    /\ told' = [last[t] EXCEPT !.centre = req[t]]
    /\ Finish(t)
    /\ UNCHANGED <<structVars, startVars, deviceVars, used>>

------------------------------------------------------------------------------
Init ==
    /\ pc = [g \in Tuner \cup {Start} |-> IF g = Start THEN "dial" ELSE "idle"]
    /\ alive = FALSE
    /\ centerHz = Initial
    /\ sampleRate = None
    /\ canControl = FALSE
    /\ have = {}
    /\ announced = None
    /\ val = None
    /\ req = [t \in Tuner |-> None]
    /\ last = [t \in Tuner |-> None]
    /\ server \in State
    /\ inbox = <<>>
    /\ replies = <<>>
    /\ told = None
    /\ used = [tunes |-> 0, moves |-> 0, drops |-> 0, late |-> 0]

Source ==
    \/ Dial
    \/ Ask
    \/ Gather
    \/ GatherTooLate
    \/ NarrowRate
    \/ Recentre
    \/ Readback
    \/ Settle
    \/ SettleEnds
    \/ TakeAnnounce
    \/ AnnounceStream
    \/ LoopCentre
    \/ LoopRate
    \/ LoopControl
    \/ StartFails

ReadLoop(t) ==
    \/ TuneCentre(t)
    \/ TuneVfo(t)
    \/ TuneFails(t)
    \/ Reannounce(t)
    \/ StoreAnnounce(t)

Environment ==
    \/ \E t \in Tuner, f \in Freq : Tune(t, f)
    \/ \E p \in Movable, s \in State : Move(p, s)
    \/ Serve
    \/ Drop

Next == Source \/ (\E t \in Tuner : ReadLoop(t)) \/ Environment

Spec == Init /\ [][Next]_vars

------------------------------------------------------------------------------
(* Properties.                                                              *)

(* Every variable has its type, and every local is live only where used.    *)
TypeOK ==
    /\ pc \in [Tuner \cup {Start} ->
                 {"dial", "ask", "gather", "narrow", "recentre", "readback", "settle",
                  "enable", "announce", "loop", "idle", "centre", "vfo", "renew", "store"}]
    /\ alive \in BOOLEAN /\ canControl \in BOOLEAN
    /\ centerHz \in Freq
    /\ sampleRate \in Rate \cup {None}
    /\ have \subseteq Prop
    /\ announced \in Freq \cup {None}
    /\ (val # None) = At("announce")
    /\ val # None => val \in State
    /\ \A t \in Tuner : /\ req[t] \in Freq \cup {None}
                        /\ (req[t] = None) = (pc[t] = "idle")
                        /\ (last[t] # None) = (pc[t] = "store")
    /\ server \in State
    /\ \A i \in DOMAIN replies : replies[i].prop \in Prop /\ replies[i].of \in State
    /\ told # None => told \in State
    /\ used \in [tunes : 0..MaxTunes, moves : 0..MaxMoves, drops : 0..MaxDrops,
                 late : 0..MaxLate]

(* Start streams, no readLoop is in a tune, and nothing is on its way.      *)
Quiet ==
    /\ At("loop")
    /\ alive
    /\ inbox = <<>> /\ replies = <<>>
    /\ \A t \in Tuner : pc[t] = "idle"

(* Whether or not settle waited long enough for the server's answers, and   *)
(* through drops and late handshakes, the announce comes to rest at the     *)
(* rate and the centre that the server applied.                             *)
Followed == Quiet => told.rate = server.rate /\ told.centre = server.centre

(* Tune's pre-set centre never hides the server's report of it: while the   *)
(* server is controllable throughout, Start comes to rest at its centre.    *)
StartKnows == Quiet /\ canControl => announced = server.centre /\ sampleRate = server.rate

------------------------------------------------------------------------------
(* What comments say, and the code does not keep.                           *)

(* iqsource.go: Controllable reports whether Tune can succeed.              *)
ControlFollowed == Quiet => canControl = server.control

(* sdrconnect.go: what is announced is what was read back, never a guess.   *)
NeverAGuess == Quiet /\ ~canControl => told.centre = server.centre

(* iqlane.go: when a source confirms a centre later, its own announce       *)
(* corrects the one reannounce made.                                        *)
TuneConfirmed == Quiet /\ canControl => told.centre = server.centre
=============================================================================
