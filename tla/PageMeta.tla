------------------------------ MODULE PageMeta ------------------------------
(***************************************************************************)
(* The frequency overlay of the Bridge page (the g functions of            *)
(* index.html): a connection to a helper on the meta lane, and metaVfo,    *)
(* the station that catches are logged under.                              *)
(*                                                                         *)
(* The page is one thread; the helper polls the radio and tells every      *)
(* connection at each reading (module MetaHub is about how it does).  Time *)
(* is left out: META_SETTLE_MS passes when Settle is taken.  A frame that  *)
(* makes the page hang up (bye, or a hello or stream it does not accept)   *)
(* does what ClickDisconnect does.                                         *)
(***************************************************************************)
EXTENDS Overlay, Sequences

CONSTANTS
    Socket,    \* the WebSockets that gConnect creates
    Freq,      \* frequencies in use
    Station,   \* META_STATION_HZ: closer ones are one station
    Queue,     \* bound: frames on the way to the page
    MaxMoves,  \* bound: turns of the dial
    MaxTunes,  \* bound: tunes by the page
    MaxDrops   \* bound: connections that the other side closes

ConstantsOK ==
    /\ Freq \subseteq Nat /\ Freq # {}
    /\ Station \in Nat \ {0}
    /\ Nothing \notin Socket \cup Freq
    /\ Queue \in Nat \ {0}
    /\ {MaxMoves, MaxTunes, MaxDrops} \subseteq Nat

VARIABLES
    wire,   \* each socket: frames from the helper
    asked,  \* the tune on its way to the radio, or Nothing
    dial,   \* the radio
    used    \* ghost: events counted against the bounds

pageVars == <<gws, gctl, vfo, pend, gbuttons>>
vars == <<pageVars, gconn, wire, asked, dial, twice, used>>

------------------------------------------------------------------------------
Spend(b, max) == used[b] < max /\ used' = [used EXCEPT ![b] = @ + 1]

(* A source that may not be steered may leave the flag out of its hello.    *)
Flag       == BOOLEAN \cup {Nothing}
Hello(c)   == [kind |-> "hello", ctl |-> c]
Reading(f) == [kind |-> "reading", hz |-> f]
Frame      == {Hello(c) : c \in Flag} \cup {Reading(f) : f \in Freq}

Same(f, g) == f - g \in (1 - Station)..(Station - 1)

------------------------------------------------------------------------------
(* gConnect: a socket that is still there is left to itself.                *)
ClickConnect(s) ==
    /\ gbuttons.connect
    /\ gconn[s] = "unused"
    /\ gws' = s
    /\ gconn' = [gconn EXCEPT ![s] = "connecting"]
    /\ twice' = (twice \/ Live # {})
    /\ UNCHANGED <<gctl, vfo, pend, gbuttons, wire, asked, dial, used>>

(* gDisconnect; the events of the socket are still to come.                 *)
ClickDisconnect ==
    /\ gbuttons.disconnect
    /\ gws # Nothing /\ gconn[gws] \in {"connecting", "open"}
    /\ gconn' = [gconn EXCEPT ![gws] = "closing"]
    /\ UNCHANGED <<pageVars, wire, asked, dial, twice, used>>

(* gTuneTo: the target is taken for the station at once.                    *)
TuneTo(f) ==
    /\ gws # Nothing /\ gconn[gws] = "open" /\ gctl
    /\ asked = Nothing   \* bound: one request on the way
    /\ Spend("tunes", MaxTunes)
    /\ vfo' = f
    /\ pend' = Nothing
    /\ asked' = f
    /\ UNCHANGED <<gws, gctl, gbuttons, gconn, wire, dial, twice>>

(* META_SETTLE_MS passes.                                                   *)
Settle ==
    /\ pend # Nothing /\ ~pend.held
    /\ pend' = [pend EXCEPT !.held = TRUE]
    /\ UNCHANGED <<gws, gctl, vfo, gbuttons, gconn, wire, asked, dial, twice, used>>

(* onopen, and the hello and the stream the helper greets with.             *)
Opened(s) ==
    /\ gconn[s] = "connecting"
    /\ gconn' = [gconn EXCEPT ![s] = "open"]
    /\ gbuttons' = [connect |-> FALSE, disconnect |-> TRUE]
    /\ \E c \in Flag : wire' = [wire EXCEPT ![s] = <<Hello(c), Reading(dial)>>]
    /\ UNCHANGED <<gws, gctl, vfo, pend, asked, dial, twice, used>>

(* Mutant of SetMeta: another frequency is compared with the station, which *)
(* there need not be.                                                       *)
SetMetaNeedsStation(hz) ==
    IF vfo = Nothing \/ Same(hz, vfo) THEN pend' = Nothing /\ UNCHANGED vfo
    ELSE IF pend = Nothing \/ ~Same(hz, pend.hz)
    THEN pend' = [hz |-> hz, held |-> FALSE] /\ UNCHANGED vfo
    ELSE IF pend.held THEN vfo' = hz /\ pend' = Nothing
    ELSE UNCHANGED <<vfo, pend>>

(* gSetMeta: a frequency of another station waits, and is adopted when a    *)
(* reading confirms it after META_SETTLE_MS.                                *)
SetMeta(hz) ==
    IF vfo # Nothing /\ Same(hz, vfo) THEN pend' = Nothing /\ UNCHANGED vfo
    ELSE IF pend = Nothing \/ ~Same(hz, pend.hz)
    THEN pend' = [hz |-> hz, held |-> FALSE] /\ UNCHANGED vfo
    ELSE IF pend.held THEN vfo' = hz /\ pend' = Nothing
    ELSE UNCHANGED <<vfo, pend>>

(* Mutant of OnMessage: the flag is taken as it comes.                      *)
OnMessageAsIs(s) ==
    /\ gconn[s] = "open" /\ wire[s] # <<>>
    /\ wire' = [wire EXCEPT ![s] = Tail(@)]
    /\ \/ Head(wire[s]).kind = "hello" /\ gctl' = Head(wire[s]).ctl /\ UNCHANGED <<vfo, pend>>
       \/ Head(wire[s]).kind = "reading" /\ SetMeta(Head(wire[s]).hz) /\ UNCHANGED gctl
    /\ UNCHANGED <<gws, gbuttons, gconn, asked, dial, twice, used>>

(* gHandleJSON: hello, whose flag counts only if it is true, or a reading   *)
(* in a stream, tune or meta frame.                                         *)
OnMessage(s) ==
    /\ gconn[s] = "open" /\ wire[s] # <<>>
    /\ wire' = [wire EXCEPT ![s] = Tail(@)]
    /\ \/ /\ Head(wire[s]).kind = "hello"
          /\ gctl' = (Head(wire[s]).ctl = TRUE)
          /\ UNCHANGED <<vfo, pend>>
       \/ Head(wire[s]).kind = "reading" /\ SetMeta(Head(wire[s]).hz) /\ UNCHANGED gctl
    /\ UNCHANGED <<gws, gbuttons, gconn, asked, dial, twice, used>>

(* Mutant of Teardown: the station of the session is kept.                  *)
TeardownKeepsStation ==
    /\ gws' = Nothing /\ gctl' = FALSE
    /\ pend' = Nothing
    /\ gbuttons' = [connect |-> TRUE, disconnect |-> FALSE]
    /\ UNCHANGED vfo

(* gTeardown.                                                               *)
Teardown ==
    /\ gws' = Nothing /\ gctl' = FALSE
    /\ vfo' = Nothing /\ pend' = Nothing
    /\ gbuttons' = [connect |-> TRUE, disconnect |-> FALSE]

(* onclose of any socket.                                                   *)
OnClose(s) ==
    /\ \/ gconn[s] = "closing" /\ UNCHANGED used
       \/ gconn[s] \in {"connecting", "open"} /\ Spend("drops", MaxDrops)
    /\ gconn' = [gconn EXCEPT ![s] = "gone"]
    /\ wire' = [wire EXCEPT ![s] = <<>>]
    /\ Teardown
    /\ UNCHANGED <<asked, dial, twice>>

------------------------------------------------------------------------------
(* A reading of the helper, to every connection.                            *)
Told ==
    /\ \E s \in Socket : gconn[s] = "open"
    /\ \A s \in Socket : Len(wire[s]) < Queue
    /\ wire' = [s \in Socket |-> IF gconn[s] = "open" THEN Append(wire[s], Reading(dial))
                             ELSE wire[s]]
    /\ UNCHANGED <<pageVars, gconn, asked, dial, twice, used>>

(* The radio is tuned, or not; and somebody turns its dial.                 *)
Tuned ==
    /\ asked # Nothing
    /\ dial' \in {asked, dial}
    /\ asked' = Nothing
    /\ UNCHANGED <<pageVars, gconn, wire, twice, used>>

Turned(f) ==
    /\ f # dial
    /\ Spend("moves", MaxMoves)
    /\ dial' = f
    /\ UNCHANGED <<pageVars, gconn, wire, asked, twice>>

------------------------------------------------------------------------------
Init ==
    /\ gws = Nothing /\ gctl = FALSE
    /\ vfo = Nothing /\ pend = Nothing
    /\ gbuttons = [connect |-> TRUE, disconnect |-> FALSE]
    /\ gconn = [s \in Socket |-> "unused"]
    /\ wire = [s \in Socket |-> <<>>]
    /\ asked = Nothing
    /\ dial \in Freq
    /\ twice = FALSE
    /\ used = [moves |-> 0, tunes |-> 0, drops |-> 0]

Arrives(s) == Opened(s) \/ OnMessage(s) \/ (gconn[s] = "closing" /\ OnClose(s))

Next ==
    \/ \E s \in Socket : ClickConnect(s) \/ Opened(s) \/ OnMessage(s) \/ OnClose(s)
    \/ ClickDisconnect
    \/ \E f \in Freq : TuneTo(f) \/ Turned(f)
    \/ Settle \/ Told \/ Tuned

(* Time passes, the network delivers, the helper polls and carries out.     *)
Fairness ==
    /\ WF_vars(Settle) /\ WF_vars(Told) /\ WF_vars(Tuned)
    /\ \A s \in Socket : WF_vars(Arrives(s))

Spec == Init /\ [][Next]_vars /\ Fairness

------------------------------------------------------------------------------
(* Properties.                                                              *)

(* Every variable has its type.                                             *)
TypeOK ==
    /\ gws \in Socket \cup {Nothing}
    /\ {gctl, twice} \subseteq BOOLEAN
    /\ vfo \in Freq \cup {Nothing}
    /\ pend # Nothing => pend \in [hz : Freq, held : BOOLEAN]
    /\ gbuttons \in [connect : BOOLEAN, disconnect : BOOLEAN]
    /\ gconn \in [Socket -> {"unused", "connecting", "open", "closing", "gone"}]
    /\ wire \in [Socket -> Seq(Frame)] /\ \A s \in Socket : Len(wire[s]) <= Queue + 1
    /\ asked \in Freq \cup {Nothing}
    /\ dial \in Freq

(* A page that stays connected comes to log under the station of the dial,  *)
(* after turns of it, small and large, and tunes that were refused.         *)
OverlayFollows == <>[](Live # {} => vfo # Nothing /\ Same(vfo, dial))

------------------------------------------------------------------------------
(* What comments say, and the code does not keep.                           *)

(* index.html: the teardown is safe to run late: it forgets no connection   *)
(* but its own.                                                             *)
HandleKept == \A s \in Socket : gconn[s] = "open" => gws = s
=============================================================================
