------------------------------- MODULE PageIq -------------------------------
(***************************************************************************)
(* The network-SDR lane of the Bridge page (the niq functions of           *)
(* index.html), with what it shares with the other lanes: the source       *)
(* selector (setSource), the decode worker and the file player.            *)
(*                                                                         *)
(* The page is one thread: every handler is a step.  What interleaves is   *)
(* the user, the frames on the way, and the events of sockets.  close()    *)
(* returns at once and a socket's close event comes later; between the two *)
(* the browser delivers none of its frames.  The helper is one hub with a  *)
(* centre that tunes, and others, change.                                  *)
(***************************************************************************)
EXTENDS Integers, Sequences

CONSTANTS
    Socket,       \* the WebSockets that niqConnect creates
    Freq,         \* frequencies in use
    Span,         \* srate/2 - 20000: a tune this close is a decode offset
    None,
    MaxTunes,     \* bound: tunes by the user
    MaxMoves,     \* bound: retunes of the helper by others
    MaxDrops,     \* bound: connections that the other side closes
    MaxSwitches   \* bound: clicks on the source selector

ConstantsOK ==
    /\ Freq \subseteq Nat /\ Freq # {}
    /\ Span \in Nat
    /\ None \notin Socket \cup Freq
    /\ {MaxTunes, MaxMoves, MaxDrops, MaxSwitches} \subseteq Nat

VARIABLES
    mode,      \* sourceMode: "sdr", "wsiq" or "file"
    sock,      \* niqSock
    ctl,       \* niqControllable
    dial,      \* niqVfoHz
    buttons,   \* enabled: [connect, disconnect, readout]
    sink,      \* createIq16Sink: [active, centre, vfo, off]
    worker,    \* [on, off, lane]: the analysis timer, the offset, who set it
    playing,   \* the file player plays
    conn,      \* each socket: "unused", "connecting", "open", "closing", "gone"
    wire,      \* each socket: frames from the helper
    asked,     \* each socket: the tune on its way to the helper, or None
    hub,       \* the centre of the helper's last announce
    used       \* ghost: events counted against the bounds

pageVars == <<mode, sock, ctl, dial, buttons, sink, worker, playing>>
netVars  == <<conn, wire, asked, hub>>
vars == <<pageVars, netVars, used>>

------------------------------------------------------------------------------
(* Helpers.                                                                 *)

Spend(b) == used' = [used EXCEPT ![b] = @ + 1]

Frame(k, f, c) == [kind |-> k, hz |-> f, ctl |-> c]

(* broadcastStream: to every connection the helper has.                     *)
Announce(f) ==
    /\ hub' = f
    /\ wire' = [s \in Socket |-> IF conn[s] = "open"
                                 THEN Append(wire[s], Frame("stream", f, TRUE))
                                 ELSE wire[s]]

(* close() on a socket: an open or connecting one will get its close event. *)
Close(s) ==
    IF s # None /\ conn[s] \in {"open", "connecting"}
    THEN conn' = [conn EXCEPT ![s] = "closing"]
    ELSE UNCHANGED conn

InSpan(f) == sink.centre # None /\ f - sink.centre \in -Span..Span

(* sink.setVfo: the offset goes to the worker only when it changes.         *)
SetVfo(f) ==
    IF sink.active
    THEN LET o == f - sink.centre
         IN  /\ sink' = [sink EXCEPT !.vfo = f, !.off = o]
             /\ worker' = IF o # sink.off THEN [worker EXCEPT !.off = o] ELSE worker
    ELSE UNCHANGED <<sink, worker>>

(* niqTeardown, all but the sink and the worker.                            *)
Forget ==
    /\ sock' = None
    /\ ctl' = FALSE
    /\ buttons' = [connect |-> TRUE, disconnect |-> FALSE,
                   readout |-> IF mode = "wsiq" THEN FALSE ELSE buttons.readout]

(* Mutant of Teardown: the sink is left as it is.                           *)
TeardownKeepsSink ==
    /\ Forget
    /\ worker' = [worker EXCEPT !.on = FALSE]
    /\ UNCHANGED sink

(* niqTeardown: the socket is forgotten and decoding stops.                 *)
Teardown ==
    /\ Forget
    /\ sink' = [sink EXCEPT !.active = FALSE]
    /\ worker' = [worker EXCEPT !.on = FALSE]

------------------------------------------------------------------------------
(* The user.                                                                *)

(* niqConnect: a socket that is still there is closed, its handlers stay.   *)
ClickConnect(s) ==
    /\ mode = "wsiq"
    /\ buttons.connect
    /\ conn[s] = "unused"
    /\ sock' = s
    /\ conn' = [t \in Socket |-> IF t = s THEN "connecting"
                                 ELSE IF t = sock /\ conn[t] \in {"open", "connecting"}
                                      THEN "closing" ELSE conn[t]]
    /\ UNCHANGED <<mode, ctl, dial, buttons, sink, worker, playing, wire, asked, hub, used>>

(* niqDisconnect.                                                           *)
ClickDisconnect ==
    /\ mode = "wsiq"
    /\ buttons.disconnect
    /\ Close(sock)
    /\ UNCHANGED <<pageVars, wire, asked, hub, used>>

(* niqTuneTo: within the span a decode offset, else a request to the helper;*)
(* a socket that is gone or closing takes no request.                       *)
TuneTo(f) ==
    /\ mode = "wsiq" /\ sink.active /\ ctl
    /\ used.tunes < MaxTunes
    /\ Spend("tunes")
    /\ dial' = f
    /\ IF InSpan(f)
       THEN SetVfo(f) /\ UNCHANGED asked
       ELSE /\ sock # None => asked[sock] = None   \* bound: one request on the way
            /\ asked' = IF sock # None /\ conn[sock] = "open"
                        THEN [asked EXCEPT ![sock] = f] ELSE asked
            /\ UNCHANGED <<sink, worker>>
    /\ UNCHANGED <<mode, sock, ctl, buttons, playing, conn, wire, hub>>

(* setSource to another lane from this one: wsiqLeave is niqDisconnect and  *)
(* niqTeardown; the live lane then stops the worker once more.              *)
Leave(m) ==
    /\ mode = "wsiq" /\ m # "wsiq"
    /\ used.switches < MaxSwitches
    /\ Spend("switches")
    /\ Close(sock)
    /\ Teardown
    /\ mode' = m
    /\ UNCHANGED <<dial, playing, wire, asked, hub>>

(* setSource("wsiq"), also when it is the source already: stopFile stops    *)
(* player and worker, and the readout waits for an announce.                *)
Enter ==
    /\ used.switches < MaxSwitches
    /\ Spend("switches")
    /\ mode' = "wsiq"
    /\ playing' = FALSE
    /\ worker' = [worker EXCEPT !.on = FALSE]
    /\ buttons' = [buttons EXCEPT !.readout = FALSE]
    /\ UNCHANGED <<sock, ctl, dial, sink, netVars>>

(* setSource between the other two lanes; entering the live lane runs       *)
(* stopFile.                                                                *)
Switch(m) ==
    /\ mode # "wsiq" /\ m # "wsiq"
    /\ used.switches < MaxSwitches
    /\ Spend("switches")
    /\ mode' = m
    /\ IF m = "sdr"
       THEN playing' = FALSE /\ worker' = [worker EXCEPT !.on = FALSE]
       ELSE UNCHANGED <<playing, worker>>
    /\ UNCHANGED <<sock, ctl, dial, buttons, sink, netVars>>

(* playFile: transportConfig gives the worker the file's offset and starts  *)
(* it.                                                                      *)
PlayFile ==
    /\ mode = "file"
    /\ ~playing
    /\ playing' = TRUE
    /\ worker' = [on |-> TRUE, off |-> 0, lane |-> "file"]
    /\ UNCHANGED <<mode, sock, ctl, dial, buttons, sink, netVars, used>>

(* stopFile: the button, or the end of the file.                            *)
StopFile ==
    /\ playing
    /\ playing' = FALSE
    /\ worker' = [worker EXCEPT !.on = FALSE]
    /\ UNCHANGED <<mode, sock, ctl, dial, buttons, sink, netVars, used>>

------------------------------------------------------------------------------
(* Socket events.                                                           *)

(* onopen; the helper greets the connection, with a hello whose control bit *)
(* may be older than that of its stream.                                    *)
Opened(s) ==
    /\ conn[s] = "connecting"
    /\ conn' = [conn EXCEPT ![s] = "open"]
    /\ buttons' = [buttons EXCEPT !.connect = FALSE, !.disconnect = TRUE]
    /\ \E c \in BOOLEAN :
         wire' = [wire EXCEPT ![s] = <<Frame("hello", None, c), Frame("stream", hub, TRUE)>>]
    /\ UNCHANGED <<mode, sock, ctl, dial, sink, worker, playing, asked, hub, used>>

(* onmessage, for the first frame of the socket.                            *)
Receive(s, k) ==
    /\ conn[s] = "open"
    /\ wire[s] # <<>>
    /\ Head(wire[s]).kind = k
    /\ wire' = [wire EXCEPT ![s] = Tail(@)]
    /\ UNCHANGED <<mode, sock, playing, conn, asked, hub, used>>

Tunable(c) ==
    /\ ctl' = c
    /\ buttons' = IF mode = "wsiq" THEN [buttons EXCEPT !.readout = c] ELSE buttons

OnHello(s) ==
    /\ Receive(s, "hello")
    /\ Tunable(Head(wire[s]).ctl)
    /\ UNCHANGED <<dial, sink, worker>>

(* Mutant of OnStream: the offset of the stream before is kept.             *)
OnStreamKeepsOffset(s) ==
    /\ Receive(s, "stream")
    /\ LET f == Head(wire[s])
       IN  /\ sink' = [sink EXCEPT !.active = TRUE, !.centre = f.hz, !.vfo = f.hz]
           /\ worker' = [worker EXCEPT !.on = TRUE, !.lane = "wsiq"]
           /\ dial' = f.hz
           /\ IF f.ctl # ctl THEN Tunable(f.ctl) ELSE UNCHANGED <<ctl, buttons>>

(* The announce: sink.onStream configures the worker and starts it, and     *)
(* niqOnCfg moves the dial.  Its control bit counts when it differs.        *)
OnStream(s) ==
    /\ Receive(s, "stream")
    /\ LET f == Head(wire[s])
       IN  /\ sink' = [active |-> TRUE, centre |-> f.hz, vfo |-> f.hz, off |-> 0]
           /\ worker' = [on |-> TRUE, off |-> 0, lane |-> "wsiq"]
           /\ dial' = f.hz
           /\ IF f.ctl # ctl THEN Tunable(f.ctl) ELSE UNCHANGED <<ctl, buttons>>

(* meta: the frequency after a refused request.                             *)
OnMeta(s) ==
    /\ Receive(s, "meta")
    /\ dial' = Head(wire[s]).hz
    /\ SetVfo(Head(wire[s]).hz)
    /\ UNCHANGED <<ctl, buttons>>

(* onclose of any socket, the page's or the other side's doing:             *)
(* niqTeardown, whatever niqSock is by then.                                *)
OnClose(s) ==
    /\ \/ conn[s] = "closing" /\ UNCHANGED used
       \/ /\ conn[s] \in {"open", "connecting"}
          /\ used.drops < MaxDrops /\ Spend("drops")
    /\ conn' = [conn EXCEPT ![s] = "gone"]
    /\ wire' = [wire EXCEPT ![s] = <<>>]
    /\ Teardown
    /\ UNCHANGED <<mode, dial, playing, asked, hub>>

------------------------------------------------------------------------------
(* The helper.                                                              *)

(* readLoop: the tune is carried out and announced to all, or refused with  *)
(* the old centre.                                                          *)
HelperTune(s) ==
    /\ asked[s] # None
    /\ asked' = [asked EXCEPT ![s] = None]
    /\ \/ Announce(asked[s])
       \/ /\ wire' = [wire EXCEPT ![s] = IF conn[s] = "open"
                                         THEN Append(@, Frame("meta", hub, TRUE)) ELSE @]
          /\ UNCHANGED hub
    /\ UNCHANGED <<pageVars, conn, used>>

(* Another Bridge tunes the helper, or its source moves.                    *)
HelperMoves(f) ==
    /\ f # hub
    /\ used.moves < MaxMoves
    /\ Spend("moves")
    /\ Announce(f)
    /\ UNCHANGED <<pageVars, conn, asked>>

------------------------------------------------------------------------------
Init ==
    /\ mode = "sdr"
    /\ sock = None
    /\ ctl = FALSE
    /\ dial = None
    /\ buttons = [connect |-> TRUE, disconnect |-> FALSE, readout |-> TRUE]
    /\ sink = [active |-> FALSE, centre |-> None, vfo |-> None, off |-> 0]
    /\ worker = [on |-> FALSE, off |-> 0, lane |-> None]
    /\ playing = FALSE
    /\ conn = [s \in Socket |-> "unused"]
    /\ wire = [s \in Socket |-> <<>>]
    /\ asked = [s \in Socket |-> None]
    /\ hub \in Freq
    /\ used = [tunes |-> 0, moves |-> 0, drops |-> 0, switches |-> 0]

User ==
    \/ \E s \in Socket : ClickConnect(s)
    \/ ClickDisconnect
    \/ \E f \in Freq : TuneTo(f)
    \/ \E m \in {"sdr", "file"} : Leave(m) \/ Switch(m)
    \/ Enter
    \/ PlayFile
    \/ StopFile

Event(s) == Opened(s) \/ OnHello(s) \/ OnStream(s) \/ OnMeta(s) \/ OnClose(s)

Helper == \E s \in Socket : HelperTune(s)

Next ==
    \/ User
    \/ \E s \in Socket : Event(s)
    \/ Helper
    \/ \E f \in Freq : HelperMoves(f)

Spec == Init /\ [][Next]_vars

------------------------------------------------------------------------------
(* Properties.                                                              *)

Offset == {f - g : f, g \in Freq}

(* Every variable has its type, and only an open socket has frames.         *)
TypeOK ==
    /\ mode \in {"sdr", "wsiq", "file"}
    /\ sock \in Socket \cup {None}
    /\ ctl \in BOOLEAN /\ playing \in BOOLEAN
    /\ dial \in Freq \cup {None}
    /\ buttons \in [connect : BOOLEAN, disconnect : BOOLEAN, readout : BOOLEAN]
    /\ sink \in [active : BOOLEAN, centre : Freq \cup {None}, vfo : Freq \cup {None},
                 off : Offset]
    /\ sink.active => sink.centre # None
    /\ worker \in [on : BOOLEAN, off : Offset, lane : {"wsiq", "file", None}]
    /\ conn \in [Socket -> {"unused", "connecting", "open", "closing", "gone"}]
    /\ \A s \in Socket : conn[s] \in {"unused", "connecting", "gone"} => wire[s] = <<>>
    /\ asked \in [Socket -> Freq \cup {None}]
    /\ hub \in Freq
    /\ sock # None => conn[sock] \in {"connecting", "open", "closing"}
    /\ playing => mode = "file"

(* The lane has one connection, all its frames have arrived, and the helper *)
(* owes it nothing.                                                         *)
AtRest ==
    /\ mode = "wsiq"
    /\ \A s \in Socket : /\ conn[s] \in {"connecting", "closing"} => FALSE
                         /\ conn[s] = "open" => s = sock /\ wire[s] = <<>> /\ asked[s] = None

(* What the user reads is what the worker decodes: centre of the helper's   *)
(* announce plus decode offset, after tunes within and beyond the span,     *)
(* refusals, retunes by others, reconnects and visits to other lanes.       *)
DialHeard == AtRest /\ sink.active => dial = hub + worker.off

(* When the last connection is gone the lane is off, however its close      *)
(* events were late: decoding is stopped, and the user can connect again.   *)
ClosedIsOff ==
    (\A s \in Socket : conn[s] \in {"unused", "gone"}) =>
        /\ ~sink.active /\ ~ctl /\ sock = None
        /\ worker.lane = "wsiq" => ~worker.on
        /\ buttons.connect /\ ~buttons.disconnect

------------------------------------------------------------------------------
(* What comments say, and the code does not keep.                           *)

(* index.html: a lane's teardown owns its own session only, and stops       *)
(* decoding because the source is gone: a late one must not forget a        *)
(* connection that is there.                                                *)
HandleKept == \A s \in Socket : conn[s] = "open" => sock = s

(* index.html: a late teardown must not stop what the file lane runs.       *)
FileUndisturbed == playing => worker.on /\ worker.lane = "file"

(* index.html: a stream that is active is decoded; the source selector      *)
(* keeps a connection ("connected") when its lane is chosen once more.      *)
ActiveDecodes == AtRest /\ sink.active => worker.on
=============================================================================
