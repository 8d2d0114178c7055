# Verification of RDS Bridge

RDS Bridge decodes FM RDS in a browser page (`index.html`). Its helper
(`helper/`, Go) connects the page to radios: it either polls a frequency (the
*meta* lane) or streams IQ samples from a network SDR (the *wsiq* lane), and
serves both over one WebSocket. This directory holds TLA+ models of the helper
and of the page's handling of its frames, the TLC runs that check them, and the
TLAPS proofs about them.

## 1. Inventory

| Component | State | Operations | Who touches it |
|---|---|---|---|
| wsiq lane hub (`helper/iqlane.go`) | client set, last announce, haveStream, centre, streaming flag; per client the `streamed` gate | `serveClient`, `onConnect`, `readLoop` (tune), `reannounce`, `broadcastStream/IQ/FFT`, `run`, `status` | source goroutine, one goroutine per connection, config page |
| meta lane hub (`helper/main.go`) | client set, cur/last/have, live source and config, lastErr | poll loop, `tick`, `onConnect`, `onControl`, `setSource` | poll goroutine, one per connection, one per HTTP request |
| config page (`helper/web.go`, `helper/config.go`) | live config and the saved file; in the page the form, the port list, the status line | `handleStatus`, `handlePorts`, `handleConfig`, `handleQuit`, `saveConfig`, `loadConfig`; the page's timer, buttons and replies | HTTP goroutines, the browser |
| launch, log, end of the process (`helper/main.go`, `helper/logging.go`) | flags, the listen address, the log file | `main`, `setupLogging`, the listen pre-flight, `openBrowser`, `os.Exit` | the user, a second instance |
| serial / rigctld / mock readers (`helper/serial.go`, `helper/main.go`) | port or connection handle; the bytes in the port's buffers | `read`, `set`, `reset`, `close`, `parseFA` | poll loop, Bridge control frames, config page |
| SpyServer client (`helper/spyserver.go`) | conn, centre, canControl, announced | `Start`, `Tune`, `send`, `pickDecimation` | source goroutine, readLoops |
| SDRconnect client (`helper/sdrconnect.go`) | conn, centre, rate, canControl, lastSignal | `Start`, `Tune`, property and spectrum handling | source goroutine, readLoops |
| rtl_tcp client (`helper/rtltcp.go`) | conn, centre | `Start`, `Tune` | source goroutine, readLoops |
| WebSocket framing (`helper/ws.go`, `helper/wsclient.go`) | read buffer, connection | frame read and write, lengths, message reassembly | every goroutine with a connection |
| Bridge page, lane clients (`index.html`, `niq*`, `g*`, `createIq16Sink`) | adopted centre, VFO, rate, control bit, the reading that waits to be confirmed, sample buffer | frame handlers, tune, teardown | browser event loop |
| Bridge page, band scan, DX log, player, recorder, pre-roll ring (`index.html`) | scan position, skip and watch lists, log rows, the ring and its indices, what is being recorded, who holds the audio stream | timers, awaits of `scanStart`, the audio frames, UI handlers | browser event loop |
| Decoder and DSP workers (`index.html`) | filters, block sync, RDS groups | sample blocks in, groups out | worker thread |
| Rendering, help, themes, self-test report (`index.html`) | DOM | drawing | browser event loop |
| Offline tests (`test/`) | - | - | - |

How they interact.  `main` builds one hub, and for an IQ source one `iqHub`.  A
WebSocket upgrade registers a client; after that its handler, its readLoop and
the broadcasting goroutine all write to the same connection, under the client's
write lock, and share the hub fields under the hub's lock.  Sources call the hub
through three callbacks (announce, samples, FFT) and are called back by
readLoops (`Tune`, `Controllable`).  The config page replaces the live source of
the meta lane while the poll loop may be using the old one, and writes the
config file.  The page adopts what the frames say, in the order of arrival.

Hard behaviours.

* The hub's locks are released between reading state and writing to
  connections, so greetings, broadcasts and re-announces interleave.
* A source may drop, be redialled and come back with other parameters while
  connections stay and tunes keep arriving.
* A client may stop reading; a write then takes up to its deadline.
* A config swap runs against a read in progress on the source it closes.
* A reply on a serial port comes late, in pieces, or among frames nobody asked
  for, and the next query is sent after a fixed wait.
* The config page polls, edits and posts at once; replies come in any order and
  the process behind them may end and be launched again.
* In the page the user, a band scan and a permission dialog share one audio
  stream and one ring, while the radio moves some time after it was told to.
* The rate, the centre and the control bit each live in several places (device,
  source struct, hub, page) that are updated at different moments.

What makes each component correct.

* wsiq hub: no registered Bridge is left without an announce; a Bridge at rest
  shows the newest announce or one that overlapped it; a stalled Bridge delays
  the others but does not starve them; closed connections are forgotten; hello
  precedes stream and stream precedes samples; the announced centre, rate and
  control bit are the device's.
* meta hub and config page: a Bridge at rest shows the last reading; readings
  and errors of a replaced source do not outlive it; a replaced serial port is
  released; the live config is the saved one; what the page says of an Apply is
  so; the user's edits stay.
* launch: the user gets a page whichever instance serves it; the running
  instance's log and the saved file survive a second launch.
* serial: a reading answers its own query.
* sources: the hub's centre follows the radio's; commands of two goroutines do
  not mix on the wire; a reconnect restores the tuned centre.
* framing: what is reassembled is what was sent, frames do not mix, a length is
  read as it was written.
* `pickDecimation`: the lightest stage that is not below the target rate.
* page: the decoder offset matches the announced centre and the dial; catches
  are logged under the station of the dial; a file holds an unbroken run of
  samples and is named for where they were heard; nothing is switched on for
  somebody who has left.

## 2. Plan

| Step | Modules | State |
|---|---|---|
| 1 | `IqHub`, its abstract promise `AnnounceBoard`, `MCIqHub`, `IqHubProofs` | done |
| 2 | `Decimation`, `DecimationProofs` | done |
| 3 | `MetaHub`, `SourceSwap` and their MC modules, `MetaHubProofs`, `SourceSwapProofs` | done |
| 4 | `RtlTcp`, `SpyServer`, `SdrConnect`, joined by `MCIqSources`, `SourceProofs` | done |
| 5 | `WsWrite`, `WsWriteProofs`, `WsRead`, `WsCodec` | done |
| 6 | `PageIq`: the page's `niq*` lane, the source selector, the worker's timer and the file player, against sockets whose close events come late; `PageProofs` | done |
| 7 | `PageMeta`: the page's `g*` lane with the `gSetMeta` debounce; also in `PageProofs` | done |
| 8 | `ConfigPage` and `Launch`: the config page against its helper, and launches that share a file and a log, joined by `MCHelper`; `LaunchProofs` | done |
| 9 | `SerialCat`: the CAT frames on a serial port, joined with `SourceSwap`, `WsRead` and `WsCodec` by `MCPorts`; also in `SourceSwapProofs` | done |
| 10 | `Recorder`: the pre-roll ring, the recorder and the scan's clips on the SDRconnect lane, joined with `PageIq` by `MCPage`; also in `PageProofs` | done |
| 11 | the decoder's block synchronisation and group assembly (`WORKER_SRC`, `RDSRx`) | next |
| 12 | the sample sink's buffer; the rest of the band scan (skip lists, windows, antenna rotation), the DX log, the file player | planned |

Every safety property of the passing runs is proved, those that join modules
part by part (section 6); liveness is only model-checked.

## 3. Modules

Every module follows one convention. A goroutine is a program counter (`pc`)
and the locals it carries over a step; a step runs from one point where another
goroutine may be seen to the next: a critical section, a write to a socket, an
atomic operation, or a read of a shared field without a lock. Variables are
named after the fields of the code. `used` counts events against the bounds
(`Max...`), and variables marked *ghost* are read by properties only. Definitions that begin with
"Mutant of" are small bugs; no other definition uses them.

**`IqHub`** (`helper/iqlane.go`, the frame handlers of `index.html`). Actions of
a connection: `Connect` (`q.add`), `ReadHub`, `ReadControl`, `SendHello`,
`Claim`, `SendFirst` (all of `onConnect`), then `readLoop`: receiving a tune,
`Tune`'s outcome, the error and snap-back frames, `reannounce` and `Remove`. A
broadcast is `Store` (under `q.mu`, it copies the client set), then `OpenGate`
and `SendAnnounce` per client, run by the source or by a readLoop. The source
goroutine starts, announces, sends blocks, moves by itself and drops. The
device is a record of centre, rate and control bit; the modules of step 4 hold the
real ones. `view` is what the page has adopted.

**`AnnounceBoard`** is what that lane promises, without goroutines: announces
are posted in order, and a Bridge is shown only posted ones that are not older
than the newest at the time it joined. `IqHub!BoardSpec` is the refinement:
`shown` is the announce in `view`, `floor` the announce number at `q.add`.

**`MetaHub`** (`helper/main.go`). `PollTake`, `PollRead`, `ClearError`,
`TickStore`, then `TickGate`, `TickStream`, `TickTune`, `TickMeta` per client:
one poll of the live source up to the last frame of `tick`. `Connect` to
`SendFirst` are the handler and `onConnect`, `ReceiveControl` and `Set` are
`onControl`, `Swap` is `setSource`. Sources are dials that users turn.

**`SourceSwap`** (`helper/web.go`, `config.go`, `main.go`, `serial.go`). The same
swap from the side of the handles. Objects are the sources that `buildSource`
made, one per POST and one at launch. `handleConfig` is `CopyConfig`, `Build`,
`Swap`, `Truncate`, `Save`; between swap and save it closes the replaced object
under that object's rules, which differ: `serialSource` has a lock, and
`rigctldSource` has none. `read`, `set` and `reset` are the steps of whoever
calls them. A nil dereference (`Panic`) ends the process when it is the poll
loop's; that of a POST is recovered by `net/http`, so the request ends there,
`"aborted"`: it neither saves nor answers, and the process goes on. The port is
exclusive. A process may stop anywhere and be launched
again from the file, and the file is written in two steps.

**`RtlTcp`**, **`SpyServer`**, **`SdrConnect`** (the files of the same names). Each
has the `Start` goroutine from dial to drop with every field it reads and
writes, the remote side as a server that may answer late, refuse, move by
itself or disappear, and readLoops that call `Tune` and `reannounce`. `told` is
the centre (and rate) of the hub's last announce. `SpyServer` keeps a command's
header and body apart because `send` makes two Writes; `SdrConnect` keeps its
two inboxes because `settle` and the stream loop treat properties differently;
`RtlTcp` keeps which byte of a pair comes next.

**`Decimation`** is `pickDecimation` with one step per pass of its loop.

**`WsWrite`** is any number of goroutines that put frames, each of several
`conn.Write`s, on one connection, with or without a lock (`ws.go` has the lock,
`wsclient.go` does not). **`WsRead`** is `wsclient.go`'s frame reader and message
assembly, with the callers' read deadline; a payload is the pair of its message
and its part. **`WsCodec`** is the header that both writers build and both
readers take apart, for a `pair` of frames one behind the other, with the length
as one, three or nine bytes of numbers; lengths are below 2^31 (`MaxLength`).

**`SerialCat`** (`helper/serial.go`). `read` is `Reset`, `Query`, then `Read`s of
up to a piece until `parseFA` finds an answer or the time is over (`GiveUp`);
`Set` is one write. The radio answers commands in order, in two pieces, sends a
status frame now and then, and may be a port that gives commands back. What
arrives goes to `inbox`, which `ResetInputBuffer` empties, but not what the radio
still has to send.

**`ConfigPage`** (`helper/web.go`, the poll loop of `main.go`). Requests are
slots: `Fetch` puts one on its way, a handler answers it (`StatusSource` and
`StatusFreq`, the two locks of `/status`; `Ports`, `HandleConfig`, `HandleQuit`),
unless its close of a rigctld source panics (`AbortConfig`),
and a reply handler of the page takes the answer or the
failure, in any order. `Edit`, `Refresh`, `Apply`, `ClickQuit` are the user,
`Tick` the timer, `PollTake` to `PollTicks` the poll loop, whose source may be
swapped in between. The process may end by `/quit` 250 ms after its reply
(`Exit`) or crash, and be launched again, while the page stays.

**`Launch`** (`main.go`, `logging.go`, `config.go`). A process is a program
counter: `Load` (file, flags, source started), `Listen` (the pre-flight),
`Serve` (log, page), `Post`, `Truncate`, `Save`, `Quit`, `Exit`, `Crash`. All
processes share the file and the log; `first` are those that found no file,
which `-open firstrun` asks. `Listen` leaves the platform open: where an address
in use is `syscall.EADDRINUSE` the launch opens the page and returns (`"second"`);
on Windows the error is `WSAEADDRINUSE`, which `errors.Is` does not take for it
(`main.go:494`), and the launch ends in `log.Fatalf` (`"fatal"`).

**`PageIq`** (`index.html`). The page is one thread, so every handler is a step:
`ClickConnect`, `ClickDisconnect`, `TuneTo`, `Leave`, `Enter` and `Switch` (the
branches of `setSource`), `PlayFile`, `StopFile`, and the socket events
`Opened`, `OnHello`, `OnStream`, `OnMeta`, `OnClose`. `niqTeardown` is the
operator `Teardown`, used by the late close event and by leaving the lane. What
makes it hard is that `close()` returns at once, the close event comes later,
and its handler reads the globals as they are then. `conn` is the browser's
state of each socket, `sink` that of `createIq16Sink`, `worker` the analysis
timer and offset of the decode worker. The helper here is only a centre that is
tuned or moves; `IqHub` has the real one.

**`PageMeta`** (`index.html`). The frequency overlay: `ClickConnect`,
`ClickDisconnect`, `TuneTo`, the socket events, and `SetMeta`, which adopts a
reading at once only if it is near the last, and otherwise keeps it in `pend`
until `META_SETTLE_MS` (`Settle`) and a second reading have passed. A hello says
that the radio may be tuned, that it may not, or nothing, which is read as no.
Frames at which the page hangs up do what `ClickDisconnect` does.

**`Recorder`** (`index.html`). A sample is a number, so that a file is right when
its numbers are consecutive; the ghost `heard` has the frequency at which each
was produced, and a gap is an entry nobody holds. `Frame` is `audioFeed`: into
the ring by `Guard` and `Write`, then into the recording. The ring's indices
wrap as in the code. `scanStart` is cut at its awaits: `ScanTune`, `Settled`
(`srMarkDwell`), `Verdict` (`scanDwell`, `srWants`), `Capture` (after `srHold`),
`ScanEnd` (`srDisarm`); `Grant` is the answer of `requestPermission`, which the
scan does not wait for. `Radio` and `Echo` separate what the radio does from
what the page knows. A comparison of frequencies is equality here: those in use
are further apart than the code's 1 kHz.

**`Files`**, **`PageSays`**, **`Messages`**, **`Readings`** and **`Overlay`** are the
parts of `Recorder`, `ConfigPage`, `WsRead`, `SerialCat` and `PageMeta` that a
user sees: the variables a property speaks of, and the property. The module
with the actions extends its part, and so do the MC module that runs it and the
module that proves about it, so that run and theorem name one definition.

The MC modules give constants. `MCMetaHub`, `MCIqSources`, `MCPorts`, `MCLive`,
`MCHelper` and `MCPage` join several modules or instances in one run: `setting`
is chosen in the initial state and never changes, so the state space is the
disjoint union of those of the instances, and each property speaks of the
setting it belongs to. Each of them extends one module and the small parts of
others, and takes the rest by INSTANCE.

## 4. Runs

| Run | Question | Instance and bounds |
|---|---|---|
| `IqHub_safe` | Does every registered Bridge get an announce, and never one that was over before it joined? | two Bridges; either two tunes or own moves of the source, or one drop and one failed connection (`TunesOrOutage`); 0.6 M states |
| `IqHub_live` | Does a Bridge get its announce while another stalls, and does a closed connection leave? | two Bridges, one tunes once, one stalls or closes |
| `MetaHub` | Does a Bridge show the last reading, and in the end the dial? | `pair`: two Bridges, one CAT source, a move, a fault; `lone`: one Bridge, two sources, a swap, a failed read, a move below `stationHz`; 1 M states |
| `Ports` | `swap`: one talker per port, no replaced source left open, `/status` coherent? `serial`: is a reading an answer to its query? `read`, `codec`: do messages and lengths stay whole? | two POSTs, a steering Bridge, a failing handle, a stop, one port; three CAT commands, one status frame, one error; three messages of up to three frames, two pings, one deadline; two frames with lengths around 126 and 65536; 1.4 M states |
| `Liveness` | Is every POST answered, does a source come back, does the overlay follow the dial? `write`: do frames stay whole under a lock? | three writers, five frames of one or two Writes, one timeout; two POSTs and a steering Bridge on one serial port; two drops and a move; two sockets, near and far frequencies of which the dial starts at the first or the last, the three kinds of hello, a turn of the dial, a tune, a drop; 0.2 M states |
| `IqSources` | Do hub, struct and device agree at rest? | `rtl_tcp`: three tunes, two drops; SpyServer alone: three moves, two drops; with a tuner: two tunes, a move, a drop; SDRconnect alone: two moves of any property, a drop, a late answer; with a tuner: a tune, a move, a drop; `pick`: 17 device rates around the target and its doubles, up to nine stages; 1.9 M states |
| `Page` | `lane`: does the dial say what is decoded, and is the lane off when its last connection has gone? `recorder`: is every file unbroken, every clip named for what it holds, and nothing kept for nobody? | three sockets, two near frequencies and a far one, two tunes, a retune by others, a dropped connection, two source switches; a ring of three samples, frames of one and two, a limit of five, two channels, up to six samples, and either two recordings around a retune, one around a lost connection, a scan with a tune, with a button and a failed write, with a recording after it, with a lost connection, or two scans; 2 M states |
| `Helper` | `page`: is what the config page says so, do edits stay, does the status settle? `launch`: do the log and the file survive a second launch, and does it give way only to an instance that is there? | two requests in flight, one port, an Apply after an edit, an edit with a Refresh and a port that comes or goes, an Apply that may not be saved with the end of the helper, two Applies, or an Apply while a rigctld source fails, the two largest of these with the port plugged in at first; two launches, three kinds of flags, two POSTs, two stops; 0.4 M states |
| `IqHub_centre`, `SourceSwap_panic`, `RtlTcp_pairs`, `Recorder_name` | a comment the code does not keep (section 7) | the smallest instance with the case |

The remaining state counts are below 0.2 M. Why the bounds are enough: every
property relates at most two goroutines that write about the same thing and one
that reads, and the counts give each of them a second try (two tunes, two
drops, two POSTs, two recordings), so that something left over from the first can meet the
second. Values are only compared, so two or three per kind show every way to
differ; one is enough where announces are told apart by their number.

One assumption comes from outside the code: `SettleCovers` in `Page`, that the
radio has moved and its old audio has arrived when `SCAN.settleMs` is over
(without it, section 7). `ClipsNamed` does not speak of a channel
on which somebody else tuned.

Deadlock is not checked in `IqSources`: once the bounds are spent and the peer is
silent, a reader blocks for ever, which is what the code does; nor in `Page`,
`Recorder_name` and `Helper`, where the user may stop clicking and the helper may
have ended. In `Ports` and `Liveness` the settings other than `swap` may stutter
for the same reason, and only `swap`, where the poll loop never rests, can
deadlock.

## 5. Fairness

Goroutines run whenever they can, so each one's own steps are weakly fair. A
step that writes to a socket ends because `client.send` and the sources set a
write deadline; reads of serial ports and rigctld have timeouts. In
`SourceSwap`, taking `serialSource.mu` is strongly fair for those that wait for
it, because `sync.Mutex` hands the lock to a waiter that has starved for a
millisecond; with weak fairness the poll loop could take it back each time.
What users, radios, servers and networks do is never fair: nobody has to
connect, tune, post or drop. For `SpyServer` the dial is a step of the source:
the server is reachable, and it is the number of drops that is finite. In
`ConfigPage` the poll loop, the timer, the helper's exit and each request's way
to its end are weakly fair: a request on the local machine is answered or
refused. In `PageMeta` the settle timer, the helper's next reading, a tune's
outcome and the arrival of frames are.

## 6. Proofs

All theorems hold for every value of the constants, the bounds included, that
satisfies the module's `ConstantsOK`; what else one supposes is named with it.
In each proof an invariant is shown to hold at first and to be kept by every
action, one step per action, and the theorems follow from it. Where a property
speaks of a moment of rest, the invariant says what holds on the way there.

| Module | Theorem | What it says | It supposes |
|---|---|---|---|
| `IqHubProofs` | `TypeCorrect` | `TypeOK` | |
| | `AnnounceNeverLost` | `NoLostAnnounce`: a registered Bridge nobody is about to write to has been sent an announce | |
| | `NothingOldShown` | `StaleOnlyIfOverlapped`: what a settled Bridge shows is the newest announce, or overlapped it | |
| | `ImplementsBoard` | `BoardSpec`: the lane implements `AnnounceBoard` | |
| `DecimationProofs` | `PickMeetsTarget`, `PickIsLightest` | `NeverBelowTarget`, `Lightest`: the stage picked is not below the target, and no further one would do | |
| | `PickAsDefined` | `AsDefined`: it is the last stage that meets the target, if one does | |
| `WsWriteProofs` | `WriteTyped` | `TypeOK` of `WsWrite` | |
| | `LockKeepsFramesWhole` | `FramesWhole` | |
| | `ReaderTyped` | `TypeOK` of `WsRead` | |
| | `MessagesWhole` | `Reassembled` of `WsRead` | |
| | `FramesReadBack` | `ReadAsWritten` of `WsCodec`, for any two frames | |
| `MetaHubProofs` | `TypeCorrect` | `TypeOK` | |
| | `NewestShownAtRest` | `RestShowsNewest` | |
| `SourceSwapProofs` | `TypeCorrect` | `TypeOK` | |
| | `OneTalkerOnPort` | `OneTalker`: one goroutine at a time is inside the exchange on a port | |
| | `EveryReplacedCloses` | `ReplacedIsClosed`: closed, or a POST is about to, or was aborted where the poll loop had closed it | |
| | `StatusTellsLive` | `StatusCoherent` | |
| | `CatTypeCorrect` | `TypeOK` of `SerialCat` | |
| | `ReadingIsAnAnswer` | `StaleOnlyInTransit` of `SerialCat` | |
| `LaunchProofs` | `TypeCorrect` | `TypeOK` of `Launch` | |
| | `LogNeverClobbered` | `LogKept` | |
| | `LastSaveReadBack` | `SaveReadBack` | |
| | `OneInstanceRuns` | `GivesWay`: launches that race for an address never all give way | |
| | `ConfigPageTyped` | `TypeOK` of `ConfigPage` | |
| | `PageSaysTrue` | `PageTrue` of `ConfigPage`: `MessageTrue` and `StoppedTrue` | |
| | `EditsStay` | `SettledEditsKept` of `ConfigPage`, of every step | |
| `PageProofs` | `TypeCorrect` | `TypeOK` of `PageIq` | |
| | `ClosedMeansOff` | `ClosedIsOff` | |
| | `ReadoutIsHeard` | `DialHeard` | |
| | `OverlayTyped`, `OverlayOwnsSession` | `TypeOK` and `OverlayOwned` of `PageMeta` | |
| | `RecorderType` | `TypeOK` of `Recorder` | |
| | `FilesWhole` | `FilesUnbroken` of `Recorder` | |
| | `ClipsRight` | `ClipsNamed` of `Recorder` | `SettleCovers` (section 4); without it the property fails (section 7) |
| `SourceProofs` | `SpyTypeCorrect`, `RtlTypeCorrect`, `SdrTypeCorrect` | `TypeOK` of each source | |
| | `SpyStartKnows` | `StartKnows` of `SpyServer`, which holds of servers that report (`Confirms`) | |
| | `SpyFollowed` | `Followed` of `SpyServer` | no Bridge tunes |
| | `RtlHonest` | `HonestOutsideStart` of `RtlTcp` | at most one Bridge tunes |
| | `SdrFollowed` | `Followed` of `SdrConnect` | no Bridge tunes |
| | `SdrStartKnows` | `StartKnows` of `SdrConnect` | nobody gives or takes control on the server |

The suppositions of `SourceProofs` are those under which the code keeps the
properties: section 7 has the runs without them (`ReadOnlyHonest`,
`NeverAGuess`, `TuneConfirmed`, `ControlFollowed`, `TunesInOrder`).

The invariants, and why the property alone does not do:

* `IqHub`. A handler that loses the compare-and-swap on `streamed` gives up its
  announce, so it must know that somebody else's is there or on its way:
  `GateKept` says that behind an open gate the Bridge shows a fresh announce or
  is still owed one. That what is owed is fresh is `CarriedFresh`: a goroutine
  holds only announces that are on the board, and that are the newest or were in
  flight when the newest was stored; `Numbered` keeps their numbers apart and
  the newest among them. `NeverBefore` says that what goes to a Bridge is not
  older than its joining. The refinement maps `floor` to the announce number at
  `q.add` and `shown` to the announce in `view`: `Store` is a post, `Connect` a
  join, the two sends (`SendFirst`, `SendAnnounce`) show a posted announce or
  change nothing, and every other action stutters.
* `Decimation`. A loop invariant in four parts: types; nothing found means the
  loop is at its start; something found means that the pick is the stage before
  the one looked at and `rate` its half; `done` means that the loop condition
  was false. For `AsDefined` each rate is a division by a power of two
  (`Shifted`); what `TwoTo` is for every stage follows from the library's
  well-founded induction, used as the existence of a least number (`Least`,
  `Climb`).
* `WsWrite`. A writer inside a frame holds the lock (`Turn`), and what the
  receiver waits for is exactly the next piece of the holder's frame (`InStep`).
* `WsRead`. Until a deadline passes inside a frame, the reader knows what comes
  next: headers and payloads alternate and a header says what its payload is
  (`Framed`, `Parsed`). The payloads on the wire are in order with nothing missing
  behind them (`InOrder`), so that "the next one" is the first still to be read
  (`NextPart`, `NextIs`). From that, what a call has collected is the beginning of
  one message (`Begun`) and what was delivered is whole (`Read`). A deadline
  between two frames leaves a reader in the middle of a message, which `msgOp`
  keeps from being delivered. The types need more: that what such a reader
  collects still ends before what is to be read (`Collected`), that pings on the
  wire have numbers above those answered (`PingsNumbered`), and that after a
  deadline inside a frame a payload comes next (`OutOfStep`).
* `WsCodec` has no steps. Two or eight bytes add up to the number they are taken
  from (`BytesAdd`); a frame behind anything is read as it was (`FrameRead`). The
  leaves name SMT, since the other prover writes numbers in unary.
* `MetaHub`. Whoever is past its handler has passed the gate or is in the client
  set that `tick` copied (`NotSkipped`); whoever has passed the gate is still in
  the copy, shows the reading, or has its own handler about to write to it
  (`ServedOrOwed`); what the tick pushes is what it stored (`PushesStored`).
* `SourceSwap`. Which goroutine may be at which statement (`Steps`), on which
  kind of object (`Kinds`), that a port has one open handle (`Handles`) and that
  the talker holds the mutex and the handle of its object (`Locked`): the mutex
  makes it unique on one object, the exclusive open across a replaced object
  and its successor. For the two others, an object being built is nobody's yet
  (`Fresh`), and who closes holds an installed object that is not live and that
  no other POST closes (`Owners`). A POST aborted in its close leaves no
  connection, because it lost it to a poll loop that is in its own reset (`Cut`).
* `SerialCat`. Whatever is lost of what the radio said, what is left of it, from
  the reader's buffer to the radio, is its last words: an end of a frame is
  behind its beginning, but at most the first (`Paired`). So what `parseFA` finds
  is whole. Every answer that has begun to come is to the query or to a command
  that the query found unanswered (`Expected`). That the first answer in the
  buffer exists needs that a set of numbers has a least one, from the library's
  well-founded induction.
* `Launch`. Two processes that have their address have different ones
  (`OneHolder`), and until two saves overlap or one is cut short, one process at
  a time is between truncating and writing (`OneSaver`). `GivesWay` is kept by
  itself: who holds an address leaves it only to be over (`WayStep`).
* `ConfigPage`. What a note says was decided when the POST was answered, and may
  be read after a stop and a launch: one POST is under way unless two overlapped,
  it is of the form applied last, and its reply says what is kept (`OneApply`,
  `Kept`). A `/quit` that has come back found the process leaving (`QuitEnds`).
* `PageIq`. `DialHeard` speaks of a quiet lane, so the step that makes it quiet
  must find it right. `Follows` says of an active lane at any time that it has a
  second or closing socket, whose close event will end the session, or that a
  frame on its way repairs what is wrong; `NewestComes` that this frame brings
  the helper's centre of then.
* `PageMeta`. `OverlayOwned` is inductive with the types of the sockets
  (`Owned`); its own types need those of the frames on the wire, of which only
  some carry a frequency (`FrameParts`).
* `Recorder`. Slots of the ring are numbered modulo its length, so the invariant
  says which sample each one holds: counted back from `w`, the last that were
  heard (`RingHolds`). A recording ends with the last that was heard while audio
  is on (`RecHolds`), so the next frame continues it. For clips, a scan that
  nobody has disturbed has its own tune under way or the radio there
  (`GoesThere`); after the settle time the radio is there, and all that the ring
  got since was heard there (`IsThere`), which is where `SettleCovers` is used.
* `SpyServer`. The last report on its way is the server's state (`ReportsLast`);
  when none is, a Start with control knows it, in its set-up too (`Obeys`). For
  the read-only server `ReadsOn` says so of a Start without control, and
  `OneCentre` that its places for the centre agree. A command is two Writes,
  between which others may write: `CommandFacts` says once what both can do.
* `RtlTcp`. Nobody reports: the dongle and the hub have `s.centerHz`, unless a
  tune is still to reach the connection that Start uses (`DongleSet`) or the
  hub (`HubTells`).
* `SdrConnect`. The last message about rate and about centre on its way tells
  the server's value (`SdrTells`); with none on its way Start has it
  (`RateKnown`, `CentreKnown`), whether in `gather`, `settle` or the stream loop.
  With Bridges that tune, the centre in the struct is only a request:
  `CentreComes` says that a centre is under way, from a readLoop to the server
  or back in a report, or that Start has the server's, in the struct before the
  announce and in `announced` after it. It needs `ControlKnown`, since a server
  that refuses a command does not report.

Only model-checked:

* liveness (`ClientsCatchUp`, `GoneForgotten`, `FollowsDial`, `PostsAnswered`,
  `Recovers`, `OverlayFollows`, `PageSettles`), which is out of the prover's reach;
* the invariants of the MC modules that join instances (`MCTypeOK`,
  `PortsTypeOK`, `LiveTypeOK`, `PageTypeOK`, `HelperTypeOK`, and `TypeOK`,
  `SourceFollowed` and `StartKnows` of `MCIqSources`), as such: each is a
  conjunction over the settings, and each conjunct is one of the theorems above.

## 7. What comments say, and the code does not keep

Each module ends with a section of that name. Four of these definitions have a
run, and are the findings of `PROJECT.json`:

* `IqHub!HonestCentre` (`IqHub_centre`): a tune between Start's read of its
  centre and its first announce is lost to the Bridges.
* `SourceSwap!NoPanic` (`SourceSwap_panic`): a swap resets a rigctld source
  between the poll loop's nil test and its use.
* `RtlTcp!PairsAligned` (`RtlTcp_pairs`): the odd trailing byte is not carried.
* `Recorder!NameKeepsStart` (`Recorder_name`): a retune during a recording
  overwrites the frequency that the file will be named after.

For the others, the last column gives constants under which TLC shows the
violation; those not named are one value or 0, and specifications are `Spec`
unless stated.

| Definition | Code | What happens, and what is said | Constants |
|---|---|---|---|
| `IqHub!HelloFirst` | `iqlane.go:290` | a broadcast overtakes hello; "hello (source -> Bridge, first)", `PROTOCOL-generic-iq.md:68` | one client |
| `IqHub!StreamBeforeSamples` | `iqlane.go:129` | samples overtake stream; "before samples", `PROTOCOL-generic-iq.md:87` | one client |
| `IqHub!TunesInOrder` | `iqlane.go:229` | two Bridges tune, the last announce carries the first tune; "the centre is the request", `iqlane.go:227` | two clients, both tune; two centres; `MaxTunes` 2; constraint: no tune before Start has announced |
| `IqHub!RateKept` | `iqlane.go:240` | `reannounce` writes back an old rate; "keeping every other parameter", `iqlane.go:235` | one client, two rates, `MaxTunes` 1, `MaxMoves` 1 |
| `IqHub!StreamRulesControl` | `iqlane.go:93` | a hello with an old control bit comes after the stream; "authoritative for control", `index.html:7500` | one client, `MaxMoves` 1 |
| `IqHub!GreetOnlyIfStreaming` | `iqlane.go:95` | a Bridge that joins in an outage gets the dead stream's announce; "if we are already streaming", `iqlane.go:86` | one client, `MaxDrops` 1 |
| `IqHub!StreamingHonest` | `iqlane.go:111` | a late re-announce sets `streaming` during an outage; "whether IQ is flowing", `iqlane.go:78` | one client, `MaxTunes` 1, `MaxDrops` 1 |
| `IqHub!ErrorCleared` | `iqlane.go:272` | the error stays after the source recovered; "exactly like the meta poll loop's resilience", `iqlane.go:255`, which clears it at `main.go:454` | one client, `MaxDrops` 1, `FairSpec` |
| `MetaHub!HelloFirst` | `main.go:472` | a tick overtakes hello; `PROTOCOL-generic-iq.md:68` | one client |
| `MetaHub!HelloTruthful` | `main.go:473` | no frame follows a swap that changes controllable; "whether the source will accept control frames", `PROTOCOL-generic-iq.md:83` | one client, a setter and another source, `MaxSwaps` 1 |
| `MetaHub!StationTold` | `main.go:250` | a late joiner is moved by `stationHz` without tune; "whenever the source's tuning moves", `PROTOCOL-generic-iq.md:116` | frequencies 0, 4, 8, `StationHz` 5, `MaxMoves` 2 |
| `SourceSwap!ReplacedHoldsNothing` | `serial.go:94` | the poll loop opens a replaced source's port again; "closing the old one", `main.go:188` | one POST of a serial source |
| `SourceSwap!NoAbort` | `main.go:92` | a POST closes a rigctld source whose read fails: the poll loop's reset clears the connection between the POST's nil test and its close, `net/http` recovers the panic, and the live change is neither saved nor answered (the page says "Couldn't reach the helper.", `web.go:447`); "the live change took effect", `web.go:132` | as `SourceSwap_panic`, `MaxFailures` 1 |
| `SourceSwap!SavedIsLive` | `web.go:131` | two POSTs swap and save in different orders; "the source of truth", `main.go:362` | two POSTs, serial and rigctld |
| `SourceSwap!StopLeavesFile` | `config.go:78` | a stop between truncating and writing; `main.go:362` | one POST, `MaxStops` 1 |
| `RtlTcp!TuneIsSafe` | `rtltcp.go:87` | Start's command undoes a tune; "safe to call concurrently", `iqsource.go:29` | three frequencies, `MaxTunes` 1 |
| `RtlTcp!RefusedStaysRefused` | `rtltcp.go:129` | a refused tune is carried out at the next Start; "without retuning", `iqsource.go:30` | as above and `MaxDrops` 1 |
| `SpyServer!CommandsWhole` | `spyserver.go:354` | a Tune writes between header and body; `iqsource.go:29` | one tuner, `Confirms` FALSE, `MaxTunes` 1, `MaxDrops` 1 |
| `SpyServer!FftAligned` | `spyserver.go:340` | two tunes leave the waterfall elsewhere; "keep the waterfall centre aligned", `spyserver.go:340` | two tuners, `Confirms`, `MaxTunes` 2 |
| `SpyServer!ReadOnlyHonest` | `spyserver.go:323` | a refused tune is announced; "announce the server's real centre", `spyserver.go:178` | one tuner, `Confirms`, `MaxTunes` 1 |
| `SpyServer!ReportsCorrect` | `spyserver.go:319` | a tune to a server that took control back returns no error; `iqlane.go:227` | as above and `MaxMoves` 1 |
| `SpyServer!ControlFollowed` | `spyserver.go:303` | control given or taken while streaming; "reports whether Tune can succeed", `iqsource.go:32` | no tuner, `MaxMoves` 1 |
| `SdrConnect!ControlFollowed` | `sdrconnect.go:326` | `settle` drops a can_control; `iqsource.go:32` | no tuner, `Movable` control, `MaxMoves` 1 |
| `SdrConnect!NeverAGuess` | `sdrconnect.go:346` | a refused tune's centre goes out with a new rate; "never a guess", `sdrconnect.go:47` | one tuner, `Movable` rate, `MaxTunes` 1, `MaxMoves` 1 |
| `SdrConnect!TuneConfirmed` | `iqlane.go:229` | `reannounce` overwrites a later announce; "its own announce corrects us", `iqlane.go:228` | one tuner, `Movable` centre, `MaxTunes` 1, `MaxMoves` 1 |
| `WsWrite!NeverGarbled` | `ws.go:76` | a timed-out write leaves half a frame on a connection that stays in use; "guards socket writes", `main.go:149` | two writers, `Pieces` 2, `Locked`, `MaxFrames` 2, `MaxTimeouts` 1 |
| `WsWrite!NeverGarbled` | `wsclient.go:158` | the SDRconnect socket is written by several goroutines without a lock; "Writes take the lock", `wsclient.go:26` | two writers, `Pieces` 3, `Locked` FALSE, `MaxFrames` 2 |
| `WsRead!NextComplete` | `sdrconnect.go:313` | a read deadline passes inside a frame; "the next complete application message", `wsclient.go:172` | one message, one frame, `MaxDeadlines` 1 |
| `PageIq!HandleKept` | `index.html:7547` | the late close of a replaced socket runs `niqTeardown` on the new connection: `niqSock` is null while it is open, no button closes it and a tune beyond the span is lost; "the source is gone", `index.html:7416` | two sockets, `MaxSwitches` 1 |
| `PageIq!FileUndisturbed` | `index.html:7555` | the late close after a switch to the file lane stops the worker under the playing file; "a late teardown must not stop it", `index.html:2154` | one socket, `MaxSwitches` 2 |
| `PageIq!ActiveDecodes` | `index.html:7588` | choosing the lane again stops the worker of a running stream, which stays "connected" (`index.html:7598`) and undecoded until the next announce | one socket, `MaxSwitches` 2 |
| `PageMeta!HandleKept` | `index.html:7388` | as `PageIq!HandleKept`, for the overlay; "safe to run late/async", `index.html:7388` | two sockets, `Queue` 2, `MaxDrops` 1 |
| `ConfigPage!EditsKept` | `web.go:389` | an edit made before the first status reply is overwritten by it; "so we don't fight the user's edits", `web.go:389` | one port, `Slots` 2, `Plan` of one set: an edit, two Applies, a stop |
| `ConfigPage!ConnectedTrue` | `main.go:216` | after a swap the status names the new source with the old one's frequency; "plain-language live status", `web.go:8` | as above |
| `ConfigPage!StoppedStays` | `web.go:471` | a status reply on its way repaints a page that says "Helper stopped"; "treat as stopped", `web.go:471` | as above |
| `ConfigPage!LastApplyWins` | `web.go:442` | two Applies: the message is that of the reply that came last, not of the live source; "Applied.", `web.go:443` | as above |
| `Launch!FlagsForOneRun` | `web.go:98` | the first Apply saves what a flag said; "override it for this run only", `main.go:363` | two launches, two addresses, a launch with `-listen`, `MaxPosts` 1 |
| `Launch!SecondIsQuiet` | `main.go:410` | a second launch dials the SDR server before it finds the address in use; "just open the running instance's page and exit cleanly", `main.go:490` | two launches, a launch with an IQ source |
| `Launch!RestartRuns` | `web.go:151` | relaunched within the 250 ms, the helper finds its predecessor, opens its page and leaves none running; "Restart the helper to switch", `web.go:121` | two launches, `MaxStops` 1 |
| `Launch!PageShown` | `main.go:494` | Windows: the error of `net.Listen` is `WSAEADDRINUSE`, `errors.Is` with `syscall.EADDRINUSE` is false, and the second launch ends in `log.Fatalf` (`main.go:501`) without a page, in the `-H=windowsgui` build without a word on the screen; "Double-clicking the file again therefore always shows the page", `main.go:490-491`, and "running it a second time simply reopens the page", `helper/README.md:177` | two launches |
| `SerialCat!ReadbackConfirms` | `serial.go:134` | an answer that is later than the wait confirms what the radio has not done yet; "readback-confirmed rather than assumed", `serial.go:133` | `MaxCommands` 3, `MaxStatus` 1, `MaxErrors` 1 |
| `Recorder!PreRollOfHere` | `index.html:2938` | the ring is emptied by the next frame, so Record pressed between the report of a retune and that frame takes the old station's pre-roll under the new name; "a retune empties the ring", `index.html:2936` | as `Recorder_name` with two presses |
| `Recorder!MonitoringRestored` | `index.html:3323` | audio switched off and on during a silent scan is switched off at its end; "restore both at the end of the scan", `index.html:3304` | as `Recorder_name` with two presses, one scan |
| `Recorder!ClipsNamed` | `index.html:4410` | with a settle time that is over before the radio has moved, the clip opens on the station before; "There is no number here to get wrong", `index.html:3167` | `SettleCovers` FALSE, `MaxLag` 1, four samples, two presses, one scan |

`HandleKept` and `FileUndisturbed` have one cause, and `DialHeard` speaks of
connections the page still holds (`AtRest`) because of it.

## 8. Not modelled

* Of the page: the sample sink's buffer; the recorder on the file, MPX and network
  SDR lanes, with seeks and loops of the player; the dialogs that save a file,
  and a recording that is kept because one was cancelled; what the scan skips,
  its windows and antennas; the DX log; the decoder's block synchronisation.
  Planned (section 2).
* Rendering, help, themes and the self-test report: nothing depends on them.
* Samples, spectra and audio, and everything computed from them in floating
  point: no property here depends on their values.
* The WebSocket handshake and the arithmetic of the mask.
* The texts, colours and address fields of the config page, `localIPv4` and the
  URLs built from it.
* Two processes that share a radio or a port; of launches, only the file, the log
  and the address are shared.
* The bytes of a rigctld reply, which is one line.
