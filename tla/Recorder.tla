------------------------------ MODULE Recorder ------------------------------
(***************************************************************************)
(* The pre-roll ring, the recorder and the clips of the band scan on the   *)
(* SDRconnect lane of the page (index.html, 0.11).                         *)
(*                                                                         *)
(* The page is one thread: every handler, and every stretch of scanStart   *)
(* between two awaits, is a step.  What interleaves is the user, the scan, *)
(* the folder permission it asked for, and SDRconnect, which carries out a *)
(* tune some time after it was sent, reports it some time later, and may   *)
(* send MaxLag more audio frames of the old frequency.                     *)
(*                                                                         *)
(* Files says what is promised of the files that are written.              *)
(***************************************************************************)
EXTENDS Files

CONSTANTS
    Freq,          \* frequencies, further apart than PRE_HZ_TOL
    Channels,      \* what the scan visits, in order
    Station,       \* the PI heard on each frequency, or None
    None,
    Cap,           \* PRE_SAMPLES
    Sizes,         \* samples of an audio frame
    MinTake,       \* SR_MIN_SEC, PRE_MIN_SAVE: samples worth a file
    RecMax,        \* REC_MAX_SAMPLES
    Remembered,    \* the folder is remembered from an earlier session
    SettleCovers,  \* settleMs outlasts the radio's move and its old audio
    MaxLag,        \* bound: frames of the old frequency after a move
    Plan           \* bound: the events looked at, a set of choices

Event == {"samples", "tunes", "presses", "records", "scans", "lapses", "drops"}

ConstantsOK ==
    /\ Freq # {} /\ None \notin Freq \cup [0..(Cap - 1) -> Nat]
    /\ Channels \in Seq(Freq)
    /\ DOMAIN Station = Freq
    /\ Sizes \subseteq 1..Cap
    /\ {Remembered, SettleCovers} \subseteq BOOLEAN
    /\ {Cap, MinTake, RecMax} \subseteq Nat \ {0}
    /\ MaxLag \in Nat
    /\ Plan \subseteq [Event -> Nat]

VARIABLES
    open,      \* the socket to SDRconnect
    asked,     \* tunes on their way
    radio,     \* [hz, old, lag]: it may have lag frames at old still to send
    echo,      \* reports of its frequency on their way
    dial,      \* curVfo
    pi,        \* latest.rds.pi
    audioOn,   \* the audio stream
    silent,    \* srSilent, recSilent: who turned it on without monitoring
    preOn,     \* the pre-roll box
    ring,      \* [buf, w, len, hz, total]: preBuf, preW, preLen, preHz, preTotal
    rec,       \* [on, held, hz, began]: recOn, recChunks, recStartHz; began is ghost
    scan,      \* the scan's globals and the place of scanStart
    grants,    \* permission dialogs that are open
    allowed,   \* ~recDirNeedsAllow
    wanted,    \* ghost: the user switched monitoring on
    left       \* ghost: events that may still happen

radioVars == <<open, asked, radio, echo>>
pageVars  == <<dial, pi, audioOn, silent, preOn, ring, rec, scan, grants, allowed>>
ghostVars == <<heard, faults, wanted, left>>
vars == <<radioVars, pageVars, ghostVars>>

------------------------------------------------------------------------------
(* The ring.                                                                *)

Least(a, b) == IF a <= b THEN a ELSE b

Drop(r) == [r EXCEPT !.w = 0, !.len = 0, !.hz = None]

Live(pre, armed) == pre \/ armed

(* preAlloc and preRelease.                                                 *)
Silence    == [i \in 0..(Cap - 1) |-> 0]
Alloc(r)   == IF r.buf = None THEN [r EXCEPT !.buf = Silence] ELSE r
Release(r) == Drop([r EXCEPT !.buf = None])

(* preGuard: what is held does not belong with what arrives at another dial.*)
Guard(r) == [(IF r.len > 0 /\ r.hz # dial THEN Drop(r) ELSE r) EXCEPT !.hz = dial]

(* Mutant of Write: the copy does not go round the end.                     *)
WriteShort(r, s) ==
    LET n == Len(s)
    IN  [r EXCEPT
            !.buf = [i \in 0..(Cap - 1) |->
                        IF i - r.w \in 0..(n - 1) THEN s[i - r.w + 1] ELSE r.buf[i]],
            !.w = (r.w + n) % Cap,
            !.len = Least(Cap, r.len + n),
            !.total = @ + n]

(* preWrite, and the loop of preFeedStereo.                                 *)
Write(r, s) ==
    LET n == Len(s)
        At(i) == (i - r.w + Cap) % Cap
    IN  [r EXCEPT
            !.buf = [i \in 0..(Cap - 1) |-> IF At(i) < n THEN s[At(i) + 1] ELSE r.buf[i]],
            !.w = (r.w + n) % Cap,
            !.len = Least(Cap, r.len + n),
            !.total = @ + n]

(* preTake: the n newest samples, oldest first.                             *)
Take(r, n) == [i \in 1..n |-> r.buf[(r.w - n + Cap + i - 1) % Cap]]

Feed(r, s) == IF Live(preOn, scan.armed) THEN Write(Guard(r), s) ELSE r

------------------------------------------------------------------------------
(* Helpers.                                                                 *)

Spend(b) == left[b] > 0 /\ left' = [left EXCEPT ![b] = @ - 1]

NoRec  == [on |-> FALSE, held |-> <<>>, hz |-> None, began |-> None]
NoScan == [run |-> FALSE, stop |-> FALSE, pc |-> "idle", todo |-> <<>>, home |-> None,
           stamp |-> None, alone |-> TRUE, armed |-> FALSE, lapsed |-> FALSE,
           mark |-> 0, seen |-> {}]

(* audioStart: time has passed since the last sample.                       *)
Starts == audioOn' = TRUE /\ heard' = Append(heard, None)

(* recStop: the chunks go to a file, a silent stream is switched off.       *)
StopRec(r, held) ==
    /\ Wav(held, IF held # <<>> /\ rec.hz # rec.began THEN {"renamed"} ELSE {})
    /\ rec' = NoRec
    /\ silent' = silent \ {"rec"}
    /\ IF "rec" \in silent
       THEN audioOn' = FALSE /\ ring' = Drop(r)
       ELSE ring' = r /\ UNCHANGED audioOn

(* srDisarm, with the scan's globals s at its end.                          *)
Disarm(s) ==
    /\ scan' = s
    /\ silent' = silent \ {"scan"}
    /\ audioOn' = (audioOn /\ "scan" \notin silent)
    /\ LET r == IF "scan" \in silent THEN Drop(ring) ELSE ring
       IN  ring' = IF preOn THEN r ELSE Release(r)

(* srArmNow, with the scan's globals s: the stream is switched on silently. *)
ArmNow(s) ==
    IF audioOn \/ open
    THEN /\ scan' = [s EXCEPT !.armed = TRUE]
         /\ ring' = Drop(Alloc(ring))
         /\ IF audioOn
            THEN UNCHANGED <<silent, audioOn, heard>>
            ELSE silent' = silent \cup {"scan"} /\ Starts
    ELSE /\ scan' = s
         /\ silent' = silent \ {"scan"}
         /\ UNCHANGED <<ring, audioOn, heard>>

------------------------------------------------------------------------------
(* The radio.                                                               *)

(* SDRconnect carries out a tune and reports it.                            *)
Radio ==
    /\ open /\ asked # <<>>
    /\ asked' = Tail(asked)
    /\ \E n \in 0..MaxLag :
         radio' = [hz |-> Head(asked), lag |-> n,
                   old |-> IF radio.lag > 0 THEN radio.old ELSE radio.hz]
    /\ echo' = Append(echo, Head(asked))
    /\ UNCHANGED <<open, pageVars, ghostVars>>

(* applyProp and maybeRetune: the page learns of it, forgets the station    *)
(* and gives a running recording the new frequency.                         *)
Echo ==
    /\ open /\ echo # <<>>
    /\ echo' = Tail(echo)
    /\ dial' = Head(echo)
    /\ pi' = IF dial' = dial THEN pi ELSE None
    /\ rec' = IF rec.on /\ rec.hz # None /\ rec.hz # dial' /\ ~scan.run
              THEN [rec EXCEPT !.hz = dial'] ELSE rec
    /\ UNCHANGED <<open, asked, radio, audioOn, silent, preOn, ring, scan, grants, allowed, ghostVars>>

(* The decoder commits the station that the radio is on.                    *)
Decode ==
    /\ open /\ pi = None /\ Station[radio.hz] # None
    /\ pi' = Station[radio.hz]
    /\ UNCHANGED <<radioVars, dial, audioOn, silent, preOn, ring, rec, scan, grants, allowed, ghostVars>>

(* audioFeed: a frame of n samples goes into the ring and, after it, into   *)
(* the recording, which stops at its limit.                                 *)
Frame(n) ==
    /\ open /\ audioOn
    /\ Len(heard) + n <= left.samples
    /\ LET hz   == IF radio.lag > 0 THEN radio.old ELSE radio.hz
           s    == [i \in 1..n |-> Len(heard) + i]
           r    == Feed(ring, s)
           held == rec.held \o s
       IN  /\ heard' = heard \o [i \in 1..n |-> hz]
           /\ radio' = [radio EXCEPT !.lag = IF @ > 0 THEN @ - 1 ELSE 0,
                                     !.old = IF radio.lag > 1 THEN @ ELSE radio.hz]
           /\ IF rec.on /\ Len(held) >= RecMax
              THEN StopRec(r, held)
              ELSE /\ ring' = r
                   /\ rec' = IF rec.on THEN [rec EXCEPT !.held = held] ELSE rec
                   /\ UNCHANGED <<faults, silent, audioOn>>
    /\ UNCHANGED <<open, asked, echo, dial, pi, preOn, scan, grants, allowed, wanted, left>>

(* The connection is lost: teardown.                                        *)
Lost ==
    /\ open
    /\ Spend("drops")
    /\ open' = FALSE
    /\ asked' = <<>> /\ echo' = <<>>
    /\ radio' = [hz |-> radio.hz, old |-> radio.hz, lag |-> 0]
    /\ audioOn' = FALSE
    /\ ring' = Drop(ring)
    /\ scan' = [scan EXCEPT !.stop = @ \/ scan.run]
    /\ wanted' = FALSE
    /\ UNCHANGED <<dial, pi, silent, preOn, rec, grants, allowed, heard, faults>>

(* connect: onopen asks where the radio is.                                 *)
Connect ==
    /\ ~open
    /\ open' = TRUE
    /\ echo' = <<radio.hz>>
    /\ UNCHANGED <<asked, radio, pageVars, ghostVars>>

------------------------------------------------------------------------------
(* The user.                                                                *)

(* tuneTo, from the waterfall or the dial.                                  *)
Tune(f) ==
    /\ open
    /\ Spend("tunes")
    /\ asked' = Append(asked, f)
    /\ scan' = [scan EXCEPT !.alone = FALSE]
    /\ UNCHANGED <<open, radio, echo, dial, pi, audioOn, silent, preOn, ring, rec, grants, allowed,
                   heard, faults, wanted>>

(* audioToggle, which a recording refuses.                                  *)
PressAudio ==
    /\ ~rec.on
    /\ Spend("presses")
    /\ IF audioOn
       THEN audioOn' = FALSE /\ wanted' = FALSE /\ ring' = Drop(ring) /\ UNCHANGED heard
       ELSE open /\ wanted' = TRUE /\ Starts /\ UNCHANGED ring
    /\ UNCHANGED <<radioVars, dial, pi, silent, preOn, rec, scan, grants, allowed, faults>>

(* preSetOn.                                                                *)
PressPre ==
    /\ Spend("presses")
    /\ preOn' = ~preOn
    /\ ring' = IF preOn' THEN Alloc(ring)
               ELSE IF scan.armed THEN ring ELSE Release(ring)
    /\ UNCHANGED <<radioVars, dial, pi, audioOn, silent, rec, scan, grants, allowed, heard, faults, wanted>>

(* recStart: refused during a scan; the pre-roll becomes chunk zero.        *)
PressRecord ==
    /\ ~rec.on /\ ~scan.run
    /\ audioOn \/ open
    /\ Spend("records")
    /\ IF audioOn
       THEN silent' = silent \ {"rec"} /\ UNCHANGED <<audioOn, heard>>
       ELSE silent' = silent \cup {"rec"} /\ Starts
    /\ rec' = [on |-> TRUE, held |-> IF preOn THEN Take(ring, ring.len) ELSE <<>>,
               hz |-> dial, began |-> dial]
    /\ UNCHANGED <<radioVars, dial, pi, preOn, ring, scan, grants, allowed, faults, wanted>>

(* recStop by its button.                                                   *)
PressStop ==
    /\ rec.on
    /\ StopRec(ring, rec.held)
    /\ UNCHANGED <<radioVars, dial, pi, preOn, scan, grants, allowed, heard, wanted, left>>

(* preSaveLast, under the frequency the ring was filled at.                 *)
PressSave ==
    /\ ~rec.on /\ preOn
    /\ ring.len >= MinTake
    /\ Spend("records")
    /\ Wav(Take(ring, ring.len), {})
    /\ UNCHANGED <<radioVars, pageVars, heard, wanted>>

------------------------------------------------------------------------------
(* The scan.                                                                *)

Goto(l) == scan' = [scan EXCEPT !.pc = l]

(* scanStart with srArm: refused during a recording; a folder that was only *)
(* remembered needs a permission first, and the scan does not wait for it.  *)
ScanStart ==
    /\ ~scan.run /\ ~rec.on /\ open
    /\ Spend("scans")
    /\ LET s == [NoScan EXCEPT !.run = TRUE, !.pc = "next", !.todo = Channels, !.home = dial]
       IN  IF allowed
           THEN ArmNow(s) /\ UNCHANGED grants
           ELSE /\ scan' = s
                /\ silent' = silent \ {"scan"}
                /\ grants' = grants + 1
                /\ UNCHANGED <<audioOn, ring, heard>>
    /\ UNCHANGED <<radioVars, dial, pi, preOn, rec, allowed, faults, wanted>>

(* Mutant of Grant: the clips are armed although the scan is over.          *)
GrantArms ==
    /\ grants > 0
    /\ grants' = grants - 1
    /\ allowed' = TRUE
    /\ ArmNow(scan)
    /\ UNCHANGED <<radioVars, dial, pi, preOn, rec, faults, wanted, left>>

(* requestPermission is answered; the scan may be over, or another one.     *)
Grant ==
    /\ grants > 0
    /\ grants' = grants - 1
    /\ \/ /\ allowed' = TRUE
          /\ IF scan.run THEN ArmNow(scan) ELSE UNCHANGED <<scan, silent, audioOn, ring, heard>>
       \/ UNCHANGED <<allowed, scan, silent, audioOn, ring, heard>>
    /\ UNCHANGED <<radioVars, dial, pi, preOn, rec, faults, wanted, left>>

PressStopScan ==
    /\ scan.run /\ ~scan.stop
    /\ scan' = [scan EXCEPT !.stop = TRUE]
    /\ UNCHANGED <<radioVars, dial, pi, audioOn, silent, preOn, ring, rec, grants, allowed, ghostVars>>

(* The loop tunes to the next channel.                                      *)
ScanTune ==
    /\ scan.pc = "next" /\ ~scan.stop /\ scan.todo # <<>>
    /\ asked' = IF open THEN Append(asked, Head(scan.todo)) ELSE asked
    /\ scan' = [scan EXCEPT !.pc = "settle", !.stamp = Head(scan.todo), !.todo = Tail(@),
                            !.alone = TRUE]
    /\ UNCHANGED <<open, radio, echo, dial, pi, audioOn, silent, preOn, ring, rec, grants, allowed,
                   ghostVars>>

(* Mutant of Settled: the dwell begins without a mark.                      *)
SettledUnmarked ==
    /\ scan.pc = "settle"
    /\ SettleCovers => asked = <<>> /\ radio.lag = 0
    /\ scan' = [scan EXCEPT !.pc = "dwell"]
    /\ UNCHANGED <<radioVars, dial, pi, audioOn, silent, preOn, ring, rec, grants, allowed, ghostVars>>

(* settleMs is over: srMarkDwell, and the dwell begins.                     *)
Settled ==
    /\ scan.pc = "settle"
    /\ SettleCovers => asked = <<>> /\ radio.lag = 0
    /\ scan' = [scan EXCEPT !.pc = "dwell", !.mark = IF scan.armed THEN ring.total ELSE @]
    /\ UNCHANGED <<radioVars, dial, pi, audioOn, silent, preOn, ring, rec, grants, allowed, ghostVars>>

(* scanDwell's verdict, and srWants: a station without a clip is held.      *)
Verdict ==
    /\ scan.pc = "dwell"
    /\ \/ ~scan.stop /\ pi # None
          /\ Goto(IF scan.armed /\ ~scan.lapsed /\ pi \notin scan.seen THEN "hold" ELSE "next")
       \/ Goto("next")
    /\ UNCHANGED <<radioVars, dial, pi, audioOn, silent, preOn, ring, rec, grants, allowed, ghostVars>>

(* srHold is over, and srCapture.                                           *)
Capture ==
    /\ scan.pc = "hold"
    /\ LET n == Least(ring.len, ring.total - scan.mark)
           keep == scan.armed /\ ~scan.lapsed /\ pi # None /\ pi \notin scan.seen /\ n >= MinTake
       IN  IF keep
           THEN /\ Wav(Take(ring, n), IF scan.alone /\ ~HeardAt(Take(ring, n), scan.stamp)
                                      THEN {"misnamed"} ELSE {})
                /\ scan' = [scan EXCEPT !.pc = "next", !.seen = @ \cup {pi}]
           ELSE Goto("next") /\ UNCHANGED faults
    /\ UNCHANGED <<radioVars, dial, pi, audioOn, silent, preOn, ring, rec, grants, allowed,
                   heard, wanted, left>>

(* srLapse: the write of a clip failed.                                     *)
Lapse ==
    /\ scan.run /\ scan.seen # {} /\ ~scan.lapsed
    /\ Spend("lapses")
    /\ scan' = [scan EXCEPT !.lapsed = TRUE]
    /\ UNCHANGED <<radioVars, dial, pi, audioOn, silent, preOn, ring, rec, grants, allowed,
                   heard, faults, wanted>>

(* The loop ends: back to where the scan began, and srDisarm.               *)
ScanEnd ==
    /\ scan.pc = "next" /\ (scan.stop \/ scan.todo = <<>>)
    /\ asked' = IF open THEN Append(asked, scan.home) ELSE asked
    /\ Disarm(NoScan)
    /\ UNCHANGED <<open, radio, echo, dial, pi, preOn, rec, grants, allowed, ghostVars>>

------------------------------------------------------------------------------
Init ==
    /\ open = TRUE /\ asked = <<>> /\ echo = <<>>
    /\ radio \in {[hz |-> f, old |-> f, lag |-> 0] : f \in Freq}
    /\ dial = radio.hz
    /\ pi = None
    /\ audioOn = FALSE /\ silent = {} /\ preOn = FALSE
    /\ ring = [buf |-> None, w |-> 0, len |-> 0, hz |-> None, total |-> 0]
    /\ rec = NoRec /\ scan = NoScan
    /\ grants = 0 /\ allowed = ~Remembered
    /\ heard = <<>> /\ faults = {} /\ wanted = FALSE
    /\ left \in Plan

User == PressAudio \/ PressPre \/ PressRecord \/ PressStop \/ PressSave \/ PressStopScan \/ Connect

Scanning == ScanStart \/ Grant \/ ScanTune \/ Settled \/ Verdict \/ Capture \/ Lapse \/ ScanEnd

Next ==
    \/ \E f \in Freq : Tune(f)
    \/ \E n \in Sizes : Frame(n)
    \/ User \/ Scanning \/ Radio \/ Echo \/ Decode \/ Lost

Spec == Init /\ [][Next]_vars

------------------------------------------------------------------------------
(* Properties.                                                              *)

(* Every variable has its type, and nothing is held for nobody: there is a  *)
(* ring exactly while the box is ticked or a scan keeps clips, and a stream *)
(* that the user did not switch on belongs to a recording or a scan that    *)
(* runs.                                                                    *)
TypeOK ==
    /\ {open, audioOn, preOn, allowed, wanted} \subseteq BOOLEAN
    /\ {dial, radio.hz, radio.old} \subseteq Freq
    /\ ring.w \in 0..(Cap - 1) /\ ring.len \in 0..Cap
    /\ (ring.buf = None) = ~Live(preOn, scan.armed)
    /\ scan.armed => scan.run
    /\ "scan" \in silent => scan.run
    /\ "rec" \in silent => rec.on
    /\ audioOn => wanted \/ silent # {}

------------------------------------------------------------------------------
(* What comments say, and the code does not keep.                           *)

(* index.html: the name of a recording keeps the frequency it started on.   *)
NameKeepsStart == "renamed" \notin faults

(* index.html: a retune empties the ring, so that the frequency at the      *)
(* start of the pre-roll is the frequency now.                              *)
PreRollOfHere ==
    [][~rec.on /\ rec'.on /\ rec'.held # <<>> /\ asked = <<>> /\ echo = <<>> =>
         heard[rec'.held[1]] = rec'.began]_vars

(* index.html: monitoring is restored at the end of the scan.               *)
MonitoringRestored == wanted => audioOn
=============================================================================
