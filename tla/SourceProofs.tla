---------------------------- MODULE SourceProofs ----------------------------
(***************************************************************************)
(* Theorems about the three IQ sources, for any number of readLoops that   *)
(* tune, of moves and refusals of the server and of drops.                 *)
(*                                                                         *)
(* What the properties promise, they promise at rest: Start has read every *)
(* report.  Before, it is behind by the reports on their way, so that the  *)
(* inductive invariants say what those are:                                *)
(*   SpyServer   the last report on its way is the server's state          *)
(*               (ReportsLast); with none, Start knows it, the set-up      *)
(*               included (Obeys; ReadsOn for a read-only server).         *)
(*   rtl_tcp     nobody reports: the dongle and the hub have s.centerHz,   *)
(*               unless a tune is still to reach the connection Start uses *)
(*               or the hub (DongleSet, HubTells).                         *)
(*   SDRConnect  each property has a last report on its way that tells its *)
(*               value (SdrTells) or is known (RateKnown, CentreKnown).  A *)
(*               tune pre-sets the centre: it is under way, from readLoop  *)
(*               to the server and back, or Start has it (CentreComes).    *)
(***************************************************************************)
EXTENDS SpyServer, TLAPS

(* The rtl_tcp source; what both have by the same name is declared above.   *)
VARIABLES val, swapped, freq, tpc, via, denied, raced

Rtl == INSTANCE RtlTcp

(* The SDRConnect source, likewise.                                         *)
CONSTANTS Rate, Target, Movable, MaxLate
VARIABLES sampleRate, have, last, inbox, replies

Sdr == INSTANCE SdrConnect

------------------------------------------------------------------------------
(* The inductive invariant.                                                 *)

SetUp   == {"hello", "handshake", "format", "centre", "setiq", "setfft", "enable"}
Tuning  == {"setiq", "setfft", "renew", "store"}
Streams == {"announce", "loop"}
Place   == {"dial", "idle", "renew", "store"} \cup SetUp \cup Streams
Setting == {"iq", "fft", "other"}

(* Start and the readLoops are at places of their own, and Start has chosen *)
(* a centre when it enables streaming.                                      *)
Places ==
    /\ pc[Start] \in {"dial"} \cup SetUp \cup Streams
    /\ \A t \in Tuner : pc[t] \in {"idle"} \cup Tuning
    /\ pc[Start] = "enable" => req[Start] # None

(* Every connection but the one in use was dropped.                         *)
Dials ==
    /\ pc[Start] = "dial" => ~alive
    /\ conn = used.drops + (IF alive THEN 1 ELSE 0)

(* The last report on its way is the server's state.                        *)
Newest == syncs[Len(syncs)]

ReportsLast ==
    Confirms /\ alive /\ ~garbled /\ syncs # <<>> =>
        Newest.iq = server.iq /\ Newest.control = server.control

(* The server greets: the handshake has a report to read.                   *)
Greeted == alive /\ pc[Start] \in {"hello", "handshake"} => syncs # <<>>

(* With no report on its way a controlling Start knows the server.          *)
Obeys ==
    Confirms /\ alive /\ ~garbled /\ canControl /\ syncs = <<>> =>
        /\ pc[Start] \in {"format", "centre", "setiq"} => server.control
        /\ pc[Start] \in {"setfft", "enable"} \cup Streams => announced = server.iq

Knows == ReportsLast /\ Greeted /\ Obeys

(* TypeOK in three parts, of which a step disturbs one or two.              *)
Report == [iq : Freq, control : BOOLEAN]
State  == [iq : Freq, fft : Freq, control : BOOLEAN]
Counts == [tunes : 0..MaxTunes, moves : 0..MaxMoves, drops : 0..MaxDrops]

LocalTyped ==
    /\ pc \in [Goroutine -> Place]
    /\ req \in [Goroutine -> Freq \cup {None}]
    /\ \A g \in Goroutine : pc[g] \in Tuning \cup {"announce"} => req[g] # None

CountTyped ==
    /\ conn \in 0..(MaxDrops + 1)
    /\ half \in [Goroutine -> 0..conn]
    /\ used \in Counts

RestTyped ==
    /\ alive \in BOOLEAN /\ canControl \in BOOLEAN /\ garbled \in BOOLEAN
    /\ centerHz \in Freq
    /\ announced \in Freq \cup {None}
    /\ wire \in Goroutine \cup {None}
    /\ server \in State
    /\ syncs \in Seq(Report)
    /\ told \in Freq \cup {None}

Placed == LocalTyped /\ CountTyped /\ RestTyped /\ Places /\ Dials

Inv == Placed /\ Knows

USE DEF sourceVars, deviceVars

(* The three parts are the whole of it.                                     *)
LEMMA TypeWhole == Placed => TypeOK
  BY DEF Placed, LocalTyped, Place, CountTyped, RestTyped, Report, State, Counts, SetUp, Streams,
         Tuning, TypeOK

------------------------------------------------------------------------------
(* Lemmas about the reports.                                                *)

(* A report sent last is the last on its way.                               *)
LEMMA Sent ==
    ASSUME NEW q \in Seq(Report), NEW r \in Report
    PROVE  /\ Append(q, r) \in Seq(Report)
           /\ Append(q, r) # <<>>
           /\ Append(q, r)[Len(Append(q, r))] = r
  OBVIOUS

(* A report that is read is the first; the last stays the last, and is the  *)
(* first where it is alone.                                                 *)
LEMMA Read ==
    ASSUME NEW q \in Seq(Report), q # <<>>
    PROVE  /\ Head(q) \in Report
           /\ Tail(q) \in Seq(Report)
           /\ Tail(q) # <<>> => Tail(q)[Len(Tail(q))] = q[Len(q)]
           /\ Tail(q) = <<>> => Head(q) = q[Len(q)]
<1>1. /\ Tail(q) \in Seq(Report) /\ Head(q) \in Report /\ Head(q) = q[1]
      /\ Len(q) \in Nat \ {0} /\ Len(Tail(q)) = Len(q) - 1
      /\ \A i \in 1..(Len(q) - 1) : Tail(q)[i] = q[i + 1]
  OBVIOUS
<1>2. Tail(q) = <<>> <=> Len(q) = 1
  <2>1. \A p \in Seq(Report) : p = <<>> <=> Len(p) = 0
    OBVIOUS
  <2>2. Tail(q) = <<>> <=> Len(Tail(q)) = 0
    BY <1>1, <2>1, Zenon
  <2>3. Len(q) - 1 = 0 <=> Len(q) = 1
    BY <1>1
  <2> QED
    BY <1>1, <2>2, <2>3, Zenon
<1>3. ASSUME Len(q) # 1 PROVE Tail(q)[Len(q) - 1] = q[Len(q)]
  <2>1. Len(q) - 1 \in 1..(Len(q) - 1)
    BY <1>1, <1>3
  <2>2. (Len(q) - 1) + 1 = Len(q)
    BY <1>1
  <2> QED
    BY <1>1, <2>1, <2>2
<1> QED
  BY <1>1, <1>2, <1>3

(* The report of the server's state.                                        *)
LEMMA SyncTyped == ASSUME RestTyped PROVE Sync \in Report
  BY DEF RestTyped, State, Sync, Report

------------------------------------------------------------------------------
(* What the two Writes of a command do, whoever sends it.                   *)

(* What the server has, and what it has reported, after a command.          *)
Acts(what, f) ==
    \/ server' = server /\ syncs' = syncs
    \/ what = "fft" /\ server' = [server EXCEPT !.fft = f] /\ syncs' = syncs
    \/ what = "iq" /\ ~Confirms /\ server' = [server EXCEPT !.iq = f] /\ syncs' = syncs
    \/ /\ what = "iq" /\ server.control /\ server' = [server EXCEPT !.iq = f]
       /\ syncs' = Append(syncs, [iq |-> f, control |-> TRUE])

(* A command that is out and was heard was obeyed, and reported.            *)
Heard(what, f) ==
    what = "iq" /\ Confirms /\ alive /\ ~garbled' /\ server.control =>
        /\ server' = [server EXCEPT !.iq = f]
        /\ syncs' = Append(syncs, [iq |-> f, control |-> TRUE])

Frame ==
    /\ req' = req /\ conn' = conn /\ alive' = alive /\ centerHz' = centerHz
    /\ canControl' = canControl /\ announced' = announced /\ told' = told /\ used' = used

(* A command keeps what Start and the readLoops have, disturbs what others  *)
(* sent at most, and goes on only when its body is out.                     *)
LEMMA CommandFacts ==
    ASSUME CountTyped, RestTyped, NEW g \in Goroutine, NEW l \in Place, NEW what \in Setting,
           NEW f \in Freq \cup {None}, NEW next \in Place, Command(g, l, what, f, next)
    PROVE  /\ pc[g] = l
           /\ Frame
           /\ half' \in [Goroutine -> 0..conn]
           /\ wire' \in Goroutine \cup {None}
           /\ garbled' \in BOOLEAN
           /\ garbled => garbled'
           /\ Acts(what, f)
           /\ \/ pc' = pc /\ server' = server /\ syncs' = syncs
              \/ pc' = [pc EXCEPT ![g] = next] /\ Heard(what, f)
<1>1. conn \in Nat /\ half \in [Goroutine -> 0..conn] /\ wire \in Goroutine \cup {None}
      /\ garbled \in BOOLEAN /\ alive \in BOOLEAN /\ server \in State
  BY DEF CountTyped, RestTyped
<1>2. pc[g] = l /\ Frame
  BY DEF Command, Frame
<1>3. CASE half[g] = 0 /\ Header(g) /\ pc' = pc
  <2>1. half' \in [Goroutine -> 0..conn] /\ wire' \in Goroutine \cup {None}
    BY <1>1, <1>3 DEF Header
  <2>2. garbled' \in BOOLEAN /\ (garbled => garbled')
    BY <1>1, <1>3 DEF Header
  <2>3. server' = server /\ syncs' = syncs
    BY <1>3 DEF Header
  <2> QED
    BY <1>2, <1>3, <2>1, <2>2, <2>3 DEF Acts
<1>4. CASE half[g] # 0 /\ SendBody(g, what, f) /\ pc' = [pc EXCEPT ![g] = next]
  <2>1. half' \in [Goroutine -> 0..conn] /\ wire' \in Goroutine \cup {None} /\ garbled' \in BOOLEAN
        /\ (garbled => garbled')
    BY <1>1, <1>4 DEF SendBody
  <2>2. CASE alive /\ wire = g /\ ~garbled
    <3>1. Obey(what, f) /\ ~garbled'
      BY <1>1, <1>4, <2>2 DEF SendBody
    <3>2. ASSUME ~server.control \/ what = "other" PROVE Acts(what, f) /\ Heard(what, f)
      BY <3>1, <3>2 DEF Obey, Acts, Heard
    <3>3. ASSUME server.control /\ what = "fft" PROVE Acts(what, f) /\ Heard(what, f)
      BY <3>1, <3>3 DEF Obey, Acts, Heard
    <3>4. ASSUME server.control /\ what = "iq" PROVE Acts(what, f) /\ Heard(what, f)
      BY <3>1, <3>4 DEF Obey, Acts, Heard
    <3>5. Acts(what, f) /\ Heard(what, f)
      BY <3>2, <3>3, <3>4 DEF Setting
    <3> QED
      BY <1>2, <1>4, <2>1, <3>5
  <2>3. CASE ~(alive /\ wire = g /\ ~garbled)
    BY <1>1, <1>2, <1>4, <2>1, <2>3 DEF SendBody, Acts, Heard
  <2> QED
    BY <2>2, <2>3
<1> QED
  BY <1>3, <1>4 DEF Command, Goto
------------------------------------------------------------------------------
(* Types, places and dials.                                                 *)

(* A command keeps them, where its sender may go on to the next place.      *)
LEMMA CommandPlaced ==
    ASSUME ConstantsOK, Placed, NEW g \in Goroutine, NEW l \in Place, NEW what \in Setting,
           NEW f \in Freq \cup {None}, NEW next \in Place, Command(g, l, what, f, next),
           what # "other" => f \in Freq,
           l # "dial",
           g = Start => next \in SetUp \cup {"announce"},
           g # Start => next \in Tuning,
           next \in Tuning \cup {"enable", "announce"} => req[g] # None
    PROVE  Placed'
<1>1. /\ LocalTyped /\ CountTyped /\ RestTyped /\ Places /\ Dials
      /\ g # Start => g \in Tuner
      /\ Start \in Goroutine /\ Start \notin Tuner /\ Tuner \subseteq Goroutine
  BY DEF Placed, Goroutine, ConstantsOK
<1>2. /\ pc[g] = l
      /\ Frame
      /\ half' \in [Goroutine -> 0..conn]
      /\ wire' \in Goroutine \cup {None}
      /\ garbled' \in BOOLEAN
      /\ Acts(what, f)
      /\ pc' = pc \/ pc' = [pc EXCEPT ![g] = next]
  BY <1>1, CommandFacts, Zenon
<1>3. server' \in State
  BY <1>1, <1>2 DEF Acts, RestTyped, State
<1>4. syncs' \in Seq(Report)
  <2>1. CASE syncs' = syncs
    BY <1>1, <2>1 DEF RestTyped
  <2>2. CASE syncs' = Append(syncs, [iq |-> f, control |-> TRUE]) /\ what = "iq"
    <3>1. [iq |-> f, control |-> TRUE] \in Report
      BY <2>2 DEF Report
    <3> QED
      BY <1>1, <2>2, <3>1, Sent DEF RestTyped
  <2> QED
    BY <1>2, <2>1, <2>2 DEF Acts
<1>5. CountTyped' /\ RestTyped'
  BY <1>1, <1>2, <1>3, <1>4 DEF CountTyped, RestTyped, Frame
<1>6. LocalTyped'
  BY <1>1, <1>2 DEF LocalTyped, Place, Frame, SetUp, Tuning, Streams
<1>7. Places'
  BY <1>1, <1>2 DEF LocalTyped, Place, Places, Frame, SetUp, Tuning, Streams
<1>8. Dials'
  BY <1>1, <1>2 DEF LocalTyped, Place, Dials, Frame, SetUp, Tuning
<1> QED
  BY <1>5, <1>6, <1>7, <1>8 DEF Placed

(* Initially nothing is dialled.                                            *)
LEMMA InvInit == ASSUME ConstantsOK, Init PROVE Inv
<1>1. used \in Counts /\ conn \in 0..(MaxDrops + 1)
  BY DEF ConstantsOK, Init, Counts
<1>2. syncs \in Seq(Report)
  BY DEF Init
<1>3. CountTyped /\ RestTyped
  <2>1. CountTyped
    BY <1>1 DEF Init, CountTyped
  <2>2. RestTyped
    BY <1>2 DEF ConstantsOK, Init, RestTyped, State
  <2> QED
    BY <2>1, <2>2
<1>4. LocalTyped /\ Places
  BY DEF ConstantsOK, Goroutine, Init, LocalTyped, Place, Places, Tuning
<1>5. Dials /\ Knows
  BY DEF ConstantsOK, Goroutine, Init, Dials, Knows, ReportsLast, Greeted, Obeys
<1> QED
  BY <1>3, <1>4, <1>5 DEF Inv, Placed

(* Every step keeps types, places and dials.                                *)
LEMMA PlacedStep == ASSUME ConstantsOK, Placed, [Next]_vars PROVE Placed'
<1>0. /\ LocalTyped /\ CountTyped /\ RestTyped /\ Places /\ Dials
      /\ Start \in Goroutine /\ (\A t \in Tuner : t \in Goroutine /\ t # Start)
      /\ None \notin Freq /\ Initial \in Freq
      /\ MaxDrops \in Nat /\ MaxTunes \in Nat /\ MaxMoves \in Nat
  BY DEF Placed, ConstantsOK, Goroutine
<1>a. \A g \in Goroutine : req[g] \in Freq \cup {None}
  BY <1>0 DEF LocalTyped, Place
<1>b. used \in Counts /\ conn \in Nat /\ used.drops \in Nat
  BY <1>0 DEF CountTyped, Counts
<1>1. ASSUME Dial PROVE Placed'
  <2>1. Sync \in Report
    BY <1>0, SyncTyped
  <2>2. /\ pc' = [pc EXCEPT ![Start] = "hello"] /\ pc[Start] = "dial"
        /\ conn' = conn + 1 /\ alive' = TRUE /\ wire' = None /\ garbled' = FALSE
        /\ syncs' = <<Sync>>
        /\ UNCHANGED <<centerHz, canControl, announced, req, half, server, told, used>>
    BY <1>1 DEF Dial, Goto
  <2>3. syncs' \in Seq(Report)
    BY <2>1, <2>2
  <2>4. CountTyped' /\ Dials'
    BY <1>0, <2>2 DEF CountTyped, Dials, LocalTyped, Place, Counts
  <2>5. LocalTyped'
    BY <1>0, <2>2 DEF LocalTyped, Place, SetUp, Tuning
  <2>6. Places'
    BY <1>0, <2>2 DEF LocalTyped, Place, Places, SetUp
  <2>7. RestTyped'
    BY <1>0, <2>2, <2>3 DEF RestTyped
  <2> QED
    BY <2>4, <2>5, <2>6, <2>7 DEF Placed
<1>2. ASSUME Hello PROVE Placed'
  <2>1. pc[Start] = "hello" /\ Command(Start, "hello", "other", None, "handshake")
    BY <1>2 DEF Hello, Command
  <2>a. "hello" \in Place /\ "other" \in Setting /\ "handshake" \in Place
    BY DEF Place, Setting, SetUp, Streams
  <2>2. Start \in Goroutine /\ None \in Freq \cup {None}
    BY <1>0, <1>a
  <2>3. "handshake" \in SetUp \cup {"announce"}
    BY <1>0 DEF SetUp, Tuning
  <2>4. "handshake" \in Tuning \cup {"enable", "announce"} => req[Start] # None
    BY <1>0, <2>1, <2>2, <2>3 DEF Places, Tuning
  <2> QED
    BY <2>1, <2>a, <2>2, <2>3, <2>4, CommandPlaced
<1>3. ASSUME Handshake PROVE Placed'
  <2>1. Head(syncs) \in Report /\ Tail(syncs) \in Seq(Report)
    BY <1>0, <1>3, Read DEF Handshake, RestTyped
  <2>2. /\ pc' = [pc EXCEPT ![Start] = "format"] /\ pc[Start] = "handshake"
        /\ canControl' = Head(syncs).control /\ syncs' = Tail(syncs)
        /\ centerHz' \in {centerHz, Head(syncs).iq}
        /\ UNCHANGED <<conn, alive, announced, req, half, wire, garbled, server, told, used>>
    BY <1>3 DEF Handshake, Goto
  <2>3. RestTyped'
    BY <1>0, <2>1, <2>2 DEF RestTyped, Report
  <2>4. LocalTyped'
    BY <1>0, <2>2 DEF LocalTyped, Place, SetUp, Tuning
  <2>5. CountTyped' /\ Places' /\ Dials'
    BY <1>0, <2>2 DEF CountTyped, LocalTyped, Place, Places, Dials, SetUp
  <2> QED
    BY <2>3, <2>4, <2>5 DEF Placed
<1>4. ASSUME Configure PROVE Placed'
  <2>1. pc[Start] = "format" /\ Command(Start, "format", "other", None, "centre")
    BY <1>4 DEF Configure, Command
  <2>a. "format" \in Place /\ "other" \in Setting /\ "centre" \in Place
    BY DEF Place, Setting, SetUp, Streams
  <2>2. Start \in Goroutine /\ None \in Freq \cup {None}
    BY <1>0, <1>a
  <2>3. "centre" \in SetUp \cup {"announce"}
    BY <1>0 DEF SetUp, Tuning
  <2>4. "centre" \in Tuning \cup {"enable", "announce"} => req[Start] # None
    BY <1>0, <2>1, <2>2, <2>3 DEF Places, Tuning
  <2> QED
    BY <2>1, <2>a, <2>2, <2>3, <2>4, CommandPlaced
<1>5. ASSUME ChooseCentre PROVE Placed'
  <2>1. PICK c \in Freq :
          /\ centerHz' = c /\ announced' = c /\ req' = [req EXCEPT ![Start] = c]
          /\ pc[Start] = "centre"
          /\ \/ pc' = [pc EXCEPT ![Start] = "setiq"]
             \/ pc' = [pc EXCEPT ![Start] = "enable"]
          /\ UNCHANGED <<conn, alive, canControl, half, deviceVars, told, used>>
    BY <1>0, <1>5 DEF ChooseCentre, Goto, RestTyped
  <2>2. CountTyped' /\ RestTyped'
    BY <1>0, <2>1 DEF CountTyped, RestTyped
  <2>3. LocalTyped'
    BY <1>0, <2>1 DEF LocalTyped, Place, SetUp, Tuning
  <2>4. Places' /\ Dials'
    BY <1>0, <2>1 DEF LocalTyped, Place, Places, Dials, SetUp
  <2> QED
    BY <2>2, <2>3, <2>4 DEF Placed
<1>6. ASSUME SetIq PROVE Placed'
  <2>1. pc[Start] = "setiq" /\ Command(Start, "setiq", "iq", req[Start], "setfft")
    BY <1>6 DEF SetIq, Command
  <2>a. "setiq" \in Place /\ "iq" \in Setting /\ "setfft" \in Place
    BY DEF Place, Setting, SetUp, Streams
  <2>2. Start \in Goroutine /\ req[Start] \in Freq \cup {None}
    BY <1>0, <1>a
  <2>3. req[Start] \in Freq
    BY <1>0, <2>1, <2>2 DEF LocalTyped, Place, Tuning
  <2>4. "setfft" \in SetUp \cup {"announce"}
    BY <1>0 DEF SetUp, Tuning
  <2>5. "setfft" \in Tuning \cup {"enable", "announce"} => req[Start] # None
    BY <1>0, <2>1, <2>2, <2>3, <2>4 DEF Places, Tuning
  <2> QED
    BY <2>1, <2>a, <2>2, <2>3, <2>4, <2>5, CommandPlaced
<1>7. ASSUME SetFft PROVE Placed'
  <2>1. pc[Start] = "setfft" /\ Command(Start, "setfft", "fft", req[Start], "enable")
    BY <1>7 DEF SetFft, Command
  <2>a. "setfft" \in Place /\ "fft" \in Setting /\ "enable" \in Place
    BY DEF Place, Setting, SetUp, Streams
  <2>2. Start \in Goroutine /\ req[Start] \in Freq \cup {None}
    BY <1>0, <1>a
  <2>3. req[Start] \in Freq
    BY <1>0, <2>1, <2>2 DEF LocalTyped, Place, Tuning
  <2>4. "enable" \in SetUp \cup {"announce"}
    BY <1>0 DEF SetUp, Tuning
  <2>5. "enable" \in Tuning \cup {"enable", "announce"} => req[Start] # None
    BY <1>0, <2>1, <2>2, <2>3, <2>4 DEF Places, Tuning
  <2> QED
    BY <2>1, <2>a, <2>2, <2>3, <2>4, <2>5, CommandPlaced
<1>8. ASSUME Enable PROVE Placed'
  <2>1. pc[Start] = "enable" /\ Command(Start, "enable", "other", None, "announce")
    BY <1>8 DEF Enable, Command
  <2>a. "enable" \in Place /\ "other" \in Setting /\ "announce" \in Place
    BY DEF Place, Setting, SetUp, Streams
  <2>2. Start \in Goroutine /\ None \in Freq \cup {None}
    BY <1>0, <1>a
  <2>3. "announce" \in SetUp \cup {"announce"}
    BY <1>0 DEF SetUp, Tuning
  <2>4. "announce" \in Tuning \cup {"enable", "announce"} => req[Start] # None
    BY <1>0, <2>1, <2>2, <2>3 DEF Places, Tuning
  <2> QED
    BY <2>1, <2>a, <2>2, <2>3, <2>4, CommandPlaced
<1>9. ASSUME AnnounceStream PROVE Placed'
  <2>1. /\ pc[Start] = "announce" /\ pc' = [pc EXCEPT ![Start] = "loop"]
        /\ told' = req[Start] /\ req' = [req EXCEPT ![Start] = None]
        /\ UNCHANGED <<half, sourceVars, deviceVars, used>>
    BY <1>9 DEF AnnounceStream, Goto
  <2>2. CountTyped' /\ RestTyped'
    BY <1>0, <1>a, <2>1 DEF CountTyped, RestTyped
  <2>3. LocalTyped'
    BY <1>0, <2>1 DEF LocalTyped, Place, Streams, Tuning
  <2>4. Places' /\ Dials'
    BY <1>0, <2>1 DEF LocalTyped, Place, Places, Dials, Streams
  <2> QED
    BY <2>2, <2>3, <2>4 DEF Placed
<1>10. ASSUME ClientSync PROVE Placed'
  <2>1. Head(syncs) \in Report /\ Tail(syncs) \in Seq(Report)
    BY <1>0, <1>10, Read DEF ClientSync, RestTyped
  <2>2. Head(syncs).iq \in Freq
    BY <2>1 DEF Report
  <2>3. /\ pc[Start] = "loop" /\ syncs' = Tail(syncs)
        /\ \/ UNCHANGED <<pc, req, centerHz, announced>>
           \/ /\ announced' = Head(syncs).iq /\ centerHz' = Head(syncs).iq
              /\ req' = [req EXCEPT ![Start] = Head(syncs).iq]
              /\ pc' = [pc EXCEPT ![Start] = "announce"]
        /\ UNCHANGED <<conn, alive, canControl, half, wire, garbled, server, told, used>>
    BY <1>10 DEF ClientSync, Goto
  <2>4. CountTyped' /\ RestTyped'
    BY <1>0, <2>1, <2>2, <2>3 DEF CountTyped, RestTyped
  <2>5. LocalTyped'
    BY <1>0, <2>2, <2>3 DEF LocalTyped, Place, Streams, Tuning
  <2>6. Places' /\ Dials'
    BY <1>0, <2>3 DEF LocalTyped, Place, Places, Dials, Streams
  <2> QED
    BY <2>4, <2>5, <2>6 DEF Placed
<1>11. ASSUME StartFails PROVE Placed'
  <2>1. /\ pc' = [pc EXCEPT ![Start] = "dial"] /\ req' = [req EXCEPT ![Start] = None]
        /\ half' = [half EXCEPT ![Start] = 0] /\ syncs' = <<>> /\ ~alive
        /\ UNCHANGED <<sourceVars, wire, garbled, server, told, used>>
    BY <1>11 DEF StartFails, Goto
  <2>2. CountTyped'
    BY <1>0, <1>b, <2>1 DEF CountTyped
  <2>3. RestTyped'
    BY <1>0, <2>1 DEF RestTyped
  <2>4. LocalTyped'
    BY <1>0, <2>1 DEF LocalTyped, Place, Tuning
  <2>5. Places' /\ Dials'
    BY <1>0, <2>1 DEF LocalTyped, Place, Places, Dials
  <2> QED
    BY <2>2, <2>3, <2>4, <2>5 DEF Placed
<1>12. ASSUME NEW t \in Tuner, TuneIq(t) PROVE Placed'
  <2>1. pc[t] = "setiq" /\ Command(t, "setiq", "iq", req[t], "setfft")
    BY <1>12 DEF TuneIq, Command
  <2>a. "setiq" \in Place /\ "iq" \in Setting /\ "setfft" \in Place
    BY DEF Place, Setting, SetUp, Streams
  <2>2. t \in Goroutine /\ req[t] \in Freq \cup {None}
    BY <1>0, <1>a
  <2>3. req[t] \in Freq
    BY <1>0, <2>1, <2>2 DEF LocalTyped, Place, Tuning
  <2>4. "setfft" \in Tuning /\ t # Start
    BY <1>0 DEF SetUp, Tuning
  <2>5. "setfft" \in Tuning \cup {"enable", "announce"} => req[t] # None
    BY <1>0, <2>1, <2>2, <2>3, <2>4 DEF Places, Tuning
  <2> QED
    BY <2>1, <2>a, <2>2, <2>3, <2>4, <2>5, CommandPlaced
<1>13. ASSUME NEW t \in Tuner, TuneFft(t) PROVE Placed'
  <2>1. pc[t] = "setfft" /\ Command(t, "setfft", "fft", req[t], "renew")
    BY <1>13 DEF TuneFft, Command
  <2>a. "setfft" \in Place /\ "fft" \in Setting /\ "renew" \in Place
    BY DEF Place, Setting, SetUp, Streams
  <2>2. t \in Goroutine /\ req[t] \in Freq \cup {None}
    BY <1>0, <1>a
  <2>3. req[t] \in Freq
    BY <1>0, <2>1, <2>2 DEF LocalTyped, Place, Tuning
  <2>4. "renew" \in Tuning /\ t # Start
    BY <1>0 DEF SetUp, Tuning
  <2>5. "renew" \in Tuning \cup {"enable", "announce"} => req[t] # None
    BY <1>0, <2>1, <2>2, <2>3, <2>4 DEF Places, Tuning
  <2> QED
    BY <2>1, <2>a, <2>2, <2>3, <2>4, <2>5, CommandPlaced
<1>14. ASSUME NEW t \in Tuner, TuneFails(t) \/ Reannounce(t) \/ StoreAnnounce(t) PROVE Placed'
  <2>1. /\ \/ pc' = [pc EXCEPT ![t] = "idle"] /\ req' = [req EXCEPT ![t] = None]
           \/ pc' = [pc EXCEPT ![t] = "store"] /\ req' = req /\ pc[t] = "renew"
        /\ half' = half \/ half' = [half EXCEPT ![t] = 0]
        /\ told' \in {told, req[t]}
        /\ UNCHANGED <<sourceVars, deviceVars, used>>
    BY <1>14 DEF TuneFails, Reannounce, StoreAnnounce, Goto
  <2>2. CountTyped'
    BY <1>0, <1>b, <2>1 DEF CountTyped
  <2>3. RestTyped'
    BY <1>0, <1>a, <2>1 DEF RestTyped
  <2>4. LocalTyped'
    BY <1>0, <2>1 DEF LocalTyped, Place, Tuning
  <2>5. Places' /\ Dials'
    BY <1>0, <2>1 DEF LocalTyped, Place, Places, Dials, Tuning
  <2> QED
    BY <2>2, <2>3, <2>4, <2>5 DEF Placed
<1>15. ASSUME NEW t \in Tuner, NEW f \in Freq, Tune(t, f) PROVE Placed'
  <2>1. /\ \/ UNCHANGED <<pc, req>>
           \/ pc' = [pc EXCEPT ![t] = "setiq"] /\ req' = [req EXCEPT ![t] = f]
        /\ centerHz' = f /\ used' = [used EXCEPT !.tunes = @ + 1] /\ used.tunes < MaxTunes
        /\ UNCHANGED <<conn, alive, canControl, announced, half, deviceVars, told>>
    BY <1>15 DEF Tune, Goto
  <2>2. used' \in Counts /\ used'.drops = used.drops
    BY <1>0, <1>b, <2>1 DEF Counts
  <2>3. CountTyped' /\ RestTyped'
    BY <1>0, <2>1, <2>2 DEF CountTyped, RestTyped
  <2>4. LocalTyped'
    BY <1>0, <2>1 DEF LocalTyped, Place, SetUp, Tuning
  <2>5. Places' /\ Dials'
    BY <1>0, <2>1, <2>2 DEF LocalTyped, Place, Places, Dials, Tuning
  <2> QED
    BY <2>3, <2>4, <2>5 DEF Placed
<1>16. ASSUME NEW s \in State, Move(s) PROVE Placed'
  <2>1. /\ server' = s /\ used' = [used EXCEPT !.moves = @ + 1] /\ used.moves < MaxMoves
        /\ syncs' = IF alive THEN Append(syncs, [iq |-> s.iq, control |-> s.control]) ELSE syncs
        /\ UNCHANGED <<pc, req, half, sourceVars, wire, garbled, told>>
    BY <1>16 DEF Move
  <2>2. [iq |-> s.iq, control |-> s.control] \in Report
    BY DEF State, Report
  <2>3. syncs' \in Seq(Report)
    BY <1>0, <2>1, <2>2, Sent DEF RestTyped
  <2>4. used' \in Counts /\ used'.drops = used.drops
    BY <1>0, <1>b, <2>1 DEF Counts
  <2>5. CountTyped' /\ RestTyped'
    BY <1>0, <2>1, <2>3, <2>4 DEF CountTyped, RestTyped
  <2>6. LocalTyped' /\ Places' /\ Dials'
    BY <1>0, <2>1, <2>4 DEF LocalTyped, Place, Places, Dials
  <2> QED
    BY <2>5, <2>6 DEF Placed
<1>17. ASSUME Drop PROVE Placed'
  <2>1. /\ alive /\ alive' = FALSE /\ used.drops < MaxDrops /\ used' = [used EXCEPT !.drops = @ + 1]
        /\ UNCHANGED <<pc, req, half, conn, centerHz, canControl, announced, deviceVars, told>>
    BY <1>17 DEF Drop
  <2>2. used' \in Counts /\ used'.drops = used.drops + 1
    BY <1>0, <1>b, <2>1 DEF Counts
  <2>3. CountTyped' /\ RestTyped'
    BY <1>0, <2>1, <2>2 DEF CountTyped, RestTyped
  <2>4. LocalTyped' /\ Places'
    BY <1>0, <2>1 DEF LocalTyped, Place, Places
  <2>5. Dials'
    BY <1>0, <1>b, <2>1, <2>2 DEF Dials
  <2> QED
    BY <2>3, <2>4, <2>5 DEF Placed
<1>18. ASSUME UNCHANGED vars PROVE Placed'
  BY <1>0, <1>18 DEF vars, LocalTyped, Place, CountTyped, RestTyped, Places, Dials, Placed
<1>19. \A f \in Freq, c \in BOOLEAN : [iq |-> f, fft |-> f, control |-> c] \in State
  BY DEF State
<1> QED
  BY <1>1, <1>2, <1>3, <1>4, <1>5, <1>6, <1>7, <1>8, <1>9, <1>10, <1>11, <1>12, <1>13, <1>14,
     <1>15, <1>16, <1>17, <1>18, <1>19
  DEF Next, Source, ReadLoop, Environment

------------------------------------------------------------------------------
(* What Start knows.                                                        *)

(* What Knows is about.                                                     *)
Known == <<alive, canControl, announced, garbled, server, syncs, pc[Start]>>

(* A step that touches none of it.                                          *)
LEMMA KnowsFrame == ASSUME Knows, UNCHANGED Known PROVE Knows'
  BY DEF Knows, Known, ReportsLast, Newest, Greeted, Obeys

(* A command that is heard is reported; one that is not changes nothing, or *)
(* puts the server out of step.                                             *)
LEMMA CommandKnows ==
    ASSUME Placed, Knows, NEW g \in Goroutine, NEW l \in Place, NEW what \in Setting,
           NEW f \in Freq \cup {None}, NEW next \in Place, Command(g, l, what, f, next),
           what = "iq" => f \in Freq
    PROVE  /\ pc[g] = l /\ (pc' = pc \/ pc' = [pc EXCEPT ![g] = next])
           /\ alive' = alive /\ canControl' = canControl /\ announced' = announced
           /\ garbled => garbled'
           /\ ReportsLast'
           /\ syncs # <<>> => syncs' # <<>>
           /\ server'.control = server.control
           /\ Confirms /\ syncs' = <<>> => server'.iq = server.iq
           /\ \/ pc' = pc
              \/ what = "iq" /\ Confirms /\ alive /\ ~garbled' /\ server.control => syncs' # <<>>
<1>1. /\ CountTyped /\ RestTyped /\ ReportsLast
      /\ syncs \in Seq(Report) /\ server \in State
  BY DEF Placed, Knows, RestTyped
<1>2. /\ pc[g] = l
      /\ Frame
      /\ garbled => garbled'
      /\ Acts(what, f)
      /\ \/ pc' = pc /\ server' = server /\ syncs' = syncs
         \/ pc' = [pc EXCEPT ![g] = next] /\ Heard(what, f)
  BY <1>1, CommandFacts, Zenon
<1>3. CASE syncs' = syncs /\ (Confirms => server'.iq = server.iq)
                          /\ server'.control = server.control
  <2>1. ReportsLast'
    BY <1>1, <1>2, <1>3 DEF ReportsLast, Newest, Frame
  <2>2. what = "iq" /\ Confirms /\ alive /\ ~garbled' /\ server.control /\ Heard(what, f)
        => syncs' # <<>>
    <3>1. ASSUME what = "iq" PROVE [iq |-> f, control |-> TRUE] \in Report
      BY <3>1 DEF Report
    <3> QED
      BY <1>1, <3>1, Sent DEF Heard
  <2> QED
    BY <1>2, <1>3, <2>1, <2>2 DEF Frame
<1>4. CASE /\ what = "iq" /\ server.control /\ server' = [server EXCEPT !.iq = f]
           /\ syncs' = Append(syncs, [iq |-> f, control |-> TRUE])
  <2>1. [iq |-> f, control |-> TRUE] \in Report
    BY <1>4 DEF Report
  <2>2. syncs' # <<>> /\ syncs'[Len(syncs')] = [iq |-> f, control |-> TRUE]
    BY <1>1, <1>4, <2>1, Sent
  <2>3. server'.iq = f /\ server'.control
    BY <1>1, <1>4 DEF State
  <2>4. ReportsLast'
    BY <2>2, <2>3 DEF ReportsLast, Newest
  <2> QED
    BY <1>2, <1>4, <2>2, <2>3, <2>4 DEF Frame
<1>5. \/ syncs' = syncs /\ (Confirms => server'.iq = server.iq)
                        /\ server'.control = server.control
      \/ /\ what = "iq" /\ server.control /\ server' = [server EXCEPT !.iq = f]
         /\ syncs' = Append(syncs, [iq |-> f, control |-> TRUE])
  BY <1>1, <1>2 DEF Acts, State
<1> QED
  BY <1>3, <1>4, <1>5

(* Every step keeps what Start knows.                                       *)
LEMMA KnowsStep == ASSUME ConstantsOK, Placed, Knows, [Next]_vars PROVE Knows'
<1>0. /\ ReportsLast /\ Greeted /\ Obeys
      /\ Start \in Goroutine /\ (\A t \in Tuner : t \in Goroutine /\ t # Start)
      /\ pc \in [Goroutine -> Place] /\ syncs \in Seq(Report) /\ server \in State
      /\ garbled \in BOOLEAN
      /\ pc[Start] = "dial" => ~alive
  BY DEF Placed, Knows, ConstantsOK, Goroutine, LocalTyped, RestTyped, Dials
<1>a. \A g \in Goroutine : req[g] \in Freq \cup {None} /\ (pc[g] \in Tuning => req[g] \in Freq)
  BY DEF Placed, LocalTyped
<1>1. ASSUME Dial PROVE Knows'
  <2>1. /\ pc' = [pc EXCEPT ![Start] = "hello"] /\ syncs' = <<Sync>> /\ server' = server
    BY <1>1 DEF Dial, Goto
  <2>2. pc'[Start] = "hello" /\ syncs' # <<>> /\ syncs'[Len(syncs')] = Sync
    BY <1>0, <2>1
  <2>3. ReportsLast'
    BY <2>1, <2>2 DEF ReportsLast, Newest, Sync
  <2> QED
    BY <2>2, <2>3 DEF Knows, Greeted, Obeys
<1>2. ASSUME Hello PROVE Knows'
  <2>1. pc[Start] = "hello" /\ Command(Start, "hello", "other", None, "handshake")
    BY <1>2 DEF Hello, Command
  <2>2. "hello" \in Place /\ "other" \in Setting /\ "handshake" \in Place
    BY DEF Place, Setting, SetUp, Streams
  <2>3. Start \in Goroutine /\ None \in Freq \cup {None} /\ ("other" = "iq" => None \in Freq)
    BY <1>0, <1>a, <2>1 DEF Tuning
  <2>4. /\ pc' = pc \/ pc' = [pc EXCEPT ![Start] = "handshake"]
        /\ alive' = alive /\ canControl' = canControl /\ announced' = announced
        /\ garbled => garbled'
        /\ ReportsLast'
        /\ syncs # <<>> => syncs' # <<>>
        /\ server'.control = server.control
        /\ Confirms /\ syncs' = <<>> => server'.iq = server.iq
        /\ \/ pc' = pc
           \/ "other" = "iq" /\ Confirms /\ alive /\ ~garbled' /\ server.control => syncs' # <<>>
    BY <2>1, <2>2, <2>3, CommandKnows
  <2>5. Greeted' /\ Obeys'
    BY <1>0, <2>1, <2>4 DEF Greeted, Obeys, Streams
  <2> QED
    BY <2>4, <2>5 DEF Knows
<1>3. ASSUME Handshake PROVE Knows'
  <2>1. /\ syncs # <<>> /\ pc'[Start] = "format" /\ canControl' = Head(syncs).control
        /\ syncs' = Tail(syncs) /\ server' = server /\ alive' = alive /\ garbled' = garbled
    BY <1>0, <1>3 DEF Handshake, Goto
  <2>2. /\ syncs' # <<>> => syncs'[Len(syncs')] = Newest
        /\ syncs' = <<>> => Head(syncs) = Newest
    BY <1>0, <2>1, Read DEF Newest
  <2>3. ReportsLast'
    BY <1>0, <2>1, <2>2 DEF ReportsLast, Newest
  <2>4. Greeted' /\ Obeys'
    BY <1>0, <2>1, <2>2 DEF ReportsLast, Greeted, Obeys, Streams
  <2> QED
    BY <2>3, <2>4 DEF Knows
<1>4. ASSUME Configure PROVE Knows'
  <2>1. pc[Start] = "format" /\ Command(Start, "format", "other", None, "centre")
    BY <1>4 DEF Configure, Command
  <2>2. "format" \in Place /\ "other" \in Setting /\ "centre" \in Place
    BY DEF Place, Setting, SetUp, Streams
  <2>3. Start \in Goroutine /\ None \in Freq \cup {None} /\ ("other" = "iq" => None \in Freq)
    BY <1>0, <1>a, <2>1 DEF Tuning
  <2>4. /\ pc' = pc \/ pc' = [pc EXCEPT ![Start] = "centre"]
        /\ alive' = alive /\ canControl' = canControl /\ announced' = announced
        /\ garbled => garbled'
        /\ ReportsLast'
        /\ syncs # <<>> => syncs' # <<>>
        /\ server'.control = server.control
        /\ Confirms /\ syncs' = <<>> => server'.iq = server.iq
        /\ \/ pc' = pc
           \/ "other" = "iq" /\ Confirms /\ alive /\ ~garbled' /\ server.control => syncs' # <<>>
    BY <2>1, <2>2, <2>3, CommandKnows
  <2>5. Greeted' /\ Obeys'
    BY <1>0, <2>1, <2>4 DEF Greeted, Obeys, Streams
  <2> QED
    BY <2>4, <2>5 DEF Knows
<1>5. ASSUME ChooseCentre PROVE Knows'
  <2>1. /\ pc[Start] = "centre" /\ pc'[Start] = IF canControl THEN "setiq" ELSE "enable"
        /\ UNCHANGED <<alive, canControl, garbled, server, syncs>>
    BY <1>0, <1>5 DEF ChooseCentre, Goto
  <2> QED
    BY <1>0, <2>1 DEF Knows, ReportsLast, Newest, Greeted, Obeys, Streams
<1>6. ASSUME SetIq PROVE Knows'
  <2>1. pc[Start] = "setiq" /\ Command(Start, "setiq", "iq", req[Start], "setfft")
    BY <1>6 DEF SetIq, Command
  <2>2. "setiq" \in Place /\ "iq" \in Setting /\ "setfft" \in Place
    BY DEF Place, Setting, SetUp, Streams
  <2>3. Start \in Goroutine /\ req[Start] \in Freq \cup {None} /\ ("iq" = "iq" => req[Start] \in Freq)
    BY <1>0, <1>a, <2>1 DEF Tuning
  <2>4. /\ pc' = pc \/ pc' = [pc EXCEPT ![Start] = "setfft"]
        /\ alive' = alive /\ canControl' = canControl /\ announced' = announced
        /\ garbled => garbled'
        /\ ReportsLast'
        /\ syncs # <<>> => syncs' # <<>>
        /\ server'.control = server.control
        /\ Confirms /\ syncs' = <<>> => server'.iq = server.iq
        /\ \/ pc' = pc
           \/ "iq" = "iq" /\ Confirms /\ alive /\ ~garbled' /\ server.control => syncs' # <<>>
    BY <2>1, <2>2, <2>3, CommandKnows
  <2>5. Greeted' /\ Obeys'
    BY <1>0, <2>1, <2>4 DEF Greeted, Obeys, Streams
  <2> QED
    BY <2>4, <2>5 DEF Knows
<1>7. ASSUME SetFft PROVE Knows'
  <2>1. pc[Start] = "setfft" /\ Command(Start, "setfft", "fft", req[Start], "enable")
    BY <1>7 DEF SetFft, Command
  <2>2. "setfft" \in Place /\ "fft" \in Setting /\ "enable" \in Place
    BY DEF Place, Setting, SetUp, Streams
  <2>3. Start \in Goroutine /\ req[Start] \in Freq \cup {None} /\ ("fft" = "iq" => req[Start] \in Freq)
    BY <1>0, <1>a, <2>1 DEF Tuning
  <2>4. /\ pc' = pc \/ pc' = [pc EXCEPT ![Start] = "enable"]
        /\ alive' = alive /\ canControl' = canControl /\ announced' = announced
        /\ garbled => garbled'
        /\ ReportsLast'
        /\ syncs # <<>> => syncs' # <<>>
        /\ server'.control = server.control
        /\ Confirms /\ syncs' = <<>> => server'.iq = server.iq
        /\ \/ pc' = pc
           \/ "fft" = "iq" /\ Confirms /\ alive /\ ~garbled' /\ server.control => syncs' # <<>>
    BY <2>1, <2>2, <2>3, CommandKnows
  <2>5. Greeted' /\ Obeys'
    BY <1>0, <2>1, <2>4 DEF Greeted, Obeys, Streams
  <2> QED
    BY <2>4, <2>5 DEF Knows
<1>8. ASSUME Enable PROVE Knows'
  <2>1. pc[Start] = "enable" /\ Command(Start, "enable", "other", None, "announce")
    BY <1>8 DEF Enable, Command
  <2>2. "enable" \in Place /\ "other" \in Setting /\ "announce" \in Place
    BY DEF Place, Setting, SetUp, Streams
  <2>3. Start \in Goroutine /\ None \in Freq \cup {None} /\ ("other" = "iq" => None \in Freq)
    BY <1>0, <1>a, <2>1 DEF Tuning
  <2>4. /\ pc' = pc \/ pc' = [pc EXCEPT ![Start] = "announce"]
        /\ alive' = alive /\ canControl' = canControl /\ announced' = announced
        /\ garbled => garbled'
        /\ ReportsLast'
        /\ syncs # <<>> => syncs' # <<>>
        /\ server'.control = server.control
        /\ Confirms /\ syncs' = <<>> => server'.iq = server.iq
        /\ \/ pc' = pc
           \/ "other" = "iq" /\ Confirms /\ alive /\ ~garbled' /\ server.control => syncs' # <<>>
    BY <2>1, <2>2, <2>3, CommandKnows
  <2>5. Greeted' /\ Obeys'
    BY <1>0, <2>1, <2>4 DEF Greeted, Obeys, Streams
  <2> QED
    BY <2>4, <2>5 DEF Knows
<1>9. ASSUME AnnounceStream PROVE Knows'
  <2>1. /\ pc[Start] = "announce" /\ pc'[Start] = "loop"
        /\ UNCHANGED <<alive, canControl, announced, garbled, server, syncs>>
    BY <1>0, <1>9 DEF AnnounceStream, Goto
  <2> QED
    BY <1>0, <2>1 DEF Knows, ReportsLast, Newest, Greeted, Obeys, Streams
<1>10. ASSUME ClientSync PROVE Knows'
  <2>1. /\ syncs # <<>> /\ syncs' = Tail(syncs) /\ pc'[Start] \in Streams
        /\ announced' = Head(syncs).iq
        /\ UNCHANGED <<alive, canControl, garbled, server>>
    BY <1>0, <1>10 DEF ClientSync, Goto, Streams
  <2>2. /\ syncs' # <<>> => syncs'[Len(syncs')] = Newest
        /\ syncs' = <<>> => Head(syncs) = Newest
    BY <1>0, <2>1, Read DEF Newest
  <2>3. ReportsLast'
    BY <1>0, <2>1, <2>2 DEF ReportsLast, Newest
  <2>4. Greeted' /\ Obeys'
    BY <1>0, <2>1, <2>2 DEF ReportsLast, Greeted, Obeys, Streams
  <2> QED
    BY <2>3, <2>4 DEF Knows
<1>11. ASSUME StartFails \/ Drop PROVE Knows'
  <2>1. ~alive'
    BY <1>11 DEF StartFails, Drop
  <2> QED
    BY <2>1 DEF Knows, ReportsLast, Greeted, Obeys
<1>12. ASSUME NEW t \in Tuner, TuneIq(t) PROVE Knows'
  <2>1. pc[t] = "setiq" /\ Command(t, "setiq", "iq", req[t], "setfft")
    BY <1>12 DEF TuneIq, Command
  <2>2. "setiq" \in Place /\ "iq" \in Setting /\ "setfft" \in Place
    BY DEF Place, Setting, SetUp, Streams
  <2>3. t \in Goroutine /\ req[t] \in Freq \cup {None} /\ ("iq" = "iq" => req[t] \in Freq)
    BY <1>0, <1>a, <2>1 DEF Tuning
  <2>4. /\ pc' = pc \/ pc' = [pc EXCEPT ![t] = "setfft"]
        /\ alive' = alive /\ canControl' = canControl /\ announced' = announced
        /\ garbled => garbled'
        /\ ReportsLast'
        /\ syncs # <<>> => syncs' # <<>>
        /\ server'.control = server.control
        /\ Confirms /\ syncs' = <<>> => server'.iq = server.iq
        /\ \/ pc' = pc
           \/ "iq" = "iq" /\ Confirms /\ alive /\ ~garbled' /\ server.control => syncs' # <<>>
    BY <2>1, <2>2, <2>3, CommandKnows
  <2>5. Greeted' /\ Obeys'
    BY <1>0, <2>1, <2>4 DEF Greeted, Obeys, Streams
  <2> QED
    BY <2>4, <2>5 DEF Knows
<1>13. ASSUME NEW t \in Tuner, TuneFft(t) PROVE Knows'
  <2>1. pc[t] = "setfft" /\ Command(t, "setfft", "fft", req[t], "renew")
    BY <1>13 DEF TuneFft, Command
  <2>2. "setfft" \in Place /\ "fft" \in Setting /\ "renew" \in Place
    BY DEF Place, Setting, SetUp, Streams
  <2>3. t \in Goroutine /\ req[t] \in Freq \cup {None} /\ ("fft" = "iq" => req[t] \in Freq)
    BY <1>0, <1>a, <2>1 DEF Tuning
  <2>4. /\ pc' = pc \/ pc' = [pc EXCEPT ![t] = "renew"]
        /\ alive' = alive /\ canControl' = canControl /\ announced' = announced
        /\ garbled => garbled'
        /\ ReportsLast'
        /\ syncs # <<>> => syncs' # <<>>
        /\ server'.control = server.control
        /\ Confirms /\ syncs' = <<>> => server'.iq = server.iq
        /\ \/ pc' = pc
           \/ "fft" = "iq" /\ Confirms /\ alive /\ ~garbled' /\ server.control => syncs' # <<>>
    BY <2>1, <2>2, <2>3, CommandKnows
  <2>5. Greeted' /\ Obeys'
    BY <1>0, <2>1, <2>4 DEF Greeted, Obeys, Streams
  <2> QED
    BY <2>4, <2>5 DEF Knows
<1>14. ASSUME NEW t \in Tuner, NEW f \in Freq,
              TuneFails(t) \/ Reannounce(t) \/ StoreAnnounce(t) \/ Tune(t, f)
       PROVE Knows'
  <2>1. UNCHANGED <<alive, canControl, announced, garbled, server, syncs>>
    BY <1>14 DEF TuneFails, Reannounce, StoreAnnounce, Tune
  <2>2. pc' = pc \/ \E p \in Place : pc' = [pc EXCEPT ![t] = p]
    BY <1>14 DEF TuneFails, Reannounce, StoreAnnounce, Tune, Goto, Place, SetUp
  <2>3. pc'[Start] = pc[Start]
    BY <1>0, <2>2
  <2> QED
    BY <2>1, <2>3, KnowsFrame DEF Known
<1>16. ASSUME NEW s \in State, Move(s) PROVE Knows'
  <2>1. /\ server' = s /\ UNCHANGED <<pc, alive, canControl, announced, garbled>>
        /\ alive => syncs' = Append(syncs, [iq |-> s.iq, control |-> s.control])
    BY <1>16 DEF Move
  <2>2. [iq |-> s.iq, control |-> s.control] \in Report
    BY DEF State, Report
  <2>3. alive => /\ syncs' # <<>>
                 /\ syncs'[Len(syncs')] = [iq |-> s.iq, control |-> s.control]
    BY <1>0, <2>1, <2>2, Sent
  <2> QED
    BY <2>1, <2>3 DEF Knows, ReportsLast, Newest, Greeted, Obeys
<1>17. ASSUME UNCHANGED vars PROVE Knows'
  BY <1>17, KnowsFrame DEF vars, Known
<1>18. \A f \in Freq, c \in BOOLEAN : [iq |-> f, fft |-> f, control |-> c] \in State
  BY DEF State
<1>19. ASSUME NEW t \in Tuner, ReadLoop(t) PROVE Knows'
  <2>1. PICK f \in Freq : TRUE
    BY DEF ConstantsOK
  <2> QED
    BY <1>12, <1>13, <1>14, <1>19, <2>1 DEF ReadLoop
<1> QED
  BY <1>1, <1>2, <1>3, <1>4, <1>5, <1>6, <1>7, <1>8, <1>9, <1>10, <1>11, <1>14, <1>16, <1>17,
     <1>18, <1>19
  DEF Next, Source, Environment

------------------------------------------------------------------------------
(* Without readLoops: a read-only server is followed.                       *)

(* From the greeting on, the last report tells where the server is, and     *)
(* with none on its way a Start without control is there.                   *)
ReadsOn ==
    alive /\ (~canControl \/ pc[Start] \in {"hello", "handshake"}) =>
        /\ syncs # <<>> => Newest.iq = server.iq
        /\ syncs = <<>> /\ pc[Start] \in {"format", "centre"} => centerHz = server.iq
        /\ syncs = <<>> /\ pc[Start] \in {"enable"} \cup Streams => announced = server.iq

(* Start has one idea of the centre, and sets it only with control.         *)
OneCentre ==
    /\ pc[Start] \in {"setiq", "setfft"} => canControl
    /\ pc[Start] \in {"setiq", "setfft", "enable", "announce"} => req[Start] = announced
    /\ pc[Start] \in {"setiq", "setfft", "enable"} \cup Streams => announced = centerHz
    /\ pc[Start] = "loop" => told = announced

Follows == ReadsOn /\ OneCentre

LEMMA FollowsStep ==
    ASSUME ConstantsOK, Tuner = {}, Placed, Follows, [Next]_vars
    PROVE  Follows'
<1>0. /\ ReadsOn /\ OneCentre
      /\ Start \in Goroutine
      /\ pc \in [Goroutine -> Place] /\ req \in [Goroutine -> Freq \cup {None}]
      /\ syncs \in Seq(Report) /\ server \in State
      /\ CountTyped /\ RestTyped
      /\ pc[Start] = "dial" => ~alive
  BY DEF Follows, Placed, Goroutine, LocalTyped, RestTyped, Dials
<1>1. ASSUME Dial PROVE Follows'
  <2>1. /\ pc' = [pc EXCEPT ![Start] = "hello"] /\ syncs' = <<Sync>> /\ server' = server
    BY <1>1 DEF Dial, Goto
  <2>2. pc'[Start] = "hello" /\ syncs' # <<>> /\ syncs'[Len(syncs')] = Sync
    BY <1>0, <2>1
  <2>3. ReadsOn'
    BY <2>1, <2>2 DEF ReadsOn, Newest, Sync, Streams
  <2> QED
    BY <2>2, <2>3 DEF Follows, OneCentre, Streams
<1>2. ASSUME Hello PROVE Follows'
  <2>1. pc[Start] = "hello" /\ Command(Start, "hello", "other", None, "handshake")
    BY <1>2 DEF Hello, Command
  <2>2. "hello" \in Place /\ "other" \in Setting /\ "handshake" \in Place
        /\ None \in Freq \cup {None}
    BY <1>0 DEF Place, Setting, SetUp, Streams
  <2>3. Frame /\ Acts("other", None) /\ (pc' = pc \/ pc' = [pc EXCEPT ![Start] = "handshake"])
    BY <1>0, <2>1, <2>2, CommandFacts
  <2>4. syncs' = syncs /\ server'.iq = server.iq
    BY <1>0, <2>3 DEF Acts, State
  <2> QED
    BY <1>0, <2>1, <2>3, <2>4 DEF Frame, Follows, ReadsOn, OneCentre, Newest, Streams
<1>3. ASSUME Handshake PROVE Follows'
  <2>1. /\ pc[Start] = "handshake" /\ pc'[Start] = "format"
        /\ syncs # <<>> /\ syncs' = Tail(syncs) /\ server' = server /\ alive' = alive
        /\ canControl' = Head(syncs).control
        /\ ~Head(syncs).control => centerHz' = Head(syncs).iq
    BY <1>0, <1>3 DEF Handshake, Goto
  <2>2. /\ syncs' # <<>> => syncs'[Len(syncs')] = Newest
        /\ syncs' = <<>> => Head(syncs) = Newest
    BY <1>0, <2>1, Read DEF Newest
  <2>3. ReadsOn'
    BY <1>0, <2>1, <2>2 DEF ReadsOn, Newest, Streams
  <2> QED
    BY <2>1, <2>3 DEF Follows, OneCentre, Streams
<1>4. ASSUME Configure PROVE Follows'
  <2>1. pc[Start] = "format" /\ Command(Start, "format", "other", None, "centre")
    BY <1>4 DEF Configure, Command
  <2>2. "format" \in Place /\ "other" \in Setting /\ "centre" \in Place
        /\ None \in Freq \cup {None}
    BY <1>0 DEF Place, Setting, SetUp, Streams
  <2>3. Frame /\ Acts("other", None) /\ (pc' = pc \/ pc' = [pc EXCEPT ![Start] = "centre"])
    BY <1>0, <2>1, <2>2, CommandFacts
  <2>4. syncs' = syncs /\ server'.iq = server.iq
    BY <1>0, <2>3 DEF Acts, State
  <2> QED
    BY <1>0, <2>1, <2>3, <2>4 DEF Frame, Follows, ReadsOn, OneCentre, Newest, Streams
<1>5. ASSUME ChooseCentre PROVE Follows'
  <2>1. /\ pc[Start] = "centre" /\ pc'[Start] = IF canControl THEN "setiq" ELSE "enable"
        /\ announced' = centerHz' /\ req'[Start] = centerHz'
        /\ ~canControl => centerHz' = centerHz
        /\ UNCHANGED <<alive, canControl, server, syncs>>
    BY <1>0, <1>5 DEF ChooseCentre, Goto
  <2> QED
    BY <1>0, <2>1 DEF Follows, ReadsOn, OneCentre, Newest, Streams
<1>6. ASSUME SetIq PROVE Follows'
  <2>1. pc[Start] = "setiq" /\ Command(Start, "setiq", "iq", req[Start], "setfft")
    BY <1>6 DEF SetIq, Command
  <2>2. "setiq" \in Place /\ "iq" \in Setting /\ "setfft" \in Place
        /\ req[Start] \in Freq \cup {None}
    BY <1>0 DEF Place, Setting, SetUp, Streams
  <2>3. Frame /\ Acts("iq", req[Start]) /\ (pc' = pc \/ pc' = [pc EXCEPT ![Start] = "setfft"])
    BY <1>0, <2>1, <2>2, CommandFacts
  <2> QED
    BY <1>0, <2>1, <2>3 DEF Frame, Follows, ReadsOn, OneCentre, Streams
<1>7. ASSUME SetFft PROVE Follows'
  <2>1. pc[Start] = "setfft" /\ Command(Start, "setfft", "fft", req[Start], "enable")
    BY <1>7 DEF SetFft, Command
  <2>2. "setfft" \in Place /\ "fft" \in Setting /\ "enable" \in Place
        /\ req[Start] \in Freq \cup {None}
    BY <1>0 DEF Place, Setting, SetUp, Streams
  <2>3. Frame /\ Acts("fft", req[Start]) /\ (pc' = pc \/ pc' = [pc EXCEPT ![Start] = "enable"])
    BY <1>0, <2>1, <2>2, CommandFacts
  <2>4. syncs' = syncs /\ server'.iq = server.iq
    BY <1>0, <2>3 DEF Acts, State
  <2> QED
    BY <1>0, <2>1, <2>3, <2>4 DEF Frame, Follows, ReadsOn, OneCentre, Newest, Streams
<1>8. ASSUME Enable PROVE Follows'
  <2>1. pc[Start] = "enable" /\ Command(Start, "enable", "other", None, "announce")
    BY <1>8 DEF Enable, Command
  <2>2. "enable" \in Place /\ "other" \in Setting /\ "announce" \in Place
        /\ None \in Freq \cup {None}
    BY <1>0 DEF Place, Setting, SetUp, Streams
  <2>3. Frame /\ Acts("other", None) /\ (pc' = pc \/ pc' = [pc EXCEPT ![Start] = "announce"])
    BY <1>0, <2>1, <2>2, CommandFacts
  <2>4. syncs' = syncs /\ server'.iq = server.iq
    BY <1>0, <2>3 DEF Acts, State
  <2> QED
    BY <1>0, <2>1, <2>3, <2>4 DEF Frame, Follows, ReadsOn, OneCentre, Newest, Streams
<1>9. ASSUME AnnounceStream PROVE Follows'
  <2>1. /\ pc[Start] = "announce" /\ pc'[Start] = "loop" /\ told' = req[Start]
        /\ UNCHANGED <<alive, canControl, centerHz, announced, server, syncs>>
    BY <1>0, <1>9 DEF AnnounceStream, Goto
  <2> QED
    BY <1>0, <2>1 DEF Follows, ReadsOn, OneCentre, Newest, Streams
<1>10. ASSUME ClientSync PROVE Follows'
  <2>1. /\ pc[Start] = "loop" /\ syncs # <<>> /\ syncs' = Tail(syncs)
        /\ \/ /\ Head(syncs).iq = announced /\ pc'[Start] = "loop"
              /\ announced' = announced /\ centerHz' = centerHz
           \/ /\ pc'[Start] = "announce" /\ req'[Start] = Head(syncs).iq
              /\ announced' = Head(syncs).iq /\ centerHz' = Head(syncs).iq
        /\ UNCHANGED <<alive, canControl, server, told>>
    BY <1>0, <1>10 DEF ClientSync, Goto
  <2>2. /\ syncs' # <<>> => syncs'[Len(syncs')] = Newest
        /\ syncs' = <<>> => Head(syncs) = Newest
    BY <1>0, <2>1, Read DEF Newest
  <2>3. ReadsOn'
    BY <1>0, <2>1, <2>2 DEF ReadsOn, Newest, Streams
  <2>4. OneCentre'
    BY <1>0, <2>1 DEF OneCentre, Streams
  <2> QED
    BY <2>3, <2>4 DEF Follows
<1>11. ASSUME StartFails PROVE Follows'
  <2>1. ~alive' /\ pc'[Start] = "dial"
    BY <1>0, <1>11 DEF StartFails, Goto
  <2> QED
    BY <2>1 DEF Follows, ReadsOn, OneCentre, Streams
<1>12. ASSUME Drop PROVE Follows'
  <2>1. ~alive' /\ UNCHANGED <<pc, req, centerHz, canControl, announced, told>>
    BY <1>12 DEF Drop
  <2> QED
    BY <1>0, <2>1 DEF Follows, ReadsOn, OneCentre
<1>13. ASSUME NEW s \in State, Move(s) PROVE Follows'
  <2>1. /\ server' = s
        /\ UNCHANGED <<pc, req, alive, centerHz, canControl, announced, told>>
        /\ alive => syncs' = Append(syncs, [iq |-> s.iq, control |-> s.control])
    BY <1>13 DEF Move
  <2>2. [iq |-> s.iq, control |-> s.control] \in Report
    BY DEF State, Report
  <2>3. alive => /\ syncs' # <<>>
                 /\ syncs'[Len(syncs')] = [iq |-> s.iq, control |-> s.control]
    BY <1>0, <2>1, <2>2, Sent
  <2>4. ReadsOn'
    BY <2>1, <2>3 DEF ReadsOn, Newest
  <2>5. OneCentre'
    BY <1>0, <2>1 DEF OneCentre
  <2> QED
    BY <2>4, <2>5 DEF Follows
<1>14. ASSUME UNCHANGED vars PROVE Follows'
  BY <1>0, <1>14 DEF vars, Follows, ReadsOn, OneCentre, Newest
<1>15. \A f \in Freq, c \in BOOLEAN : [iq |-> f, fft |-> f, control |-> c] \in State
  BY DEF State
<1> QED
  BY <1>1, <1>2, <1>3, <1>4, <1>5, <1>6, <1>7, <1>8, <1>9, <1>10, <1>11, <1>12, <1>13, <1>14,
     <1>15
  DEF Next, Source, Environment

------------------------------------------------------------------------------
(* Theorems about SpyServer.                                                *)

LEMMA InvAlways == ASSUME ConstantsOK PROVE Spec => []Inv
<1>1. Init => Inv
  BY InvInit
<1>2. Inv /\ [Next]_vars => Inv'
  BY PlacedStep, KnowsStep DEF Inv
<1> QED
  BY <1>1, <1>2, PTL DEF Spec

(* Every variable of the SpyServer source has its type, and every local is  *)
(* live only where it is used.                                              *)
THEOREM SpyTypeCorrect == ASSUME ConstantsOK PROVE Spec => []TypeOK
<1>1. Inv => TypeOK
  BY TypeWhole DEF Inv
<1> QED
  BY <1>1, InvAlways, PTL

(* With a server that reports every change, Start has its centre whenever   *)
(* it has read all that was reported, however many Bridges tune through it  *)
(* and whatever they pre-set.                                               *)
THEOREM SpyStartKnows == ASSUME ConstantsOK PROVE Spec => []StartKnows
<1>1. Inv => StartKnows
  BY DEF Inv, Knows, Obeys, StartKnows, Quiet, Streams
<1> QED
  BY <1>1, InvAlways, PTL

(* Where no Bridge tunes, a read-only server that moves by itself is        *)
(* followed: at rest the hub, Start and s.centerHz have the centre it       *)
(* reported last, through any number of drops and changes of control.       *)
THEOREM SpyFollowed == ASSUME ConstantsOK, Tuner = {} PROVE Spec => []Followed
<1>1. Init => Follows
  BY DEF Init, ConstantsOK, Goroutine, Follows, ReadsOn, OneCentre, Streams
<1>2. Inv /\ Follows /\ [Next]_vars => Follows'
  BY FollowsStep DEF Inv
<1>3. Follows => Followed
  BY DEF Follows, ReadsOn, OneCentre, Followed, Quiet, Streams
<1> QED
  BY <1>1, <1>2, <1>3, InvAlways, PTL DEF Spec

------------------------------------------------------------------------------
(* The rtl_tcp source: types.                                               *)

RtlCounts == [tunes : 0..MaxTunes, drops : 0..MaxDrops]

(* Start and what it has.                                                   *)
RtlStartTyped ==
    /\ pc \in {"dial", "getcentre", "setfreq", "configured", "announce", "loop"}
    /\ val \in Freq \cup {None}
    /\ val # None <=> pc \in {"setfreq", "announce"}
    /\ alive \in BOOLEAN /\ swapped \in BOOLEAN /\ raced \in BOOLEAN
    /\ centerHz \in Freq /\ freq \in Freq
    /\ told \in Freq \cup {None}
    /\ pc = "loop" => told # None
    /\ denied \in Freq \cup {None}

(* The readLoops.                                                           *)
RtlTuneTyped ==
    /\ tpc \in [Tuner -> {"idle", "conn", "write", "renew", "store"}]
    /\ req \in [Tuner -> Freq \cup {None}]
    /\ \A t \in Tuner : (req[t] = None) = (tpc[t] = "idle")

(* Connections: every one but that in use was dropped.                      *)
RtlConnTyped ==
    /\ used \in RtlCounts
    /\ conn = used.drops + (IF alive THEN 1 ELSE 0)
    /\ pc = "dial" => ~alive
    /\ via \in [Tuner -> 0..conn]

RtlTyped == RtlStartTyped /\ RtlTuneTyped /\ RtlConnTyped

(* The bounds of the connections' numbers.                                  *)
LEMMA RtlTypeWhole == ASSUME Rtl!ConstantsOK, RtlTyped PROVE Rtl!TypeOK
<1>1. used.drops \in 0..MaxDrops /\ used \in RtlCounts
  BY DEF RtlTyped, RtlConnTyped, RtlCounts
<1>2. conn \in 0..(MaxDrops + 1)
  BY <1>1 DEF RtlTyped, RtlConnTyped, RtlStartTyped, Rtl!ConstantsOK
<1> QED
  BY <1>1, <1>2 DEF RtlTyped, RtlStartTyped, RtlTuneTyped, RtlConnTyped, RtlCounts, Rtl!TypeOK

LEMMA RtlTypedInit == ASSUME Rtl!ConstantsOK, Rtl!Init PROVE RtlTyped
<1>1. used \in RtlCounts /\ used.drops = 0 /\ conn = 0
  BY DEF Rtl!ConstantsOK, Rtl!Init, RtlCounts
<1>2. RtlConnTyped
  BY <1>1 DEF Rtl!Init, RtlConnTyped
<1>3. RtlStartTyped
  BY DEF Rtl!ConstantsOK, Rtl!Init, RtlStartTyped
<1>4. RtlTuneTyped
  BY DEF Rtl!Init, RtlTuneTyped
<1> QED
  BY <1>2, <1>3, <1>4 DEF RtlTyped

LEMMA RtlTypedStep ==
    ASSUME Rtl!ConstantsOK, RtlTyped, [Rtl!Next]_Rtl!vars
    PROVE  RtlTyped'
<1>0. /\ RtlStartTyped /\ RtlTuneTyped /\ RtlConnTyped /\ None \notin Freq
      /\ MaxDrops \in Nat /\ MaxTunes \in Nat
  BY DEF RtlTyped, Rtl!ConstantsOK
<1>a. used \in RtlCounts /\ used.drops \in Nat /\ conn \in Nat
  BY <1>0 DEF RtlConnTyped, RtlCounts, RtlStartTyped
<1>1. ASSUME Rtl!Dial PROVE RtlTyped'
  <2>1. /\ pc = "dial" /\ pc' = "getcentre" /\ conn' = conn + 1
        /\ alive' = TRUE /\ swapped' = FALSE /\ raced' = FALSE
        /\ UNCHANGED <<val, centerHz, freq, told, tpc, req, via, denied, used>>
    BY <1>1 DEF Rtl!Dial, Rtl!tuneVars
  <2>2. RtlStartTyped'
    BY <1>0, <2>1 DEF RtlStartTyped
  <2>3. RtlTuneTyped'
    BY <1>0, <2>1 DEF RtlTuneTyped, RtlStartTyped
  <2>4. RtlConnTyped'
    BY <1>0, <1>a, <2>1 DEF RtlConnTyped, RtlStartTyped
  <2> QED
    BY <2>2, <2>3, <2>4 DEF RtlTyped
<1>2. ASSUME Rtl!GetCentre \/ Rtl!SetFreq \/ Rtl!GetAnnounced \/ Rtl!AnnounceStream \/ Rtl!ReadSamples
              \/ Rtl!StartFails
       PROVE  RtlTyped'
  <2>1. /\ UNCHANGED <<conn, alive, centerHz, tpc, req, via, denied, raced, used>>
        /\ pc' = "dial" => ~alive
    BY <1>2 DEF Rtl!GetCentre, Rtl!SetFreq, Rtl!GetAnnounced, Rtl!AnnounceStream,
                Rtl!ReadSamples, Rtl!StartFails, Rtl!tuneVars, Rtl!ghostVars, RtlConnTyped
  <2>2. RtlStartTyped'
    <3>1. CASE Rtl!GetCentre
      BY <1>0, <3>1, <2>1 DEF Rtl!GetCentre, RtlStartTyped
    <3>2. CASE Rtl!SetFreq
      BY <1>0, <3>2, <2>1 DEF Rtl!SetFreq, RtlStartTyped
    <3>3. CASE Rtl!GetAnnounced
      BY <1>0, <3>3, <2>1 DEF Rtl!GetAnnounced, RtlStartTyped
    <3>4. CASE Rtl!AnnounceStream
      BY <1>0, <3>4, <2>1 DEF Rtl!AnnounceStream, RtlStartTyped
    <3>5. CASE Rtl!ReadSamples
      BY <1>0, <3>5, <2>1 DEF Rtl!ReadSamples, RtlStartTyped
    <3>6. CASE Rtl!StartFails
      BY <1>0, <3>6, <2>1 DEF Rtl!StartFails, RtlStartTyped
    <3> QED
      BY <1>2, <3>1, <3>2, <3>3, <3>4, <3>5, <3>6
  <2>3. RtlTuneTyped'
    BY <1>0, <2>1 DEF RtlTuneTyped
  <2>4. RtlConnTyped'
    BY <1>0, <2>1 DEF RtlConnTyped
  <2> QED
    BY <2>2, <2>3, <2>4 DEF RtlTyped
<1>3. ASSUME NEW t \in Tuner, NEW f \in Freq, Rtl!Tune(t, f) PROVE RtlTyped'
  <2>1. /\ used.tunes < MaxTunes /\ used' = [used EXCEPT !.tunes = @ + 1]
        /\ tpc' = [tpc EXCEPT ![t] = "conn"] /\ req' = [req EXCEPT ![t] = f]
        /\ centerHz' = f /\ raced' \in BOOLEAN
        /\ UNCHANGED <<pc, conn, val, alive, swapped>>
        /\ UNCHANGED <<freq, told, via, denied>>
    BY <1>0, <1>3 DEF Rtl!Tune, Rtl!startVars, Rtl!Configuring, RtlStartTyped
  <2>2. used' \in RtlCounts /\ used'.drops = used.drops
    BY <1>0, <1>a, <2>1 DEF RtlCounts
  <2>3. RtlStartTyped'
    BY <1>0, <2>1 DEF RtlStartTyped
  <2>4. RtlTuneTyped'
    BY <1>0, <2>1 DEF RtlTuneTyped
  <2>5. RtlConnTyped'
    BY <1>0, <2>1, <2>2 DEF RtlConnTyped
  <2> QED
    BY <2>3, <2>4, <2>5 DEF RtlTyped
<1>4. ASSUME NEW t \in Tuner, Rtl!TakeConn(t) PROVE RtlTyped'
  <2>1. /\ tpc[t] = "conn" /\ tpc' = [tpc EXCEPT ![t] = "write"]
        /\ via' = [via EXCEPT ![t] = conn]
        /\ UNCHANGED <<pc, conn, val, alive, swapped>>
        /\ UNCHANGED <<centerHz, freq, told, req, denied, raced, used>>
    BY <1>4 DEF Rtl!TakeConn, Rtl!startVars, Rtl!ghostVars
  <2>2. RtlStartTyped'
    BY <1>0, <2>1 DEF RtlStartTyped
  <2>3. RtlTuneTyped'
    BY <1>0, <2>1 DEF RtlTuneTyped, RtlStartTyped
  <2>4. RtlConnTyped'
    BY <1>0, <1>a, <2>1 DEF RtlConnTyped, RtlStartTyped
  <2> QED
    BY <2>2, <2>3, <2>4 DEF RtlTyped
<1>5. ASSUME NEW t \in Tuner, Rtl!WriteOk(t) PROVE RtlTyped'
  <2>1. /\ tpc[t] = "write" /\ tpc' = [tpc EXCEPT ![t] = "renew"]
        /\ via' = [via EXCEPT ![t] = 0] /\ denied' = None /\ freq' \in {req[t], freq}
        /\ UNCHANGED <<pc, conn, val, alive, swapped>>
        /\ UNCHANGED <<centerHz, told, req, raced, used>>
    BY <1>5 DEF Rtl!WriteOk, Rtl!startVars
  <2>a. req[t] \in Freq
    BY <1>0, <2>1 DEF RtlTuneTyped
  <2>2. RtlStartTyped'
    BY <1>0, <2>1, <2>a DEF RtlStartTyped
  <2>3. RtlTuneTyped'
    BY <1>0, <2>1 DEF RtlTuneTyped, RtlStartTyped
  <2>4. RtlConnTyped'
    BY <1>0, <1>a, <2>1 DEF RtlConnTyped, RtlStartTyped
  <2> QED
    BY <2>2, <2>3, <2>4 DEF RtlTyped
<1>6. ASSUME NEW t \in Tuner, Rtl!WriteFails(t) PROVE RtlTyped'
  <2>1. /\ tpc[t] = "write" /\ tpc' = [tpc EXCEPT ![t] = "idle"]
        /\ via' = [via EXCEPT ![t] = 0] /\ req' = [req EXCEPT ![t] = None] /\ denied' = req[t]
        /\ UNCHANGED <<pc, conn, val, alive, swapped>>
        /\ UNCHANGED <<centerHz, freq, told, raced, used>>
    BY <1>6 DEF Rtl!WriteFails, Rtl!startVars
  <2>a. req[t] \in Freq
    BY <1>0, <2>1 DEF RtlTuneTyped
  <2>2. RtlStartTyped'
    BY <1>0, <2>1, <2>a DEF RtlStartTyped
  <2>3. RtlTuneTyped'
    BY <1>0, <2>1 DEF RtlTuneTyped, RtlStartTyped
  <2>4. RtlConnTyped'
    BY <1>0, <1>a, <2>1 DEF RtlConnTyped, RtlStartTyped
  <2> QED
    BY <2>2, <2>3, <2>4 DEF RtlTyped
<1>7. ASSUME NEW t \in Tuner, Rtl!Reannounce(t) PROVE RtlTyped'
  <2>1. /\ tpc[t] = "renew"
        /\ \/ tpc' = [tpc EXCEPT ![t] = "idle"] /\ req' = [req EXCEPT ![t] = None]
           \/ tpc' = [tpc EXCEPT ![t] = "store"] /\ req' = [req EXCEPT ![t] = req[t]]
        /\ UNCHANGED <<pc, conn, val, alive, swapped>>
        /\ UNCHANGED <<centerHz, freq, told, via, denied, raced, used>>
    BY <1>7 DEF Rtl!Reannounce, Rtl!startVars, Rtl!ghostVars
  <2>2. RtlStartTyped'
    BY <1>0, <2>1 DEF RtlStartTyped
  <2>3. RtlTuneTyped'
    BY <1>0, <2>1 DEF RtlTuneTyped, RtlStartTyped
  <2>4. RtlConnTyped'
    BY <1>0, <1>a, <2>1 DEF RtlConnTyped, RtlStartTyped
  <2> QED
    BY <2>2, <2>3, <2>4 DEF RtlTyped
<1>8. ASSUME NEW t \in Tuner, Rtl!StoreAnnounce(t) PROVE RtlTyped'
  <2>1. /\ tpc[t] = "store" /\ tpc' = [tpc EXCEPT ![t] = "idle"]
        /\ told' = req[t] /\ req' = [req EXCEPT ![t] = None]
        /\ UNCHANGED <<pc, conn, val, alive, swapped>>
        /\ UNCHANGED <<centerHz, freq, via, denied, raced, used>>
    BY <1>8 DEF Rtl!StoreAnnounce, Rtl!startVars, Rtl!ghostVars
  <2>a. req[t] \in Freq
    BY <1>0, <2>1 DEF RtlTuneTyped
  <2>2. RtlStartTyped'
    BY <1>0, <2>1, <2>a DEF RtlStartTyped
  <2>3. RtlTuneTyped'
    BY <1>0, <2>1 DEF RtlTuneTyped, RtlStartTyped
  <2>4. RtlConnTyped'
    BY <1>0, <1>a, <2>1 DEF RtlConnTyped, RtlStartTyped
  <2> QED
    BY <2>2, <2>3, <2>4 DEF RtlTyped
<1>9. ASSUME Rtl!Drop PROVE RtlTyped'
  <2>1. /\ alive /\ alive' = FALSE /\ used.drops < MaxDrops
        /\ used' = [used EXCEPT !.drops = @ + 1]
        /\ UNCHANGED <<pc, conn, val, swapped, centerHz, freq, told, tpc, req, via, denied, raced>>
    BY <1>9 DEF Rtl!Drop, Rtl!tuneVars
  <2>2. used' \in RtlCounts /\ used'.drops = used.drops + 1
    BY <1>0, <1>a, <2>1 DEF RtlCounts
  <2>3. RtlStartTyped' /\ RtlTuneTyped'
    BY <1>0, <2>1 DEF RtlStartTyped, RtlTuneTyped
  <2>4. RtlConnTyped'
    BY <1>0, <1>a, <2>1, <2>2 DEF RtlConnTyped
  <2> QED
    BY <2>3, <2>4 DEF RtlTyped
<1>10. ASSUME UNCHANGED Rtl!vars PROVE RtlTyped'
  BY <1>0, <1>10
  DEF Rtl!vars, Rtl!startVars, Rtl!tuneVars, Rtl!ghostVars, RtlTyped, RtlStartTyped,
      RtlTuneTyped, RtlConnTyped
<1> QED
  BY <1>1, <1>2, <1>3, <1>4, <1>5, <1>6, <1>7, <1>8, <1>9, <1>10
  DEF Rtl!Next, Rtl!Start, Rtl!Control

------------------------------------------------------------------------------
(* The rtl_tcp source: one centre.                                          *)

(* The Bridge that may tune.                                                *)
OneBridge == \A t, u \in Tuner : t = u

(* Its command is still to reach the connection Start uses.                 *)
Coming(t) == tpc[t] = "conn" \/ (tpc[t] = "write" /\ via[t] = conn)

(* A tune is for the centre that Tune set.                                  *)
TuneSets == \A t \in Tuner : tpc[t] # "idle" => req[t] = centerHz

(* What Start read is still the centre, unless a tune came in between.      *)
CopyHolds == ~raced /\ pc \in {"setfreq", "announce"} => val = centerHz

(* From its set-up on the dongle has the centre, or will have it.           *)
DongleSet ==
    ~raced /\ alive /\ pc \in {"configured", "announce", "loop"} =>
        freq = centerHz \/ \E t \in Tuner : Coming(t)

(* The hub has told it, or will.                                            *)
HubTells ==
    ~raced /\ alive /\ pc = "loop" =>
        told = centerHz \/ \E t \in Tuner : Coming(t) \/ tpc[t] \in {"renew", "store"}

Honest == TuneSets /\ CopyHolds /\ DongleSet /\ HubTells

LEMMA HonestStep ==
    ASSUME OneBridge, RtlTyped, Honest, [Rtl!Next]_Rtl!vars
    PROVE  Honest'
<1>0. /\ RtlStartTyped /\ RtlTuneTyped /\ RtlConnTyped
      /\ TuneSets /\ CopyHolds /\ DongleSet /\ HubTells
      /\ tpc \in [Tuner -> {"idle", "conn", "write", "renew", "store"}]
      /\ req \in [Tuner -> Freq \cup {None}] /\ conn \in Nat /\ via \in [Tuner -> 0..conn]
  BY DEF RtlTyped, Honest, RtlTuneTyped, RtlConnTyped, RtlStartTyped, RtlCounts
<1>1. ASSUME Rtl!Dial PROVE Honest'
  <2>1. pc' = "getcentre" /\ UNCHANGED <<centerHz, tpc, req>>
    BY <1>1 DEF Rtl!Dial, Rtl!tuneVars
  <2> QED
    BY <1>0, <2>1 DEF Honest, TuneSets, CopyHolds, DongleSet, HubTells
<1>2. ASSUME Rtl!GetCentre \/ Rtl!SetFreq \/ Rtl!GetAnnounced \/ Rtl!AnnounceStream \/ Rtl!ReadSamples
              \/ Rtl!StartFails
       PROVE  Honest'
  <2>1. UNCHANGED <<conn, alive, centerHz, tpc, req, via, raced>>
    BY <1>2 DEF Rtl!GetCentre, Rtl!SetFreq, Rtl!GetAnnounced, Rtl!AnnounceStream,
                Rtl!ReadSamples, Rtl!StartFails, Rtl!tuneVars, Rtl!ghostVars
  <2>2. TuneSets'
    BY <1>0, <2>1 DEF TuneSets
  <2>3. (\A t \in Tuner : Coming(t)' <=> Coming(t)) /\ raced' = raced /\ alive' = alive
    BY <2>1 DEF Coming
  <2>4. CopyHolds'
    BY <1>0, <1>2, <2>1
    DEF Rtl!GetCentre, Rtl!SetFreq, Rtl!GetAnnounced, Rtl!AnnounceStream, Rtl!ReadSamples,
        Rtl!StartFails, CopyHolds
  <2>5. DongleSet'
    BY <1>0, <1>2, <2>1, <2>3
    DEF Rtl!GetCentre, Rtl!SetFreq, Rtl!GetAnnounced, Rtl!AnnounceStream, Rtl!ReadSamples,
        Rtl!StartFails, CopyHolds, DongleSet
  <2>6. HubTells'
    BY <1>0, <1>2, <2>1, <2>3
    DEF Rtl!GetCentre, Rtl!SetFreq, Rtl!GetAnnounced, Rtl!AnnounceStream, Rtl!ReadSamples,
        Rtl!StartFails, CopyHolds, HubTells
  <2> QED
    BY <2>2, <2>4, <2>5, <2>6 DEF Honest
<1>3. ASSUME NEW t \in Tuner, NEW f \in Freq, Rtl!Tune(t, f) PROVE Honest'
  <2>1. /\ tpc' = [tpc EXCEPT ![t] = "conn"] /\ req' = [req EXCEPT ![t] = f] /\ centerHz' = f
        /\ pc' = pc /\ (~raced' => pc \notin {"setfreq", "configured", "announce"})
    BY <1>3 DEF Rtl!Tune, Rtl!startVars, Rtl!Configuring
  <2>2. tpc'[t] = "conn" /\ req'[t] = f /\ \A u \in Tuner : u = t
    BY <1>0, <2>1 DEF OneBridge
  <2>3. TuneSets'
    BY <2>1, <2>2 DEF TuneSets
  <2>4. CopyHolds'
    BY <2>1 DEF CopyHolds
  <2>5. Coming(t)'
    BY <2>2 DEF Coming
  <2> QED
    BY <2>3, <2>4, <2>5 DEF Honest, DongleSet, HubTells
<1>4. ASSUME NEW t \in Tuner, Rtl!TakeConn(t) PROVE Honest'
  <2>1. /\ tpc[t] = "conn" /\ tpc' = [tpc EXCEPT ![t] = "write"]
        /\ via' = [via EXCEPT ![t] = conn]
        /\ UNCHANGED <<pc, conn, val, alive, centerHz, freq, told, req, raced>>
    BY <1>4 DEF Rtl!TakeConn, Rtl!startVars, Rtl!ghostVars
  <2>2. tpc'[t] = "write" /\ via'[t] = conn' /\ \A u \in Tuner : u = t
    BY <1>0, <2>1 DEF OneBridge
  <2>3. TuneSets' /\ CopyHolds'
    BY <1>0, <2>1, <2>2 DEF TuneSets, CopyHolds
  <2>4. Coming(t)'
    BY <2>2 DEF Coming
  <2> QED
    BY <2>3, <2>4 DEF Honest, DongleSet, HubTells
<1>5. ASSUME NEW t \in Tuner, Rtl!WriteOk(t) PROVE Honest'
  <2>1. /\ tpc[t] = "write" /\ tpc' = [tpc EXCEPT ![t] = "renew"]
        /\ freq' = IF alive THEN req[t] ELSE freq
        /\ UNCHANGED <<pc, conn, val, alive, centerHz, told, req, raced>>
    BY <1>5 DEF Rtl!WriteOk, Rtl!startVars
  <2>2. tpc'[t] = "renew" /\ req[t] = centerHz /\ \A u \in Tuner : u = t
    BY <1>0, <2>1 DEF OneBridge, TuneSets
  <2>3. TuneSets' /\ CopyHolds'
    BY <1>0, <2>1, <2>2 DEF TuneSets, CopyHolds
  <2>4. DongleSet' /\ HubTells'
    BY <2>1, <2>2 DEF DongleSet, HubTells
  <2> QED
    BY <2>3, <2>4 DEF Honest
<1>6. ASSUME NEW t \in Tuner, Rtl!WriteFails(t) PROVE Honest'
  <2>1. /\ tpc[t] = "write" /\ tpc' = [tpc EXCEPT ![t] = "idle"]
        /\ ~(via[t] = conn /\ conn # 0 /\ pc # "dial") \/ ~alive
        /\ UNCHANGED <<pc, conn, val, alive, centerHz, freq, told, raced>>
    BY <1>6 DEF Rtl!WriteFails, Rtl!Open, Rtl!startVars
  <2>2. tpc'[t] = "idle" /\ \A u \in Tuner : u = t
    BY <1>0, <2>1 DEF OneBridge
  <2>3. TuneSets' /\ CopyHolds'
    BY <1>0, <2>1, <2>2 DEF TuneSets, CopyHolds
  <2>4. alive => conn # 0
    BY <1>0 DEF RtlConnTyped, RtlCounts
  <2>5. alive /\ pc # "dial" => ~Coming(t) /\ tpc[t] \notin {"renew", "store"}
    BY <2>1, <2>4 DEF Coming
  <2>6. DongleSet' /\ HubTells'
    BY <1>0, <2>1, <2>2, <2>5 DEF DongleSet, HubTells
  <2> QED
    BY <2>3, <2>6 DEF Honest
<1>7. ASSUME NEW t \in Tuner, Rtl!Reannounce(t) PROVE Honest'
  <2>1. /\ tpc[t] = "renew"
        /\ told # None => tpc' = [tpc EXCEPT ![t] = "store"] /\ req' = [req EXCEPT ![t] = req[t]]
        /\ told = None => tpc' = [tpc EXCEPT ![t] = "idle"]
        /\ UNCHANGED <<pc, conn, val, alive, centerHz, freq, told, via, raced>>
    BY <1>7 DEF Rtl!Reannounce, Rtl!startVars, Rtl!ghostVars
  <2>2. /\ \A u \in Tuner : u = t
        /\ told # None => tpc'[t] = "store" /\ req'[t] = req[t]
        /\ told = None => tpc'[t] = "idle" /\ pc # "loop"
    BY <1>0, <2>1 DEF OneBridge, RtlStartTyped
  <2>3. TuneSets' /\ CopyHolds'
    BY <1>0, <2>1, <2>2 DEF TuneSets, CopyHolds
  <2>4. ~Coming(t)
    BY <2>1 DEF Coming
  <2>5. DongleSet' /\ HubTells'
    BY <1>0, <2>1, <2>2, <2>4 DEF DongleSet, HubTells
  <2> QED
    BY <2>3, <2>5 DEF Honest
<1>8. ASSUME NEW t \in Tuner, Rtl!StoreAnnounce(t) PROVE Honest'
  <2>1. /\ tpc[t] = "store" /\ tpc' = [tpc EXCEPT ![t] = "idle"] /\ told' = req[t]
        /\ UNCHANGED <<pc, conn, val, alive, centerHz, freq, via, raced>>
    BY <1>8 DEF Rtl!StoreAnnounce, Rtl!startVars, Rtl!ghostVars
  <2>2. tpc'[t] = "idle" /\ told' = centerHz /\ \A u \in Tuner : u = t
    BY <1>0, <2>1 DEF OneBridge, TuneSets
  <2>3. TuneSets' /\ CopyHolds'
    BY <1>0, <2>1, <2>2 DEF TuneSets, CopyHolds
  <2>4. ~Coming(t)
    BY <2>1 DEF Coming
  <2>5. DongleSet' /\ HubTells'
    BY <1>0, <2>1, <2>2, <2>4 DEF DongleSet, HubTells
  <2> QED
    BY <2>3, <2>5 DEF Honest
<1>9. ASSUME Rtl!Drop PROVE Honest'
  <2>1. ~alive' /\ UNCHANGED <<pc, val, centerHz, tpc, req, raced>>
    BY <1>9 DEF Rtl!Drop, Rtl!tuneVars
  <2> QED
    BY <1>0, <2>1 DEF Honest, TuneSets, CopyHolds, DongleSet, HubTells
<1>10. ASSUME UNCHANGED Rtl!vars PROVE Honest'
  <2>1. UNCHANGED <<pc, conn, val, alive, centerHz, freq, told, tpc, req, via, raced>>
    BY <1>10 DEF Rtl!vars, Rtl!startVars, Rtl!tuneVars, Rtl!ghostVars
  <2> QED
    BY <1>0, <2>1 DEF Honest, TuneSets, CopyHolds, DongleSet, HubTells, Coming
<1> QED
  BY <1>1, <1>2, <1>3, <1>4, <1>5, <1>6, <1>7, <1>8, <1>9, <1>10
  DEF Rtl!Next, Rtl!Start, Rtl!Control

------------------------------------------------------------------------------
(* Theorems about the rtl_tcp source.                                       *)

LEMMA RtlTypedAlways == ASSUME Rtl!ConstantsOK PROVE Rtl!Spec => []RtlTyped
<1>1. Rtl!Init => RtlTyped
  BY RtlTypedInit
<1>2. RtlTyped /\ [Rtl!Next]_Rtl!vars => RtlTyped'
  BY RtlTypedStep
<1> QED
  BY <1>1, <1>2, PTL DEF Rtl!Spec

(* Every variable of the rtl_tcp source has its type, and every local is    *)
(* live only where it is used.                                              *)
THEOREM RtlTypeCorrect == ASSUME Rtl!ConstantsOK PROVE Rtl!Spec => []Rtl!TypeOK
<1>1. RtlTyped => Rtl!TypeOK
  BY RtlTypeWhole
<1> QED
  BY <1>1, RtlTypedAlways, PTL

(* With one Bridge that tunes, the announced centre, the dongle's and the   *)
(* one a redial would set are the same at rest, whatever tunes, failed      *)
(* writes, drops and redials came before, unless a tune of this session     *)
(* began while Start was setting the dongle up.                             *)
THEOREM RtlHonest ==
    ASSUME Rtl!ConstantsOK, OneBridge
    PROVE  Rtl!Spec => []Rtl!HonestOutsideStart
<1>1. Rtl!Init => Honest
  BY DEF Rtl!Init, Honest, TuneSets, CopyHolds, DongleSet, HubTells
<1>2. RtlTyped /\ Honest /\ [Rtl!Next]_Rtl!vars => Honest'
  BY HonestStep
<1>3. Honest => Rtl!HonestOutsideStart
  BY DEF Honest, DongleSet, HubTells, Coming, Rtl!HonestOutsideStart, Rtl!Quiet
<1> QED
  BY <1>1, <1>2, <1>3, RtlTypedAlways, PTL DEF Rtl!Spec

------------------------------------------------------------------------------
(* The SDRConnect source: types.                                            *)

SdrSetUp   == {"dial", "ask", "gather"}
SdrSettles == {"narrow", "recentre", "readback", "settle", "enable"}
SdrTunes   == {"idle", "centre", "vfo", "renew", "store"}
SdrPlace   == SdrSetUp \cup SdrSettles \cup Streams \cup SdrTunes

SdrCounts == [tunes : 0..MaxTunes, moves : 0..MaxMoves, drops : 0..MaxDrops, late : 0..MaxLate]

(* The commands Start and the readLoops send, and what is reported.         *)
SdrCommand == [op : {"get"}, prop : Sdr!Prop, value : {None}]
                \cup [op : {"set"}, prop : {"rate"}, value : Rate]
                \cup [op : {"set"}, prop : {"centre"}, value : Freq]

SdrMessage == [prop : Sdr!Prop, of : Sdr!State]

(* Start has asked for p and read an answer.                                *)
Gathered(p) == p \in have \/ pc[Start] \in SdrSettles \cup Streams

SdrPcTyped ==
    /\ pc \in [Goroutine -> SdrPlace]
    /\ pc[Start] \notin SdrTunes

SdrStartTyped ==
    /\ alive \in BOOLEAN /\ canControl \in BOOLEAN
    /\ centerHz \in Freq
    /\ sampleRate \in Rate \cup {None}
    /\ Gathered("rate") => sampleRate \in Rate
    /\ have \subseteq Sdr!Prop
    /\ have # {} => pc[Start] = "gather"
    /\ announced \in Freq \cup {None}
    /\ val # None <=> pc[Start] = "announce"
    /\ val # None => val \in Sdr!State
    /\ told # None => told \in Sdr!State

SdrTuneTyped ==
    /\ req \in [Tuner -> Freq \cup {None}]
    /\ last \in [Tuner -> Sdr!State \cup {None}]
    /\ \A t \in Tuner : /\ pc[t] \in SdrTunes
                        /\ req[t] = None <=> pc[t] = "idle"
                        /\ last[t] # None <=> pc[t] = "store"

SdrQueueTyped ==
    /\ server \in Sdr!State
    /\ inbox \in Seq(SdrCommand)
    /\ replies \in Seq(SdrMessage)

SdrTyped == SdrPcTyped /\ SdrStartTyped /\ SdrTuneTyped /\ SdrQueueTyped /\ used \in SdrCounts

USE DEF Sdr!structVars, Sdr!startVars, Sdr!tuneVars, Sdr!deviceVars

LEMMA SdrTypeWhole == ASSUME Sdr!ConstantsOK, SdrTyped PROVE Sdr!TypeOK
<1>1. pc \in [Tuner \cup {Start} ->
                 {"dial", "ask", "gather", "narrow", "recentre", "readback", "settle",
                  "enable", "announce", "loop", "idle", "centre", "vfo", "renew", "store"}]
  BY DEF SdrTyped, SdrPcTyped, SdrPlace, SdrSetUp, SdrSettles, Streams, SdrTunes, Goroutine
<1>2. \A i \in DOMAIN replies : replies[i].prop \in Sdr!Prop /\ replies[i].of \in Sdr!State
  <2>1. replies \in Seq(SdrMessage)
    BY DEF SdrTyped, SdrQueueTyped
  <2>2. \A i \in DOMAIN replies : replies[i] \in SdrMessage
    BY <2>1
  <2> QED
    BY <2>2 DEF SdrMessage
<1>3. \A t \in Tuner : /\ req[t] \in Freq \cup {None}
                       /\ (req[t] = None) = (pc[t] = "idle")
                       /\ (last[t] # None) = (pc[t] = "store")
  <2>1. SdrTuneTyped
    BY DEF SdrTyped
  <2> SUFFICES ASSUME NEW t \in Tuner
               PROVE  /\ req[t] \in Freq \cup {None}
                      /\ (req[t] = None) = (pc[t] = "idle")
                      /\ (last[t] # None) = (pc[t] = "store")
    OBVIOUS
  <2>2. req[t] \in Freq \cup {None}
    BY <2>1 DEF SdrTuneTyped
  <2>3. (req[t] = None <=> pc[t] = "idle") /\ (last[t] # None <=> pc[t] = "store")
    BY <2>1 DEF SdrTuneTyped
  <2> QED
    BY <2>2, <2>3
<1>4. (val # None) = (pc[Start] = "announce")
  BY DEF SdrTyped, SdrStartTyped
<1> QED
  BY <1>1, <1>2, <1>3, <1>4
  DEF SdrTyped, SdrStartTyped, SdrQueueTyped, SdrCounts, Sdr!TypeOK, Sdr!At

(* Commands that are sent, and messages that are read.                      *)
LEMMA SdrSend ==
    ASSUME SdrQueueTyped, NEW cmds \in Seq(SdrCommand), Sdr!Send(cmds)
    PROVE  /\ SdrQueueTyped'
           /\ UNCHANGED <<alive, server, replies>>
           /\ inbox' = IF alive THEN inbox \o cmds ELSE inbox
<1>1. inbox \o cmds \in Seq(SdrCommand)
  BY DEF SdrQueueTyped
<1> QED
  BY <1>1 DEF SdrQueueTyped, Sdr!Send

LEMMA SdrRead ==
    ASSUME SdrQueueTyped, Sdr!Read
    PROVE  /\ SdrQueueTyped'
           /\ UNCHANGED <<alive, server, inbox>>
           /\ replies # <<>> /\ replies' = Tail(replies)
           /\ Sdr!Message \in SdrMessage
           /\ Sdr!Message = Head(replies)
<1>1. replies \in Seq(SdrMessage) /\ replies # <<>>
  BY DEF SdrQueueTyped, Sdr!Read
<1>2. Tail(replies) \in Seq(SdrMessage) /\ Head(replies) \in SdrMessage
  BY <1>1
<1> QED
  BY <1>1, <1>2 DEF SdrQueueTyped, Sdr!Read, Sdr!Message

(* The answer to a command.                                                 *)
LEMMA SdrServed ==
    ASSUME Sdr!ConstantsOK, SdrQueueTyped, Sdr!Serve
    PROVE  /\ SdrQueueTyped'
           /\ alive /\ inbox # <<>> /\ inbox' = Tail(inbox) /\ Head(inbox) \in SdrCommand
           /\ \/ /\ Head(inbox).op = "set" /\ ~server.control
                 /\ server' = server /\ replies' = replies
              \/ /\ replies' = Append(replies, [prop |-> Head(inbox).prop, of |-> server'])
                 /\ Head(inbox).prop # "control" => server'.control = server.control
                 /\ Head(inbox).prop # "rate" => server'.rate = server.rate
                 /\ Head(inbox).prop # "centre" => server'.centre = server.centre
                 /\ server'.control = server.control
<1>1. /\ inbox \in Seq(SdrCommand) /\ inbox # <<>> /\ inbox' = Tail(inbox) /\ alive
      /\ server \in Sdr!State /\ replies \in Seq(SdrMessage)
  BY DEF SdrQueueTyped, Sdr!Serve
<1>2. Head(inbox) \in SdrCommand /\ Tail(inbox) \in Seq(SdrCommand)
  BY <1>1
<1>3. ASSUME server' \in Sdr!State,
             replies' = Append(replies, [prop |-> Head(inbox).prop, of |-> server'])
      PROVE  SdrQueueTyped'
  <2>1. [prop |-> Head(inbox).prop, of |-> server'] \in SdrMessage
    BY <1>2, <1>3 DEF SdrCommand, SdrMessage, Sdr!Prop
  <2>2. replies' \in Seq(SdrMessage)
    BY <1>1, <1>3, <2>1
  <2> QED
    BY <1>1, <1>2, <1>3, <2>2 DEF SdrQueueTyped
<1>4. CASE Head(inbox).op = "get" /\ server' = server
           /\ replies' = Append(replies, [prop |-> Head(inbox).prop, of |-> server])
  BY <1>1, <1>2, <1>3, <1>4
<1>5. CASE Head(inbox).op = "set" /\ ~server.control /\ server' = server /\ replies' = replies
  BY <1>1, <1>2, <1>5 DEF SdrQueueTyped
<1>6. CASE /\ Head(inbox).op = "set"
           /\ \E v \in IF Head(inbox).prop = "rate" THEN Rate ELSE {Head(inbox).value} :
                 /\ server' = [server EXCEPT ![Head(inbox).prop] = v]
                 /\ replies' = Append(replies, [prop |-> Head(inbox).prop, of |-> server'])
  <2>1. \/ Head(inbox).prop = "rate"
        \/ Head(inbox).prop = "centre" /\ Head(inbox).value \in Freq
    BY <1>2, <1>6 DEF SdrCommand
  <2>2. CASE Head(inbox).prop = "rate"
    <3>1. PICK v \in Rate : server' = [server EXCEPT !.rate = v]
      BY <1>6, <2>2
    <3>2. server' \in Sdr!State /\ server'.control = server.control /\ server'.centre = server.centre
      BY <1>1, <3>1 DEF Sdr!State
    <3> QED
      BY <1>1, <1>2, <1>3, <1>6, <2>2, <3>2
  <2>3. CASE Head(inbox).prop = "centre" /\ Head(inbox).value \in Freq
    <3>1. server' = [server EXCEPT !.centre = Head(inbox).value]
      BY <1>6, <2>3
    <3>2. server' \in Sdr!State /\ server'.control = server.control /\ server'.rate = server.rate
      BY <1>1, <2>3, <3>1 DEF Sdr!State
    <3> QED
      BY <1>1, <1>2, <1>3, <1>6, <2>3, <3>2
  <2> QED
    BY <2>1, <2>2, <2>3
<1> QED
  BY <1>4, <1>5, <1>6 DEF Sdr!Serve, Sdr!Report

(* Start, and a readLoop, goes on to its next place.                        *)
LEMMA SdrStartGoes ==
    ASSUME Sdr!ConstantsOK, SdrPcTyped, NEW l \in SdrPlace, l \notin SdrTunes,
           pc' = [pc EXCEPT ![Start] = l]
    PROVE  SdrPcTyped' /\ pc'[Start] = l /\ \A t \in Tuner : pc'[t] = pc[t]
  BY DEF Sdr!ConstantsOK, SdrPcTyped, Goroutine

LEMMA SdrTunerGoes ==
    ASSUME Sdr!ConstantsOK, SdrPcTyped, NEW t \in Tuner, NEW l \in SdrTunes,
           pc' = [pc EXCEPT ![t] = l]
    PROVE  /\ SdrPcTyped' /\ pc'[Start] = pc[Start]
           /\ pc'[t] = l /\ \A u \in Tuner : u # t => pc'[u] = pc[u]
  BY DEF Sdr!ConstantsOK, SdrPcTyped, SdrPlace, Goroutine

(* The readLoops do not see a step of Start.                                *)
LEMMA SdrTuneFrame ==
    ASSUME SdrTuneTyped, \A t \in Tuner : pc'[t] = pc[t], req' = req, last' = last
    PROVE  SdrTuneTyped'
  BY DEF SdrTuneTyped

(* Initially nothing is dialled.                                            *)
LEMMA SdrTypedInit == ASSUME Sdr!ConstantsOK, Sdr!Init PROVE SdrTyped
<1>1. used \in SdrCounts
  BY DEF Sdr!ConstantsOK, Sdr!Init, SdrCounts
<1>2. SdrQueueTyped
  BY DEF Sdr!Init, SdrQueueTyped
<1>3. SdrPcTyped
  BY DEF Sdr!ConstantsOK, Sdr!Init, SdrPcTyped, SdrPlace, SdrSetUp, SdrTunes, Goroutine
<1>4. SdrTuneTyped
  BY DEF Sdr!ConstantsOK, Sdr!Init, SdrTuneTyped, SdrTunes
<1>5. pc[Start] = "dial"
  BY DEF Sdr!ConstantsOK, Sdr!Init
<1>6. SdrStartTyped
  BY <1>5 DEF Sdr!ConstantsOK, Sdr!Init, SdrStartTyped, Gathered, SdrSettles, Streams
<1> QED
  BY <1>1, <1>2, <1>3, <1>4, <1>6 DEF SdrTyped

(* A step of Start keeps the types.                                         *)
LEMMA SdrStartTypedStep == ASSUME Sdr!ConstantsOK, SdrTyped, Sdr!Source PROVE SdrTyped'
<1>0. /\ SdrPcTyped /\ SdrStartTyped /\ SdrTuneTyped /\ SdrQueueTyped /\ used \in SdrCounts
      /\ None \notin Freq \cup Rate \cup Sdr!State /\ Initial \in Freq /\ Target \in Rate
  BY DEF SdrTyped, Sdr!ConstantsOK
<1>a. "dial" \in SdrPlace /\ "ask" \in SdrPlace /\ "gather" \in SdrPlace /\ "narrow" \in SdrPlace
      /\ "recentre" \in SdrPlace /\ "readback" \in SdrPlace /\ "settle" \in SdrPlace
      /\ "enable" \in SdrPlace /\ "announce" \in SdrPlace /\ "loop" \in SdrPlace
  BY DEF SdrPlace, SdrSetUp, SdrSettles, Streams
<1>b. "dial" \notin SdrTunes /\ "ask" \notin SdrTunes /\ "gather" \notin SdrTunes
      /\ "narrow" \notin SdrTunes /\ "recentre" \notin SdrTunes /\ "readback" \notin SdrTunes
      /\ "settle" \notin SdrTunes /\ "enable" \notin SdrTunes /\ "announce" \notin SdrTunes
      /\ "loop" \notin SdrTunes
  BY DEF SdrTunes
<1>c. \A m \in SdrMessage : m.prop \in Sdr!Prop /\ m.of \in Sdr!State
  BY DEF SdrMessage
<1>d. \A r \in Sdr!State : r.rate \in Rate /\ r.centre \in Freq /\ r.control \in BOOLEAN
  BY DEF Sdr!State
<1>e. /\ Sdr!Get("control") \in SdrCommand /\ Sdr!Get("rate") \in SdrCommand
      /\ Sdr!Get("centre") \in SdrCommand
      /\ Sdr!Set("rate", Target) \in SdrCommand /\ Sdr!Set("centre", Initial) \in SdrCommand
  BY <1>0 DEF Sdr!Get, Sdr!Set, SdrCommand, Sdr!Prop
<1>1. ASSUME Sdr!Dial PROVE SdrTyped'
  <2>1. /\ pc[Start] = "dial" /\ pc' = [pc EXCEPT ![Start] = "ask"]
        /\ alive' = TRUE /\ inbox' = <<>> /\ replies' = <<>>
        /\ UNCHANGED <<centerHz, sampleRate, canControl, have, announced, val, req, last, server, told,
                      used>>
    BY <1>1, <1>0 DEF Sdr!Dial, Sdr!Goto, Sdr!At
  <2>2. SdrPcTyped' /\ pc'[Start] = "ask" /\ \A t \in Tuner : pc'[t] = pc[t]
    BY <1>0, <1>a, <1>b, <2>1, SdrStartGoes
  <2>3. SdrStartTyped'
    BY <1>0, <2>1, <2>2 DEF SdrStartTyped, Gathered, SdrSettles, Streams
  <2>4. SdrTuneTyped'
    BY <1>0, <2>1, <2>2, SdrTuneFrame
  <2>5. SdrQueueTyped'
    BY <1>0, <2>1 DEF SdrQueueTyped
  <2> QED
    BY <1>0, <2>1, <2>2, <2>3, <2>4, <2>5 DEF SdrTyped
<1>2. ASSUME Sdr!Ask PROVE SdrTyped'
  <2>1. /\ pc[Start] = "ask" /\ pc' = [pc EXCEPT ![Start] = "gather"]
        /\ Sdr!Send(<<Sdr!Get("control"), Sdr!Get("rate"), Sdr!Get("centre")>>)
        /\ UNCHANGED <<centerHz, sampleRate, canControl, have, announced, val, req, last, told, used>>
    BY <1>2, <1>0 DEF Sdr!Ask, Sdr!Goto, Sdr!At
  <2>2. SdrPcTyped' /\ pc'[Start] = "gather" /\ \A t \in Tuner : pc'[t] = pc[t]
    BY <1>0, <1>a, <1>b, <2>1, SdrStartGoes
  <2>3. <<Sdr!Get("control"), Sdr!Get("rate"), Sdr!Get("centre")>> \in Seq(SdrCommand)
    BY <1>e
  <2>4. SdrQueueTyped' /\ alive' = alive
    BY <1>0, <2>1, <2>3, SdrSend
  <2>5. SdrStartTyped'
    BY <1>0, <2>1, <2>2, <2>4 DEF SdrStartTyped, Gathered, SdrSettles, Streams
  <2>6. SdrTuneTyped'
    BY <1>0, <2>1, <2>2, SdrTuneFrame
  <2> QED
    BY <1>0, <2>1, <2>2, <2>4, <2>5, <2>6 DEF SdrTyped
<1>3. ASSUME Sdr!NarrowRate PROVE SdrTyped'
  <2>1. /\ pc[Start] = "narrow" /\ pc' = [pc EXCEPT ![Start] = "recentre"]
        /\ Sdr!Send(<<Sdr!Set("rate", Target)>>)
        /\ UNCHANGED <<centerHz, sampleRate, canControl, have, announced, val, req, last, told, used>>
    BY <1>3, <1>0 DEF Sdr!NarrowRate, Sdr!Goto, Sdr!At
  <2>2. SdrPcTyped' /\ pc'[Start] = "recentre" /\ \A t \in Tuner : pc'[t] = pc[t]
    BY <1>0, <1>a, <1>b, <2>1, SdrStartGoes
  <2>3. <<Sdr!Set("rate", Target)>> \in Seq(SdrCommand)
    BY <1>e
  <2>4. SdrQueueTyped' /\ alive' = alive
    BY <1>0, <2>1, <2>3, SdrSend
  <2>5. SdrStartTyped'
    BY <1>0, <2>1, <2>2, <2>4 DEF SdrStartTyped, Gathered, SdrSettles, Streams
  <2>6. SdrTuneTyped'
    BY <1>0, <2>1, <2>2, SdrTuneFrame
  <2> QED
    BY <1>0, <2>1, <2>2, <2>4, <2>5, <2>6 DEF SdrTyped
<1>4. ASSUME Sdr!Recentre PROVE SdrTyped'
  <2>1. /\ pc[Start] = "recentre" /\ pc' = [pc EXCEPT ![Start] = "readback"]
        /\ Sdr!Send(<<Sdr!Set("centre", Initial)>>)
        /\ UNCHANGED <<centerHz, sampleRate, canControl, have, announced, val, req, last, told, used>>
    BY <1>4, <1>0 DEF Sdr!Recentre, Sdr!Goto, Sdr!At
  <2>2. SdrPcTyped' /\ pc'[Start] = "readback" /\ \A t \in Tuner : pc'[t] = pc[t]
    BY <1>0, <1>a, <1>b, <2>1, SdrStartGoes
  <2>3. <<Sdr!Set("centre", Initial)>> \in Seq(SdrCommand)
    BY <1>e
  <2>4. SdrQueueTyped' /\ alive' = alive
    BY <1>0, <2>1, <2>3, SdrSend
  <2>5. SdrStartTyped'
    BY <1>0, <2>1, <2>2, <2>4 DEF SdrStartTyped, Gathered, SdrSettles, Streams
  <2>6. SdrTuneTyped'
    BY <1>0, <2>1, <2>2, SdrTuneFrame
  <2> QED
    BY <1>0, <2>1, <2>2, <2>4, <2>5, <2>6 DEF SdrTyped
<1>5. ASSUME Sdr!Readback PROVE SdrTyped'
  <2>1. /\ pc[Start] = "readback" /\ pc' = [pc EXCEPT ![Start] = "settle"]
        /\ Sdr!Send(<<Sdr!Get("rate"), Sdr!Get("centre")>>)
        /\ UNCHANGED <<centerHz, sampleRate, canControl, have, announced, val, req, last, told, used>>
    BY <1>5, <1>0 DEF Sdr!Readback, Sdr!Goto, Sdr!At
  <2>2. SdrPcTyped' /\ pc'[Start] = "settle" /\ \A t \in Tuner : pc'[t] = pc[t]
    BY <1>0, <1>a, <1>b, <2>1, SdrStartGoes
  <2>3. <<Sdr!Get("rate"), Sdr!Get("centre")>> \in Seq(SdrCommand)
    BY <1>e
  <2>4. SdrQueueTyped' /\ alive' = alive
    BY <1>0, <2>1, <2>3, SdrSend
  <2>5. SdrStartTyped'
    BY <1>0, <2>1, <2>2, <2>4 DEF SdrStartTyped, Gathered, SdrSettles, Streams
  <2>6. SdrTuneTyped'
    BY <1>0, <2>1, <2>2, SdrTuneFrame
  <2> QED
    BY <1>0, <2>1, <2>2, <2>4, <2>5, <2>6 DEF SdrTyped
<1>6. ASSUME Sdr!Gather PROVE SdrTyped'
  <2>1. Sdr!Read /\ Sdr!Apply(Sdr!Message) /\ pc[Start] = "gather"
    BY <1>6 DEF Sdr!Gather, Sdr!At
  <2>2. SdrQueueTyped' /\ alive' = alive /\ Sdr!Message \in SdrMessage
    BY <1>0, <2>1, SdrRead
  <2>3. Sdr!Message.prop \in Sdr!Prop /\ Sdr!Message.of \in Sdr!State
    BY <1>c, <2>2
  <2>4. /\ sampleRate' = IF Sdr!Message.prop = "rate" THEN Sdr!Message.of.rate ELSE sampleRate
        /\ centerHz' \in Freq
        /\ canControl' \in BOOLEAN
        /\ UNCHANGED <<announced, val, req, last, told, used>>
    BY <1>0, <1>6, <1>d, <2>1, <2>3 DEF Sdr!Gather, Sdr!Apply, SdrStartTyped
  <2>5. \/ pc' = pc /\ have' = have \cup {Sdr!Message.prop}
        \/ /\ pc' = [pc EXCEPT ![Start] = "narrow"] \/ pc' = [pc EXCEPT ![Start] = "enable"]
           /\ have' = {} /\ have \cup {Sdr!Message.prop} = Sdr!Prop
    BY <1>6 DEF Sdr!Gather, Sdr!Goto
  <2>6. SdrPcTyped' /\ (\A t \in Tuner : pc'[t] = pc[t])
        /\ (pc' # pc => pc'[Start] \in {"narrow", "enable"})
    <3>1. CASE pc' = pc
      BY <1>0, <3>1 DEF SdrPcTyped
    <3>2. CASE pc' = [pc EXCEPT ![Start] = "narrow"]
      BY <1>0, <1>a, <1>b, <3>2, SdrStartGoes
    <3>3. CASE pc' = [pc EXCEPT ![Start] = "enable"]
      BY <1>0, <1>a, <1>b, <3>3, SdrStartGoes
    <3> QED
      BY <2>5, <3>1, <3>2, <3>3
  <2>7. SdrTuneTyped'
    BY <1>0, <2>4, <2>6, SdrTuneFrame
  <2>8. sampleRate' \in Rate \/ (sampleRate' = sampleRate /\ Sdr!Message.prop # "rate")
    BY <1>d, <2>3, <2>4
  <2>9. SdrStartTyped'
    <3>1. CASE pc' = pc /\ have' = have \cup {Sdr!Message.prop}
      BY <1>0, <2>1, <2>2, <2>3, <2>4, <2>8, <3>1 DEF SdrStartTyped, Gathered, SdrSettles, Streams
    <3>2. CASE pc' # pc /\ have' = {} /\ have \cup {Sdr!Message.prop} = Sdr!Prop
      <4>1. sampleRate' \in Rate
        BY <1>0, <2>1, <2>8, <3>2 DEF SdrStartTyped, Gathered, Sdr!Prop
      <4> QED
        BY <1>0, <2>1, <2>2, <2>4, <2>6, <3>2, <4>1 DEF SdrStartTyped, Gathered
    <3>3. pc' = [pc EXCEPT ![Start] = "narrow"] \/ pc' = [pc EXCEPT ![Start] = "enable"]
          => pc' # pc
      BY <1>0, <2>1 DEF SdrPcTyped, Goroutine
    <3> QED
      BY <2>5, <3>1, <3>2, <3>3
  <2> QED
    BY <1>0, <2>2, <2>4, <2>6, <2>7, <2>9 DEF SdrTyped
<1>7. ASSUME Sdr!GatherTooLate PROVE SdrTyped'
  <2>1. /\ Sdr!Read /\ Sdr!Apply(Sdr!Message) /\ pc[Start] = "gather"
        /\ pc' = [pc EXCEPT ![Start] = "dial"] /\ have' = {}
        /\ used' = [used EXCEPT !.late = @ + 1] /\ used.late < MaxLate
        /\ UNCHANGED <<announced, val, req, last, told>>
    BY <1>7 DEF Sdr!GatherTooLate, Sdr!At, Sdr!Goto
  <2>2. SdrQueueTyped' /\ alive' = alive /\ Sdr!Message \in SdrMessage
    BY <1>0, <2>1, SdrRead
  <2>3. Sdr!Message.prop \in Sdr!Prop /\ Sdr!Message.of \in Sdr!State
    BY <1>c, <2>2
  <2>4. sampleRate' \in Rate \cup {None} /\ centerHz' \in Freq /\ canControl' \in BOOLEAN
    BY <1>0, <1>7, <1>d, <2>1, <2>3 DEF Sdr!GatherTooLate, Sdr!Apply, SdrStartTyped
  <2>5. SdrPcTyped' /\ pc'[Start] = "dial" /\ \A t \in Tuner : pc'[t] = pc[t]
    BY <1>0, <1>a, <1>b, <2>1, SdrStartGoes
  <2>6. SdrTuneTyped'
    BY <1>0, <2>1, <2>5, SdrTuneFrame
  <2>7. SdrStartTyped'
    BY <1>0, <2>1, <2>2, <2>4, <2>5 DEF SdrStartTyped, Gathered, SdrSettles, Streams
  <2>8. used' \in SdrCounts
    BY <1>0, <2>1 DEF SdrCounts, Sdr!ConstantsOK
  <2> QED
    BY <2>2, <2>5, <2>6, <2>7, <2>8 DEF SdrTyped
<1>8. ASSUME Sdr!Settle PROVE SdrTyped'
  <2>1. /\ Sdr!Read /\ Sdr!Apply(Sdr!Message) /\ pc[Start] = "settle"
        /\ UNCHANGED <<pc, canControl, have, announced, val, req, last, told, used>>
    BY <1>8 DEF Sdr!Settle, Sdr!At
  <2>2. SdrQueueTyped' /\ alive' = alive /\ Sdr!Message \in SdrMessage
    BY <1>0, <2>1, SdrRead
  <2>3. Sdr!Message.of \in Sdr!State
    BY <1>c, <2>2
  <2>4. (sampleRate' \in Rate \/ sampleRate' = sampleRate) /\ centerHz' \in Freq
    BY <1>0, <1>d, <2>1, <2>3 DEF Sdr!Apply, SdrStartTyped
  <2>5. SdrPcTyped' /\ SdrTuneTyped'
    BY <1>0, <2>1 DEF SdrPcTyped, SdrTuneTyped
  <2>6. SdrStartTyped'
    BY <1>0, <2>1, <2>2, <2>4 DEF SdrStartTyped, Gathered, SdrSettles, Streams
  <2> QED
    BY <1>0, <2>1, <2>2, <2>5, <2>6 DEF SdrTyped
<1>9. ASSUME Sdr!SettleEnds \/ Sdr!TakeAnnounce \/ Sdr!AnnounceStream PROVE SdrTyped'
  <2>1. /\ \/ /\ pc[Start] = "settle" /\ pc' = [pc EXCEPT ![Start] = "enable"]
              /\ UNCHANGED <<val, announced, told>>
           \/ /\ pc[Start] = "enable" /\ pc' = [pc EXCEPT ![Start] = "announce"]
              /\ val' = [rate |-> sampleRate, centre |-> centerHz, control |-> canControl]
              /\ announced' = centerHz /\ told' = told
           \/ /\ pc[Start] = "announce" /\ pc' = [pc EXCEPT ![Start] = "loop"]
              /\ told' = val /\ val' = None /\ announced' = announced
        /\ UNCHANGED <<centerHz, sampleRate, canControl, have, req, last, alive, server, inbox,
                      replies, used>>
    BY <1>9 DEF Sdr!SettleEnds, Sdr!TakeAnnounce, Sdr!AnnounceStream, Sdr!At, Sdr!Goto
  <2>2. /\ SdrPcTyped' /\ (\A t \in Tuner : pc'[t] = pc[t])
        /\ pc[Start] = "settle" => pc'[Start] = "enable"
        /\ pc[Start] = "enable" => pc'[Start] = "announce"
        /\ pc[Start] = "announce" => pc'[Start] = "loop"
    BY <1>0, <1>a, <1>b, <2>1, SdrStartGoes
  <2>3. SdrTuneTyped'
    BY <1>0, <2>1, <2>2, SdrTuneFrame
  <2>4. pc[Start] = "enable" =>
          [rate |-> sampleRate, centre |-> centerHz, control |-> canControl] \in Sdr!State
    BY <1>0 DEF SdrStartTyped, Gathered, SdrSettles, Sdr!State
  <2>5. SdrStartTyped'
    BY <1>0, <2>1, <2>2, <2>4 DEF SdrStartTyped, Gathered, SdrSettles, Streams
  <2>6. SdrQueueTyped'
    BY <1>0, <2>1 DEF SdrQueueTyped
  <2> QED
    BY <1>0, <2>1, <2>2, <2>3, <2>5, <2>6 DEF SdrTyped
<1>10. ASSUME Sdr!LoopCentre \/ Sdr!LoopRate \/ Sdr!LoopControl PROVE SdrTyped'
  <2>1. Sdr!Read /\ pc[Start] = "loop"
    BY <1>10 DEF Sdr!LoopCentre, Sdr!LoopRate, Sdr!LoopControl, Sdr!At
  <2>2. SdrQueueTyped' /\ alive' = alive /\ Sdr!Message \in SdrMessage
    BY <1>0, <2>1, SdrRead
  <2>3. Sdr!Message.of \in Sdr!State
    BY <1>c, <2>2
  <2>4. /\ \/ pc' = pc /\ val' = val
           \/ /\ pc' = [pc EXCEPT ![Start] = "announce"]
              /\ val' = [rate |-> sampleRate', centre |-> centerHz', control |-> canControl]
        /\ sampleRate' \in {sampleRate, Sdr!Message.of.rate}
        /\ centerHz' \in {centerHz, Sdr!Message.of.centre}
        /\ canControl' \in {canControl, Sdr!Message.of.control}
        /\ announced' \in {announced, Sdr!Message.of.centre}
        /\ UNCHANGED <<have, req, last, told, used>>
    BY <1>10 DEF Sdr!LoopCentre, Sdr!LoopRate, Sdr!LoopControl, Sdr!Goto
  <2>5. /\ sampleRate' \in Rate /\ centerHz' \in Freq /\ canControl \in BOOLEAN
        /\ canControl' \in BOOLEAN /\ announced' \in Freq \cup {None}
    BY <1>0, <1>d, <2>1, <2>3, <2>4 DEF SdrStartTyped, Gathered, Streams
  <2>6. SdrPcTyped' /\ (\A t \in Tuner : pc'[t] = pc[t])
        /\ \/ pc'[Start] = "loop" /\ val' = val
           \/ pc'[Start] = "announce"
              /\ val' = [rate |-> sampleRate', centre |-> centerHz', control |-> canControl]
    <3>1. CASE pc' = pc /\ val' = val
      BY <1>0, <2>1, <3>1 DEF SdrPcTyped
    <3>2. CASE pc' = [pc EXCEPT ![Start] = "announce"]
               /\ val' = [rate |-> sampleRate', centre |-> centerHz', control |-> canControl]
      BY <1>0, <1>a, <1>b, <3>2, SdrStartGoes
    <3> QED
      BY <2>4, <3>1, <3>2
  <2>7. SdrTuneTyped'
    BY <1>0, <2>4, <2>6, SdrTuneFrame
  <2>8. [rate |-> sampleRate', centre |-> centerHz', control |-> canControl] \in Sdr!State
    BY <2>5 DEF Sdr!State
  <2>9. SdrStartTyped'
    BY <1>0, <2>1, <2>2, <2>4, <2>5, <2>6, <2>8 DEF SdrStartTyped, Streams
  <2> QED
    BY <1>0, <2>2, <2>4, <2>6, <2>7, <2>9 DEF SdrTyped
<1>11. ASSUME Sdr!StartFails PROVE SdrTyped'
  <2>1. /\ pc[Start] \in {"gather", "enable", "loop"} /\ pc' = [pc EXCEPT ![Start] = "dial"]
        /\ have' = {}
        /\ UNCHANGED <<centerHz, sampleRate, canControl, announced, val, req, last, alive, server,
                      inbox, replies, told, used>>
    BY <1>11 DEF Sdr!StartFails, Sdr!Goto
  <2>2. SdrPcTyped' /\ pc'[Start] = "dial" /\ \A t \in Tuner : pc'[t] = pc[t]
    BY <1>0, <1>a, <1>b, <2>1, SdrStartGoes
  <2>3. SdrStartTyped'
    BY <1>0, <2>1, <2>2 DEF SdrStartTyped, Gathered, SdrSettles, Streams
  <2>4. SdrTuneTyped'
    BY <1>0, <2>1, <2>2, SdrTuneFrame
  <2>5. SdrQueueTyped'
    BY <1>0, <2>1 DEF SdrQueueTyped
  <2> QED
    BY <1>0, <2>1, <2>2, <2>3, <2>4, <2>5 DEF SdrTyped
<1> QED
  BY <1>1, <1>2, <1>3, <1>4, <1>5, <1>6, <1>7, <1>8, <1>9, <1>10, <1>11 DEF Sdr!Source

(* So does one of a readLoop, of the server or of its owner.                *)
LEMMA SdrOthersTypedStep ==
    ASSUME Sdr!ConstantsOK, SdrTyped,
           (\E t \in Tuner : Sdr!ReadLoop(t)) \/ Sdr!Environment \/ UNCHANGED Sdr!vars
    PROVE  SdrTyped'
<1>0. /\ SdrPcTyped /\ SdrStartTyped /\ SdrTuneTyped /\ SdrQueueTyped /\ used \in SdrCounts
      /\ None \notin Freq \cup Rate \cup Sdr!State
  BY DEF SdrTyped, Sdr!ConstantsOK
<1>a. "idle" \in SdrTunes /\ "centre" \in SdrTunes /\ "vfo" \in SdrTunes
      /\ "renew" \in SdrTunes /\ "store" \in SdrTunes
  BY DEF SdrTunes
<1>b. ASSUME NEW t \in Tuner
      PROVE  /\ req[t] \in Freq \cup {None} /\ (pc[t] # "idle" => req[t] \in Freq)
             /\ pc[t] = "store" => last[t] \in Sdr!State
  BY <1>0, <1>b DEF SdrTuneTyped
<1>1. ASSUME NEW t \in Tuner, NEW f \in Freq, Sdr!Tune(t, f) PROVE SdrTyped'
  <2>1. /\ pc[t] = "idle" /\ centerHz' = f
        /\ used' = [used EXCEPT !.tunes = @ + 1] /\ used.tunes < MaxTunes
        /\ \/ pc' = [pc EXCEPT ![t] = "centre"] /\ req' = [req EXCEPT ![t] = f]
           \/ pc' = pc /\ req' = req
        /\ UNCHANGED <<sampleRate, canControl, have, announced, val, last, alive, server, inbox,
                      replies, told>>
    BY <1>1 DEF Sdr!Tune, Sdr!Goto
  <2>2. used' \in SdrCounts
    BY <1>0, <2>1 DEF SdrCounts, Sdr!ConstantsOK
  <2>3. SdrQueueTyped'
    BY <1>0, <2>1 DEF SdrQueueTyped
  <2>4. CASE pc' = [pc EXCEPT ![t] = "centre"] /\ req' = [req EXCEPT ![t] = f]
    <3>1. /\ SdrPcTyped' /\ pc'[Start] = pc[Start]
          /\ pc'[t] = "centre" /\ \A u \in Tuner : u # t => pc'[u] = pc[u]
      BY <1>0, <1>a, <2>4, SdrTunerGoes
    <3>2. SdrTuneTyped'
      BY <1>0, <1>a, <2>1, <2>4, <3>1 DEF SdrTuneTyped
    <3>3. SdrStartTyped'
      BY <1>0, <2>1, <3>1 DEF SdrStartTyped, Gathered
    <3> QED
      BY <2>2, <2>3, <3>1, <3>2, <3>3 DEF SdrTyped
  <2>5. CASE pc' = pc /\ req' = req
    <3>1. SdrPcTyped' /\ SdrTuneTyped'
      BY <1>0, <2>1, <2>5 DEF SdrPcTyped, SdrTuneTyped
    <3>2. SdrStartTyped'
      BY <1>0, <2>1, <2>5 DEF SdrStartTyped, Gathered
    <3> QED
      BY <2>2, <2>3, <3>1, <3>2 DEF SdrTyped
  <2> QED
    BY <2>1, <2>4, <2>5
<1>2. ASSUME NEW t \in Tuner, Sdr!TuneCentre(t) PROVE SdrTyped'
  <2>1. /\ pc[t] = "centre" /\ pc' = [pc EXCEPT ![t] = "vfo"]
        /\ Sdr!Send(<<Sdr!Set("centre", req[t])>>)
        /\ UNCHANGED <<centerHz, sampleRate, canControl, have, announced, val, req, last, told, used>>
    BY <1>2 DEF Sdr!TuneCentre, Sdr!Goto
  <2>2. /\ SdrPcTyped' /\ pc'[Start] = pc[Start]
        /\ pc'[t] = "vfo" /\ \A u \in Tuner : u # t => pc'[u] = pc[u]
    BY <1>0, <1>a, <2>1, SdrTunerGoes
  <2>3. Sdr!Set("centre", req[t]) \in SdrCommand
    BY <1>b, <2>1 DEF Sdr!Set, SdrCommand
  <2>4. SdrQueueTyped' /\ alive' = alive
    <3>1. <<Sdr!Set("centre", req[t])>> \in Seq(SdrCommand)
      BY <2>3
    <3> QED
      BY <1>0, <2>1, <3>1, SdrSend
  <2>5. SdrTuneTyped'
    BY <1>0, <1>a, <2>1, <2>2 DEF SdrTuneTyped
  <2>6. SdrStartTyped'
    BY <1>0, <2>1, <2>2, <2>4 DEF SdrStartTyped, Gathered
  <2> QED
    BY <1>0, <2>1, <2>2, <2>4, <2>5, <2>6 DEF SdrTyped
<1>3. ASSUME NEW t \in Tuner, Sdr!TuneVfo(t) PROVE SdrTyped'
  <2>1. /\ pc[t] = "vfo" /\ pc' = [pc EXCEPT ![t] = "renew"]
        /\ UNCHANGED <<centerHz, sampleRate, canControl, have, announced, val, req, last, alive,
                      server, inbox, replies, told, used>>
    BY <1>3 DEF Sdr!TuneVfo, Sdr!Goto
  <2>2. /\ SdrPcTyped' /\ pc'[Start] = pc[Start]
        /\ pc'[t] = "renew" /\ \A u \in Tuner : u # t => pc'[u] = pc[u]
    BY <1>0, <1>a, <2>1, SdrTunerGoes
  <2>3. SdrTuneTyped'
    BY <1>0, <1>a, <2>1, <2>2 DEF SdrTuneTyped
  <2>4. SdrStartTyped' /\ SdrQueueTyped'
    BY <1>0, <2>1, <2>2 DEF SdrStartTyped, Gathered, SdrQueueTyped
  <2> QED
    BY <1>0, <2>1, <2>2, <2>3, <2>4 DEF SdrTyped
<1>4. ASSUME NEW t \in Tuner, Sdr!TuneFails(t) \/ Sdr!Reannounce(t) \/ Sdr!StoreAnnounce(t)
      PROVE  SdrTyped'
  <2>1. /\ \/ /\ pc[t] = "renew" /\ told # None /\ pc' = [pc EXCEPT ![t] = "store"]
              /\ last' = [last EXCEPT ![t] = told] /\ req' = req
           \/ /\ pc' = [pc EXCEPT ![t] = "idle"]
              /\ req' = [req EXCEPT ![t] = None] /\ last' = [last EXCEPT ![t] = None]
        /\ told' = told \/ (pc[t] = "store" /\ told' = [last[t] EXCEPT !.centre = req[t]])
        /\ UNCHANGED <<centerHz, sampleRate, canControl, have, announced, val, alive,
                      server, inbox, replies, used>>
    BY <1>4 DEF Sdr!TuneFails, Sdr!Reannounce, Sdr!StoreAnnounce, Sdr!Finish, Sdr!Goto
  <2>2. told' # None => told' \in Sdr!State
    BY <1>0, <1>b, <2>1 DEF SdrStartTyped, Sdr!State
  <2>3. SdrQueueTyped'
    BY <1>0, <2>1 DEF SdrQueueTyped
  <2>4. CASE /\ pc[t] = "renew" /\ told # None /\ pc' = [pc EXCEPT ![t] = "store"]
             /\ last' = [last EXCEPT ![t] = told] /\ req' = req
    <3>1. /\ SdrPcTyped' /\ pc'[Start] = pc[Start]
          /\ pc'[t] = "store" /\ \A u \in Tuner : u # t => pc'[u] = pc[u]
      BY <1>0, <1>a, <2>4, SdrTunerGoes
    <3>2. told \in Sdr!State
      BY <1>0, <2>4 DEF SdrStartTyped
    <3>3. SdrTuneTyped'
      BY <1>0, <1>a, <2>4, <3>1, <3>2 DEF SdrTuneTyped
    <3>4. SdrStartTyped'
      BY <1>0, <2>1, <2>2, <3>1 DEF SdrStartTyped, Gathered
    <3> QED
      BY <1>0, <2>1, <2>3, <3>1, <3>3, <3>4 DEF SdrTyped
  <2>5. CASE /\ pc' = [pc EXCEPT ![t] = "idle"]
             /\ req' = [req EXCEPT ![t] = None] /\ last' = [last EXCEPT ![t] = None]
    <3>1. /\ SdrPcTyped' /\ pc'[Start] = pc[Start]
          /\ pc'[t] = "idle" /\ \A u \in Tuner : u # t => pc'[u] = pc[u]
      BY <1>0, <1>a, <2>5, SdrTunerGoes
    <3>2. SdrTuneTyped'
      BY <1>0, <1>a, <2>5, <3>1 DEF SdrTuneTyped
    <3>3. SdrStartTyped'
      BY <1>0, <2>1, <2>2, <3>1 DEF SdrStartTyped, Gathered
    <3> QED
      BY <1>0, <2>1, <2>3, <3>1, <3>2, <3>3 DEF SdrTyped
  <2> QED
    BY <2>1, <2>4, <2>5
<1>5. ASSUME NEW p \in Sdr!Prop, NEW s \in Sdr!State, Sdr!Move(p, s) PROVE SdrTyped'
  <2>1. /\ server' = s /\ used' = [used EXCEPT !.moves = @ + 1] /\ used.moves < MaxMoves
        /\ replies' = IF alive THEN Append(replies, [prop |-> p, of |-> s]) ELSE replies
        /\ UNCHANGED <<pc, centerHz, sampleRate, canControl, have, announced, val, req, last, alive,
                      inbox, told>>
    BY <1>5 DEF Sdr!Move, Sdr!Report
  <2>2. [prop |-> p, of |-> s] \in SdrMessage
    BY DEF SdrMessage
  <2>3. SdrQueueTyped'
    BY <1>0, <2>1, <2>2 DEF SdrQueueTyped
  <2>4. SdrPcTyped' /\ SdrTuneTyped'
    BY <1>0, <2>1 DEF SdrPcTyped, SdrTuneTyped
  <2>5. SdrStartTyped'
    BY <1>0, <2>1 DEF SdrStartTyped, Gathered
  <2>6. used' \in SdrCounts
    BY <1>0, <2>1 DEF SdrCounts, Sdr!ConstantsOK
  <2> QED
    BY <2>3, <2>4, <2>5, <2>6 DEF SdrTyped
<1>6. ASSUME Sdr!Serve PROVE SdrTyped'
  <2>1. UNCHANGED <<pc, centerHz, sampleRate, canControl, have, announced, val, req, last, alive,
                    told, used>>
    BY <1>6 DEF Sdr!Serve
  <2>2. SdrQueueTyped'
    BY <1>0, <1>6, SdrServed
  <2>3. SdrPcTyped' /\ SdrTuneTyped'
    BY <1>0, <2>1 DEF SdrPcTyped, SdrTuneTyped
  <2>4. SdrStartTyped'
    BY <1>0, <2>1 DEF SdrStartTyped, Gathered
  <2> QED
    BY <1>0, <2>1, <2>2, <2>3, <2>4 DEF SdrTyped
<1>7. ASSUME Sdr!Drop PROVE SdrTyped'
  <2>1. /\ alive' = FALSE /\ inbox' = <<>> /\ used' = [used EXCEPT !.drops = @ + 1]
        /\ used.drops < MaxDrops
        /\ UNCHANGED <<pc, centerHz, sampleRate, canControl, have, announced, val, req, last,
                      server, replies, told>>
    BY <1>7 DEF Sdr!Drop
  <2>2. SdrQueueTyped'
    BY <1>0, <2>1 DEF SdrQueueTyped
  <2>3. SdrPcTyped' /\ SdrTuneTyped'
    BY <1>0, <2>1 DEF SdrPcTyped, SdrTuneTyped
  <2>4. SdrStartTyped'
    BY <1>0, <2>1 DEF SdrStartTyped, Gathered
  <2>5. used' \in SdrCounts
    BY <1>0, <2>1 DEF SdrCounts, Sdr!ConstantsOK
  <2> QED
    BY <2>2, <2>3, <2>4, <2>5 DEF SdrTyped
<1>8. ASSUME UNCHANGED Sdr!vars PROVE SdrTyped'
  BY <1>0, <1>8
  DEF Sdr!vars, SdrTyped, SdrPcTyped, SdrStartTyped, SdrTuneTyped, SdrQueueTyped, Gathered
<1>9. Movable \subseteq Sdr!Prop
  BY DEF Sdr!ConstantsOK
<1> QED
  BY <1>1, <1>2, <1>3, <1>4, <1>5, <1>6, <1>7, <1>8, <1>9 DEF Sdr!ReadLoop, Sdr!Environment

LEMMA SdrTypedAlways == ASSUME Sdr!ConstantsOK PROVE Sdr!Spec => []SdrTyped
<1>1. Sdr!Init => SdrTyped
  BY SdrTypedInit
<1>2. SdrTyped /\ [Sdr!Next]_Sdr!vars => SdrTyped'
  BY SdrStartTypedStep, SdrOthersTypedStep DEF Sdr!Next
<1> QED
  BY <1>1, <1>2, PTL DEF Sdr!Spec

(* Every variable of the SDRConnect source has its type, and every local is *)
(* live only where it is used.                                              *)
THEOREM SdrTypeCorrect == ASSUME Sdr!ConstantsOK PROVE Sdr!Spec => []Sdr!TypeOK
<1>1. SdrTyped => Sdr!TypeOK
  BY SdrTypeWhole
<1> QED
  BY <1>1, SdrTypedAlways, PTL

------------------------------------------------------------------------------
(* The SDRConnect source: what its reports tell.                            *)

(* A queue has nothing about p; its last message about p gives v.           *)
NoneOf(q, p) == \A i \in DOMAIN q : q[i].prop # p

Tells(q, p, v) ==
    \A i \in DOMAIN q :
        q[i].prop = p /\ (\A j \in DOMAIN q : j > i => q[j].prop # p) => q[i].of[p] = v

(* One more report: it is the last.                                         *)
LEMMA TellsAppend ==
    ASSUME NEW q \in Seq(SdrMessage), NEW m \in SdrMessage, NEW p \in Sdr!Prop,
           NEW v \in Rate \cup Freq,
           m.prop = p => m.of[p] = v,
           m.prop # p => Tells(q, p, v)
    PROVE  /\ Tells(Append(q, m), p, v)
           /\ NoneOf(Append(q, m), p) => NoneOf(q, p) /\ m.prop # p
<1> DEFINE r == Append(q, m)
<1>1. /\ DOMAIN q = 1..Len(q) /\ DOMAIN r = 1..(Len(q) + 1) /\ Len(q) \in Nat
      /\ \A i \in 1..Len(q) : r[i] = q[i]
      /\ r[Len(q) + 1] = m
  OBVIOUS
<1>2. NoneOf(r, p) => NoneOf(q, p) /\ m.prop # p
  BY <1>1 DEF NoneOf
<1>3. ASSUME NEW i \in DOMAIN r, r[i].prop = p, \A j \in DOMAIN r : j > i => r[j].prop # p
      PROVE  r[i].of[p] = v
  <2>1. CASE i = Len(q) + 1
    BY <1>1, <1>3, <2>1
  <2>2. CASE i # Len(q) + 1
    <3>1. i \in 1..Len(q) /\ Len(q) + 1 > i /\ Len(q) + 1 \in DOMAIN r
      BY <1>1, <2>2
    <3>2. m.prop # p
      BY <1>1, <1>3, <3>1
    <3>3. \A j \in DOMAIN q : j > i => q[j].prop # p
      BY <1>1, <1>3
    <3> QED
      BY <1>1, <1>3, <3>1, <3>2, <3>3 DEF Tells
  <2> QED
    BY <2>1, <2>2
<1> QED
  BY <1>2, <1>3 DEF Tells

(* One report less: the last one is the same, or it was that one.           *)
LEMMA TellsTail ==
    ASSUME NEW q \in Seq(SdrMessage), q # <<>>, NEW p \in Sdr!Prop, NEW v \in Rate \cup Freq,
           Tells(q, p, v)
    PROVE  /\ Tells(Tail(q), p, v)
           /\ NoneOf(Tail(q), p) => (Head(q).prop = p /\ Head(q).of[p] = v) \/ NoneOf(q, p)
<1> DEFINE r == Tail(q)
<1>1. /\ DOMAIN q = 1..Len(q) /\ Len(q) \in Nat \ {0} /\ DOMAIN r = 1..(Len(q) - 1)
      /\ \A i \in 1..(Len(q) - 1) : r[i] = q[i + 1]
      /\ Head(q) = q[1]
  OBVIOUS
<1>2. \A j \in DOMAIN q : j # 1 => j - 1 \in DOMAIN r /\ r[j - 1] = q[j]
  <2>1. SUFFICES ASSUME NEW j \in 1..Len(q), j # 1 PROVE j - 1 \in DOMAIN r /\ r[j - 1] = q[j]
    BY <1>1
  <2>2. j - 1 \in 1..(Len(q) - 1) /\ (j - 1) + 1 = j
    BY <1>1, <2>1
  <2> QED
    BY <1>1, <2>2
<1>3. ASSUME NEW i \in DOMAIN r, r[i].prop = p, \A j \in DOMAIN r : j > i => r[j].prop # p
      PROVE  r[i].of[p] = v
  <2>1. i + 1 \in DOMAIN q /\ q[i + 1] = r[i] /\ i \in Nat
    BY <1>1
  <2>2. \A j \in DOMAIN q : j > i + 1 => j # 1 /\ j - 1 > i
    BY <1>1, <2>1
  <2>3. \A j \in DOMAIN q : j > i + 1 => q[j].prop # p
    BY <1>2, <1>3, <2>2
  <2> QED
    BY <1>3, <2>1, <2>3 DEF Tells
<1>4. ASSUME NoneOf(r, p), ~NoneOf(q, p) PROVE Head(q).prop = p /\ Head(q).of[p] = v
  <2>1. PICK i \in DOMAIN q : q[i].prop = p
    BY <1>4 DEF NoneOf
  <2>2. i = 1
    BY <1>2, <1>4, <2>1 DEF NoneOf
  <2>3. \A j \in DOMAIN q : j # 1 => q[j].prop # p
    BY <1>2, <1>4, Zenon DEF NoneOf
  <2> QED
    BY <1>1, <2>1, <2>2, <2>3 DEF Tells
<1> QED
  BY <1>3, <1>4 DEF Tells

(* A field of the server's state, by name.                                  *)
LEMMA SdrFields ==
    ASSUME NEW s \in Sdr!State
    PROVE  /\ s["rate"] = s.rate /\ s["centre"] = s.centre
           /\ s.rate \in Rate /\ s.centre \in Freq /\ s.control \in BOOLEAN
  BY DEF Sdr!State

(* While the connection lives its last reports tell the server's state, and *)
(* with no report of the rate on its way, Start has it.                     *)
SdrTells ==
    alive => Tells(replies, "rate", server.rate) /\ Tells(replies, "centre", server.centre)

RateKnown ==
    alive /\ Gathered("rate") /\ NoneOf(replies, "rate") => sampleRate = server.rate

(* What a step is to Start's knowledge.  Nothing changes, or everything is  *)
(* new or over:                                                             *)
Starts == pc'[Start] = "ask" /\ have' = {} /\ replies' = <<>>

Still ==
    /\ alive' = alive /\ server' = server /\ replies' = replies /\ sampleRate' = sampleRate
    /\ Tuner = {} => centerHz' = centerHz
    /\ \A p \in Sdr!Prop : Gathered(p)' => Gathered(p)

(* Start reads a report, and applies it:                                    *)
Reads ==
    /\ alive' = alive /\ server' = server
    /\ replies # <<>> /\ replies' = Tail(replies)
    /\ Head(replies).prop = "rate" => sampleRate' = Head(replies).of.rate
    /\ Head(replies).prop # "rate" => sampleRate' = sampleRate
    /\ Head(replies).prop # "centre" => centerHz' = centerHz
    /\ Head(replies).prop = "centre" =>
         \/ centerHz' = Head(replies).of.centre
         \/ pc[Start] = "loop" /\ centerHz' = centerHz /\ announced = Head(replies).of.centre
    /\ \A p \in Sdr!Prop : Gathered(p)' => Gathered(p) \/ Head(replies).prop = p

(* The server changes at most one property, and reports it.                 *)
Reported ==
    /\ UNCHANGED <<pc, alive, have, sampleRate, centerHz, canControl, announced, val, told>>
    /\ \E p \in Sdr!Prop :
        /\ replies' = Append(replies, [prop |-> p, of |-> server'])
        /\ p # "rate" => server'.rate = server.rate
        /\ p # "centre" => server'.centre = server.centre

LEMMA SdrSourceKinds ==
    ASSUME Sdr!ConstantsOK, SdrTyped, Sdr!Source
    PROVE  Starts \/ Still \/ Reads \/ ~alive'
<1>0. /\ SdrPcTyped /\ SdrStartTyped /\ SdrQueueTyped /\ Start \in Goroutine
      /\ have # {} => pc[Start] = "gather"
  BY DEF SdrTyped, SdrStartTyped, Goroutine
<1>1. ASSUME Sdr!Dial PROVE Starts
  BY <1>0, <1>1 DEF Sdr!Dial, Sdr!At, Sdr!Goto, Starts, SdrPcTyped
<1>2. ASSUME Sdr!Ask \/ Sdr!NarrowRate \/ Sdr!Recentre \/ Sdr!Readback PROVE Still
  BY <1>0, <1>2
  DEF Sdr!Ask, Sdr!NarrowRate, Sdr!Recentre, Sdr!Readback, Sdr!Send, Sdr!At, Sdr!Goto, Still,
      SdrPcTyped, Gathered, SdrSettles, Streams
<1>3. ASSUME Sdr!SettleEnds \/ Sdr!TakeAnnounce \/ Sdr!AnnounceStream \/ Sdr!StartFails PROVE Still
  BY <1>0, <1>3
  DEF Sdr!SettleEnds, Sdr!TakeAnnounce, Sdr!AnnounceStream, Sdr!StartFails, Sdr!At, Sdr!Goto, Still,
      SdrPcTyped, Gathered, SdrSettles, Streams
<1>4. ASSUME Sdr!Read
      PROVE  /\ alive' = alive /\ server' = server /\ replies # <<>> /\ replies' = Tail(replies)
             /\ Sdr!Message = Head(replies)
  BY <1>0, <1>4, SdrRead
<1>5. ASSUME Sdr!Gather PROVE Reads
  <2>1. /\ Sdr!Read /\ pc[Start] = "gather"
        /\ sampleRate' = IF Sdr!Message.prop = "rate" THEN Sdr!Message.of.rate ELSE sampleRate
        /\ centerHz' = IF Sdr!Message.prop = "centre" THEN Sdr!Message.of.centre ELSE centerHz
        /\ (pc' = pc /\ have' = have \cup {Sdr!Message.prop}) \/ have \cup {Sdr!Message.prop} = Sdr!Prop
    BY <1>5 DEF Sdr!Gather, Sdr!At, Sdr!Apply
  <2> QED
    BY <1>4, <2>1 DEF Reads, Gathered, SdrSettles, Streams
<1>6. ASSUME Sdr!GatherTooLate PROVE Reads
  <2>1. /\ Sdr!Read
        /\ sampleRate' = IF Sdr!Message.prop = "rate" THEN Sdr!Message.of.rate ELSE sampleRate
        /\ centerHz' = IF Sdr!Message.prop = "centre" THEN Sdr!Message.of.centre ELSE centerHz
        /\ pc'[Start] = "dial" /\ have' = {}
    BY <1>0, <1>6 DEF Sdr!GatherTooLate, Sdr!At, Sdr!Goto, Sdr!Apply, SdrPcTyped
  <2> QED
    BY <1>4, <2>1 DEF Reads, Gathered, SdrSettles, Streams
<1>7. ASSUME Sdr!Settle PROVE Reads
  <2>1. /\ Sdr!Read
        /\ sampleRate' = IF Sdr!Message.prop = "rate" THEN Sdr!Message.of.rate ELSE sampleRate
        /\ centerHz' = IF Sdr!Message.prop = "centre" THEN Sdr!Message.of.centre ELSE centerHz
        /\ UNCHANGED <<pc, have>>
    BY <1>7 DEF Sdr!Settle, Sdr!Apply
  <2> QED
    BY <1>4, <2>1 DEF Reads, Gathered
<1>8. ASSUME Sdr!LoopCentre \/ Sdr!LoopRate \/ Sdr!LoopControl PROVE Reads
  <2>1. /\ Sdr!Read /\ pc[Start] = "loop"
        /\ sampleRate' = IF Sdr!Message.prop = "rate" THEN Sdr!Message.of.rate ELSE sampleRate
        /\ Sdr!Message.prop # "centre" => centerHz' = centerHz
        /\ Sdr!Message.prop = "centre" =>
             \/ centerHz' = Sdr!Message.of.centre
             \/ centerHz' = centerHz /\ announced = Sdr!Message.of.centre
    BY <1>8 DEF Sdr!LoopCentre, Sdr!LoopRate, Sdr!LoopControl, Sdr!At
  <2>3. \A p \in Sdr!Prop : Gathered(p)
    BY <2>1 DEF Gathered, SdrSettles, Streams
  <2> QED
    BY <1>4, <2>1, <2>3 DEF Reads
<1> QED
  BY <1>1, <1>2, <1>3, <1>5, <1>6, <1>7, <1>8 DEF Sdr!Source

LEMMA SdrOtherKinds ==
    ASSUME Sdr!ConstantsOK, SdrTyped,
           (\E t \in Tuner : Sdr!ReadLoop(t)) \/ Sdr!Environment \/ UNCHANGED Sdr!vars
    PROVE  Still \/ Reported \/ ~alive'
<1>0. SdrPcTyped /\ SdrQueueTyped /\ Start \in Goroutine /\ \A t \in Tuner : t # Start
  BY DEF SdrTyped, Goroutine, Sdr!ConstantsOK
<1>1. ASSUME NEW t \in Tuner, Sdr!ReadLoop(t) \/ (\E f \in Freq : Sdr!Tune(t, f)) PROVE Still
  <2>1. /\ pc' = pc \/ \E l \in SdrTunes : pc' = [pc EXCEPT ![t] = l]
        /\ UNCHANGED <<alive, server, replies, sampleRate, have>>
    BY <1>1
    DEF Sdr!ReadLoop, Sdr!TuneCentre, Sdr!TuneVfo, Sdr!TuneFails, Sdr!Reannounce, Sdr!StoreAnnounce,
        Sdr!Tune, Sdr!Finish, Sdr!Goto, Sdr!Send, SdrTunes
  <2>2. pc'[Start] = pc[Start]
    BY <1>0, <2>1 DEF SdrPcTyped
  <2>3. Tuner # {}
    OBVIOUS
  <2> QED
    BY <2>1, <2>2, <2>3 DEF Still, Gathered
<1>2. ASSUME NEW p \in Sdr!Prop, NEW q \in Sdr!State, Sdr!Move(p, q), alive PROVE Reported
  <2>1. /\ server' = q /\ \A o \in Sdr!Prop \ {p} : q[o] = server[o]
        /\ replies' = Append(replies, [prop |-> p, of |-> server'])
        /\ UNCHANGED <<pc, alive, have, sampleRate, centerHz, canControl, announced, val, told>>
    BY <1>2 DEF Sdr!Move, Sdr!Report
  <2>2. server \in Sdr!State
    BY <1>0 DEF SdrQueueTyped
  <2>3. (p # "rate" => q["rate"] = server["rate"]) /\ (p # "centre" => q["centre"] = server["centre"])
    BY <2>1 DEF Sdr!Prop
  <2>4. (p # "rate" => q.rate = server.rate) /\ (p # "centre" => q.centre = server.centre)
    BY <2>2, <2>3, SdrFields
  <2> QED
    BY <2>1, <2>4 DEF Reported
<1>3. ASSUME Sdr!Serve PROVE Still \/ Reported
  <2>1. UNCHANGED <<pc, alive, have, sampleRate, centerHz, canControl, announced, val, told>>
    BY <1>3 DEF Sdr!Serve
  <2>2. /\ Head(inbox) \in SdrCommand
        /\ \/ server' = server /\ replies' = replies
           \/ /\ replies' = Append(replies, [prop |-> Head(inbox).prop, of |-> server'])
              /\ Head(inbox).prop # "rate" => server'.rate = server.rate
              /\ Head(inbox).prop # "centre" => server'.centre = server.centre
    BY <1>0, <1>3, SdrServed
  <2>3. Head(inbox).prop \in Sdr!Prop
    BY <2>2 DEF SdrCommand, Sdr!Prop
  <2> QED
    BY <2>1, <2>2, <2>3 DEF Still, Reported, Gathered
<1>4. ASSUME UNCHANGED Sdr!vars PROVE Still
  BY <1>4 DEF Sdr!vars, Still, Gathered
<1>5. ASSUME NEW p \in Sdr!Prop, NEW q \in Sdr!State, Sdr!Move(p, q), ~alive PROVE ~alive'
  BY <1>5 DEF Sdr!Move
<1>6. ASSUME Sdr!Drop PROVE ~alive'
  BY <1>6 DEF Sdr!Drop
<1>7. Movable \subseteq Sdr!Prop
  BY DEF Sdr!ConstantsOK
<1> QED
  BY <1>1, <1>2, <1>3, <1>4, <1>5, <1>6, <1>7 DEF Sdr!Environment

(* Whatever kind of step it is, the rate is known after it.                 *)
LEMMA RateStep ==
    ASSUME SdrTyped, SdrTyped', SdrTells, RateKnown,
           Starts \/ Still \/ Reads \/ Reported \/ ~alive'
    PROVE  SdrTells' /\ RateKnown'
<1>0. /\ replies \in Seq(SdrMessage) /\ server \in Sdr!State /\ server' \in Sdr!State
      /\ "rate" \in Sdr!Prop /\ "centre" \in Sdr!Prop
      /\ server.rate \in Rate \cup Freq /\ server.centre \in Rate \cup Freq
      /\ server'.rate \in Rate \cup Freq /\ server'.centre \in Rate \cup Freq
  BY SdrFields DEF SdrTyped, SdrQueueTyped, Sdr!Prop
<1>1. CASE Starts
  <2>1. ~Gathered("rate")'
    BY <1>1 DEF Starts, Gathered, SdrSettles, Streams
  <2>2. Tells(replies', "rate", server'.rate) /\ Tells(replies', "centre", server'.centre)
    BY <1>1 DEF Starts, Tells
  <2> QED
    BY <2>1, <2>2 DEF SdrTells, RateKnown
<1>2. CASE Still
  BY <1>0, <1>2 DEF Still, SdrTells, RateKnown
<1>3. CASE Reads
  <2>1. /\ alive' = alive /\ server' = server /\ replies # <<>> /\ replies' = Tail(replies)
        /\ Head(replies).prop = "rate" => sampleRate' = Head(replies).of.rate
        /\ Head(replies).prop # "rate" => sampleRate' = sampleRate
        /\ Gathered("rate")' => Gathered("rate") \/ Head(replies).prop = "rate"
    BY <1>0, <1>3 DEF Reads
  <2> SUFFICES ASSUME alive PROVE SdrTells' /\ RateKnown'
    BY <2>1 DEF SdrTells, RateKnown
  <2>2. Tells(replies, "rate", server.rate) /\ Tells(replies, "centre", server.centre)
    BY DEF SdrTells
  <2>3. /\ Tells(Tail(replies), "rate", server.rate)
        /\ NoneOf(Tail(replies), "rate") =>
             \/ Head(replies).prop = "rate" /\ Head(replies).of["rate"] = server.rate
             \/ NoneOf(replies, "rate")
    BY <1>0, <2>1, <2>2, TellsTail
  <2>4. Tells(Tail(replies), "centre", server.centre)
    BY <1>0, <2>1, <2>2, TellsTail
  <2>5. Head(replies).of \in Sdr!State
    <3>1. Head(replies) \in SdrMessage
      BY <1>0, <2>1
    <3> QED
      BY <3>1 DEF SdrMessage
  <2>6. Head(replies).of["rate"] = Head(replies).of.rate
    BY <2>5, SdrFields
  <2>7. SdrTells'
    BY <2>1, <2>3, <2>4 DEF SdrTells
  <2>8. NoneOf(replies', "rate") /\ Gathered("rate")' => sampleRate' = server'.rate
    BY <2>1, <2>3, <2>6 DEF RateKnown, NoneOf
  <2> QED
    BY <2>7, <2>8 DEF RateKnown
<1>4. CASE Reported
  <2>1. PICK p \in Sdr!Prop :
          /\ replies' = Append(replies, [prop |-> p, of |-> server'])
          /\ p # "rate" => server'.rate = server.rate
          /\ p # "centre" => server'.centre = server.centre
          /\ UNCHANGED <<pc, alive, have, sampleRate>>
    BY <1>4 DEF Reported
  <2> SUFFICES ASSUME alive PROVE SdrTells' /\ RateKnown'
    BY <2>1 DEF SdrTells, RateKnown
  <2> DEFINE m == [prop |-> p, of |-> server']
  <2>2. m \in SdrMessage /\ m.prop = p /\ m.of = server'
    BY <1>0 DEF SdrMessage
  <2>3. server'["rate"] = server'.rate /\ server'["centre"] = server'.centre
    BY <1>0, SdrFields
  <2>4. Tells(replies, "rate", server.rate) /\ Tells(replies, "centre", server.centre)
    BY DEF SdrTells
  <2> HIDE DEF m
  <2>5. (m.prop = "rate" => m.of["rate"] = server'.rate)
        /\ (m.prop # "rate" => Tells(replies, "rate", server'.rate))
    BY <2>1, <2>2, <2>3, <2>4
  <2>6. (m.prop = "centre" => m.of["centre"] = server'.centre)
        /\ (m.prop # "centre" => Tells(replies, "centre", server'.centre))
    BY <2>1, <2>2, <2>3, <2>4
  <2>7. /\ Tells(Append(replies, m), "rate", server'.rate)
        /\ NoneOf(Append(replies, m), "rate") => NoneOf(replies, "rate") /\ m.prop # "rate"
    BY <1>0, <2>2, <2>5, TellsAppend
  <2>8. Tells(Append(replies, m), "centre", server'.centre)
    BY <1>0, <2>2, <2>6, TellsAppend
  <2>9. replies' = Append(replies, m)
    BY <2>1 DEF m
  <2>10. SdrTells'
    BY <2>7, <2>8, <2>9 DEF SdrTells
  <2>11. NoneOf(replies', "rate") /\ Gathered("rate")' => sampleRate' = server'.rate
    BY <2>1, <2>2, <2>7, <2>9 DEF RateKnown, Gathered, NoneOf
  <2> QED
    BY <2>10, <2>11 DEF RateKnown
<1>5. CASE ~alive'
  BY <1>5 DEF SdrTells, RateKnown
<1> QED
  BY <1>1, <1>2, <1>3, <1>4, <1>5

LEMMA RateAlways == ASSUME Sdr!ConstantsOK PROVE Sdr!Spec => [](SdrTells /\ RateKnown)
<1>1. Sdr!Init => SdrTells /\ RateKnown
  BY DEF Sdr!Init, SdrTells, RateKnown
<1>2. SdrTyped /\ SdrTyped' /\ SdrTells /\ RateKnown /\ [Sdr!Next]_Sdr!vars
      => (SdrTells /\ RateKnown)'
  BY SdrSourceKinds, SdrOtherKinds, RateStep DEF Sdr!Next
<1> QED
  BY <1>1, <1>2, SdrTypedAlways, PTL DEF Sdr!Spec

------------------------------------------------------------------------------
(* The SDRConnect source without readLoops.                                 *)

(* With no report of the centre on its way, Start has it.                   *)
CentreKnown ==
    alive /\ Gathered("centre") /\ NoneOf(replies, "centre") => centerHz = server.centre

(* What is announced is what Start has.                                     *)
TellsIt ==
    /\ pc[Start] \in Streams => announced = centerHz
    /\ pc[Start] = "announce" => val.rate = sampleRate /\ val.centre = centerHz
    /\ pc[Start] = "loop" => told.rate = sampleRate /\ told.centre = centerHz

LEMMA CentreStep ==
    ASSUME Tuner = {}, SdrTyped, SdrTyped', SdrTells, CentreKnown, TellsIt,
           Starts \/ Still \/ Reads \/ Reported \/ ~alive'
    PROVE  CentreKnown'
<1>0. /\ replies \in Seq(SdrMessage) /\ server \in Sdr!State /\ server' \in Sdr!State
      /\ "centre" \in Sdr!Prop
      /\ server.centre \in Rate \cup Freq /\ server'.centre \in Rate \cup Freq
  BY SdrFields DEF SdrTyped, SdrQueueTyped, Sdr!Prop
<1>1. CASE Starts
  BY <1>1 DEF Starts, CentreKnown, Gathered, SdrSettles, Streams
<1>2. CASE Still
  BY <1>0, <1>2 DEF Still, CentreKnown
<1>3. CASE Reads
  <2>1. /\ alive' = alive /\ server' = server /\ replies # <<>> /\ replies' = Tail(replies)
        /\ Head(replies).prop = "centre" => centerHz' = Head(replies).of.centre
        /\ Head(replies).prop # "centre" => centerHz' = centerHz
        /\ Gathered("centre")' => Gathered("centre") \/ Head(replies).prop = "centre"
    BY <1>0, <1>3 DEF Reads, TellsIt, Streams
  <2> SUFFICES ASSUME alive PROVE CentreKnown'
    BY <2>1 DEF CentreKnown
  <2>2. Tells(replies, "centre", server.centre)
    BY DEF SdrTells
  <2>3. NoneOf(Tail(replies), "centre") =>
             \/ Head(replies).prop = "centre" /\ Head(replies).of["centre"] = server.centre
             \/ NoneOf(replies, "centre")
    BY <1>0, <2>1, <2>2, TellsTail
  <2>4. Head(replies) \in SdrMessage
    BY <1>0, <2>1
  <2>5. Head(replies).of["centre"] = Head(replies).of.centre
    BY <2>4, SdrFields DEF SdrMessage
  <2> SUFFICES ASSUME Gathered("centre")', NoneOf(Tail(replies), "centre")
               PROVE  centerHz' = server.centre
    BY <2>1 DEF CentreKnown, NoneOf
  <2>6. CASE Head(replies).prop = "centre"
    <3>1. NoneOf(replies, "centre") => 1 \notin DOMAIN replies
      BY <1>0, <2>1, <2>6 DEF NoneOf
    <3>2. 1 \in DOMAIN replies
      BY <1>0, <2>1
    <3> QED
      BY <2>1, <2>3, <2>5, <2>6, <3>1, <3>2
  <2>7. CASE Head(replies).prop # "centre"
    <3>1. NoneOf(replies, "centre")
      BY <2>3, <2>7
    <3> QED
      BY <2>1, <2>7, <3>1 DEF CentreKnown
  <2> QED
    BY <2>6, <2>7
<1>4. CASE Reported
  <2>1. PICK p \in Sdr!Prop :
          /\ replies' = Append(replies, [prop |-> p, of |-> server'])
          /\ p # "centre" => server'.centre = server.centre
          /\ UNCHANGED <<pc, alive, have, centerHz>>
    BY <1>4 DEF Reported
  <2> SUFFICES ASSUME alive PROVE CentreKnown'
    BY <2>1 DEF CentreKnown
  <2> DEFINE m == [prop |-> p, of |-> server']
  <2>2. m \in SdrMessage /\ m.prop = p /\ m.of = server'
    BY <1>0 DEF SdrMessage
  <2>3. server'["centre"] = server'.centre
    BY <1>0, SdrFields
  <2>4. Tells(replies, "centre", server.centre)
    BY DEF SdrTells
  <2> HIDE DEF m
  <2>5. (m.prop = "centre" => m.of["centre"] = server'.centre)
        /\ (m.prop # "centre" => Tells(replies, "centre", server'.centre))
    BY <2>1, <2>2, <2>3, <2>4
  <2>6. NoneOf(Append(replies, m), "centre") => NoneOf(replies, "centre") /\ m.prop # "centre"
    BY <1>0, <2>2, <2>5, TellsAppend
  <2>7. replies' = Append(replies, m)
    BY <2>1 DEF m
  <2>8. NoneOf(replies', "centre") /\ Gathered("centre")' => centerHz' = server'.centre
    BY <2>1, <2>2, <2>6, <2>7 DEF CentreKnown, Gathered, NoneOf
  <2> QED
    BY <2>8 DEF CentreKnown
<1>5. CASE ~alive'
  BY <1>5 DEF CentreKnown
<1> QED
  BY <1>1, <1>2, <1>3, <1>4, <1>5

LEMMA TellsItStep ==
    ASSUME Sdr!ConstantsOK, Tuner = {}, SdrTyped, TellsIt, [Sdr!Next]_Sdr!vars
    PROVE  TellsIt'
<1>0. pc \in [Goroutine -> SdrPlace] /\ Start \in Goroutine
  BY DEF SdrTyped, SdrPcTyped, Goroutine
<1>1. ASSUME Sdr!Dial \/ Sdr!Ask \/ Sdr!NarrowRate \/ Sdr!Recentre \/ Sdr!Readback \/ Sdr!GatherTooLate
              \/ Sdr!StartFails \/ Sdr!SettleEnds
      PROVE  TellsIt'
  <2>1. pc'[Start] \in {"ask", "gather", "recentre", "readback", "settle", "dial", "enable"}
    BY <1>0, <1>1 DEF Sdr!Dial, Sdr!Ask, Sdr!NarrowRate, Sdr!Recentre, Sdr!Readback,
                      Sdr!GatherTooLate, Sdr!StartFails, Sdr!SettleEnds, Sdr!Goto
  <2> QED
    BY <2>1 DEF TellsIt, Streams
<1>2. ASSUME Sdr!Gather \/ Sdr!Settle PROVE TellsIt'
  <2>1. pc'[Start] \in {"gather", "narrow", "enable", "settle"}
    BY <1>0, <1>2 DEF Sdr!Gather, Sdr!Settle, Sdr!Goto, Sdr!At
  <2> QED
    BY <2>1 DEF TellsIt, Streams
<1>3. ASSUME Sdr!TakeAnnounce PROVE TellsIt'
  <2>1. /\ pc'[Start] = "announce" /\ announced' = centerHz
        /\ val' = [rate |-> sampleRate, centre |-> centerHz, control |-> canControl]
        /\ UNCHANGED <<centerHz, sampleRate>>
    BY <1>0, <1>3 DEF Sdr!TakeAnnounce, Sdr!Goto
  <2> QED
    BY <2>1 DEF TellsIt
<1>4. ASSUME Sdr!AnnounceStream PROVE TellsIt'
  <2>1. /\ pc[Start] = "announce" /\ pc'[Start] = "loop" /\ told' = val
        /\ UNCHANGED <<centerHz, sampleRate, announced>>
    BY <1>0, <1>4 DEF Sdr!AnnounceStream, Sdr!At, Sdr!Goto
  <2> QED
    BY <2>1 DEF TellsIt, Streams
<1>5. ASSUME Sdr!LoopCentre \/ Sdr!LoopRate \/ Sdr!LoopControl PROVE TellsIt'
  <2>1. /\ pc[Start] = "loop" /\ told' = told
        /\ \/ UNCHANGED <<pc, centerHz, sampleRate, announced>>
           \/ /\ pc'[Start] = "announce"
              /\ val' = [rate |-> sampleRate', centre |-> centerHz', control |-> canControl]
              /\ announced' = centerHz' \/ (announced' = announced /\ centerHz' = centerHz)
    BY <1>0, <1>5 DEF Sdr!LoopCentre, Sdr!LoopRate, Sdr!LoopControl, Sdr!At, Sdr!Goto
  <2> QED
    BY <2>1 DEF TellsIt, Streams
<1>6. ASSUME NEW p \in Movable, NEW q \in Sdr!State, Sdr!Move(p, q) PROVE TellsIt'
  <2>1. UNCHANGED <<pc, centerHz, sampleRate, announced, val, told>>
    BY <1>6 DEF Sdr!Move
  <2> QED
    BY <2>1 DEF TellsIt
<1>7. ASSUME Sdr!Serve \/ Sdr!Drop \/ UNCHANGED Sdr!vars PROVE TellsIt'
  <2>1. UNCHANGED <<pc, centerHz, sampleRate, announced, val, told>>
    BY <1>7 DEF Sdr!Serve, Sdr!Drop, Sdr!vars
  <2> QED
    BY <2>1 DEF TellsIt
<1> QED
  BY <1>1, <1>2, <1>3, <1>4, <1>5, <1>6, <1>7 DEF Sdr!Next, Sdr!Source, Sdr!Environment

(* Where no Bridge tunes, the hub comes to rest at the rate and the centre  *)
(* that SDRConnect applied, whether or not settle waited for its answers,   *)
(* through drops, late handshakes and changes others make.                  *)
THEOREM SdrFollowed == ASSUME Sdr!ConstantsOK, Tuner = {} PROVE Sdr!Spec => []Sdr!Followed
<1>1. Sdr!Init => CentreKnown /\ TellsIt
  BY DEF Sdr!ConstantsOK, Sdr!Init, CentreKnown, TellsIt, Streams
<1>2. /\ SdrTyped /\ SdrTyped' /\ SdrTells /\ CentreKnown /\ TellsIt /\ [Sdr!Next]_Sdr!vars
      => (CentreKnown /\ TellsIt)'
  BY SdrSourceKinds, SdrOtherKinds, CentreStep, TellsItStep DEF Sdr!Next
<1>3. RateKnown /\ CentreKnown /\ TellsIt => Sdr!Followed
  BY DEF Sdr!Followed, Sdr!Quiet, Sdr!At, RateKnown, CentreKnown, TellsIt, Gathered, NoneOf, Streams
<1> QED
  BY <1>1, <1>2, <1>3, SdrTypedAlways, RateAlways, PTL DEF Sdr!Spec

------------------------------------------------------------------------------
(* The SDRConnect source with readLoops, of a server that keeps giving or   *)
(* refusing control.                                                        *)

(* What Start thinks of control, where it does, is so.                      *)
ControlKnown ==
    /\ canControl => server.control
    /\ Gathered("control") => canControl = server.control
    /\ \A i \in DOMAIN replies : replies[i].of.control = server.control

LEMMA ControlStep ==
    ASSUME Sdr!ConstantsOK, "control" \notin Movable, SdrTyped, ControlKnown, [Sdr!Next]_Sdr!vars
    PROVE  ControlKnown'
<1>0. /\ replies \in Seq(SdrMessage) /\ server \in Sdr!State
      /\ SdrQueueTyped /\ canControl \in BOOLEAN /\ "control" \in Sdr!Prop
      /\ pc \in [Goroutine -> SdrPlace] /\ Start \in Goroutine
      /\ Gathered("control") => canControl = server.control
  BY DEF SdrTyped, SdrQueueTyped, SdrStartTyped, SdrPcTyped, Goroutine, ControlKnown, Sdr!Prop
<1>a. ASSUME Sdr!Read
      PROVE  /\ server' = server /\ Sdr!Message.of.control = server.control
             /\ \A i \in DOMAIN replies' : replies'[i].of.control = server'.control
  <2>1. replies # <<>> /\ replies' = Tail(replies) /\ server' = server /\ Sdr!Message = Head(replies)
    BY <1>0, <1>a, SdrRead
  <2>2. /\ DOMAIN replies = 1..Len(replies) /\ Len(replies) \in Nat \ {0} /\ Head(replies) = replies[1]
        /\ \A i \in DOMAIN Tail(replies) : i + 1 \in DOMAIN replies /\ Tail(replies)[i] = replies[i + 1]
    BY <1>0, <2>1
  <2> QED
    BY <2>1, <2>2 DEF ControlKnown
<1>1. ASSUME Starts, Sdr!Dial PROVE ControlKnown'
  <2>1. server' = server /\ canControl' = canControl /\ ~Gathered("control")'
    BY <1>1 DEF Sdr!Dial, Starts, Gathered, SdrSettles, Streams
  <2> QED
    BY <1>1, <2>1 DEF Starts, ControlKnown
<1>2. ASSUME UNCHANGED <<canControl, server, replies>>, Gathered("control")' => Gathered("control")
      PROVE  ControlKnown'
  BY <1>2 DEF ControlKnown
<1>3. ASSUME Sdr!Gather \/ Sdr!GatherTooLate PROVE ControlKnown'
  <2>1. /\ Sdr!Read
        /\ canControl' = IF Sdr!Message.prop = "control" THEN Sdr!Message.of.control ELSE canControl
        /\ \/ have' = have \cup {Sdr!Message.prop} /\ pc' = pc
           \/ have \cup {Sdr!Message.prop} = Sdr!Prop
           \/ have' = {} /\ pc' = [pc EXCEPT ![Start] = "dial"]
        /\ pc[Start] = "gather"
    BY <1>3 DEF Sdr!Gather, Sdr!GatherTooLate, Sdr!Goto, Sdr!At
  <2>2. Gathered("control")' => "control" \in have \/ Sdr!Message.prop = "control"
    BY <1>0, <2>1 DEF Gathered, SdrSettles, Streams
  <2>3. /\ server' = server /\ Sdr!Message.of.control = server.control
        /\ \A i \in DOMAIN replies' : replies'[i].of.control = server'.control
    BY <1>a, <2>1
  <2>4. canControl' => server'.control
    BY <2>1, <2>3 DEF ControlKnown
  <2>5. Gathered("control")' => canControl' = server'.control
    BY <1>0, <2>1, <2>2, <2>3 DEF Gathered
  <2> QED
    BY <2>3, <2>4, <2>5 DEF ControlKnown
<1>4. ASSUME Sdr!Settle \/ Sdr!LoopCentre \/ Sdr!LoopRate \/ Sdr!LoopControl PROVE ControlKnown'
  <2>1. /\ Sdr!Read /\ pc[Start] \in {"settle", "loop"}
        /\ canControl' \in {canControl, Sdr!Message.of.control}
    BY <1>4 DEF Sdr!Settle, Sdr!LoopCentre, Sdr!LoopRate, Sdr!LoopControl, Sdr!At
  <2>2. canControl = server.control
    BY <1>0, <2>1 DEF Gathered, SdrSettles, Streams
  <2>3. /\ server' = server /\ Sdr!Message.of.control = server.control
        /\ \A i \in DOMAIN replies' : replies'[i].of.control = server'.control
    BY <1>a, <2>1
  <2> QED
    BY <2>1, <2>2, <2>3 DEF ControlKnown
<1>5. ASSUME server'.control = server.control, server' \in Sdr!State, UNCHANGED <<canControl, pc, have>>,
             NEW p \in Sdr!Prop, replies' = Append(replies, [prop |-> p, of |-> server'])
      PROVE  ControlKnown'
  <2>1. [prop |-> p, of |-> server'] \in SdrMessage
    BY <1>5 DEF SdrMessage
  <2>2. \A i \in DOMAIN replies' : \/ i \in DOMAIN replies /\ replies'[i] = replies[i]
                                   \/ replies'[i] = [prop |-> p, of |-> server']
    BY <1>0, <1>5, <2>1
  <2>3. \A i \in DOMAIN replies' : replies'[i].of.control = server'.control
    BY <1>5, <2>2 DEF ControlKnown
  <2> QED
    BY <1>5, <2>3 DEF ControlKnown, Gathered
<1>6. ASSUME Sdr!Serve PROVE ControlKnown'
  <2>1. UNCHANGED <<canControl, pc, have>>
    BY <1>6 DEF Sdr!Serve
  <2>2. /\ SdrQueueTyped' /\ Head(inbox) \in SdrCommand
        /\ \/ server' = server /\ replies' = replies
           \/ /\ replies' = Append(replies, [prop |-> Head(inbox).prop, of |-> server'])
              /\ server'.control = server.control
    BY <1>0, <1>6, SdrServed
  <2>3. Head(inbox).prop \in Sdr!Prop /\ server' \in Sdr!State
    BY <2>2 DEF SdrCommand, SdrQueueTyped, Sdr!Prop
  <2>4. Gathered("control")' => Gathered("control")
    BY <2>1 DEF Gathered
  <2> QED
    BY <1>2, <1>5, <2>1, <2>2, <2>3, <2>4
<1>7. ASSUME NEW p \in Movable, NEW q \in Sdr!State, Sdr!Move(p, q) PROVE ControlKnown'
  <2>1. /\ server' = q /\ \A o \in Sdr!Prop \ {p} : q[o] = server[o]
        /\ replies' = IF alive THEN Append(replies, [prop |-> p, of |-> server']) ELSE replies
        /\ UNCHANGED <<canControl, pc, have>>
    BY <1>7 DEF Sdr!Move, Sdr!Report
  <2>2. q["control"] = server["control"] /\ p \in Sdr!Prop
    BY <1>0, <2>1 DEF Sdr!ConstantsOK
  <2>3. q.control = server.control
    BY <1>0, <2>2 DEF Sdr!State
  <2>4. CASE replies' = Append(replies, [prop |-> p, of |-> server'])
    BY <1>5, <2>1, <2>2, <2>3, <2>4
  <2>5. CASE replies' = replies
    BY <2>1, <2>3, <2>5 DEF ControlKnown, Gathered
  <2> QED
    BY <2>1, <2>4, <2>5
<1>8. ASSUME Sdr!Ask \/ Sdr!NarrowRate \/ Sdr!Recentre \/ Sdr!Readback \/ Sdr!SettleEnds
              \/ Sdr!TakeAnnounce \/ Sdr!AnnounceStream \/ Sdr!StartFails
      PROVE  ControlKnown'
  <2>1. UNCHANGED <<canControl, server, replies>> /\ (have' = have \/ have' = {})
        /\ \/ pc'[Start] \in {"gather", "dial"}
           \/ pc[Start] \in SdrSettles \cup Streams
    BY <1>0, <1>8
    DEF Sdr!Ask, Sdr!NarrowRate, Sdr!Recentre, Sdr!Readback, Sdr!SettleEnds, Sdr!TakeAnnounce,
        Sdr!AnnounceStream, Sdr!StartFails, Sdr!Send, Sdr!Goto, Sdr!At, SdrSettles, Streams
  <2>2. Gathered("control")' => Gathered("control")
    BY <2>1 DEF Gathered, SdrSettles, Streams
  <2> QED
    BY <1>2, <2>1, <2>2
<1>9. ASSUME NEW t \in Tuner, Sdr!ReadLoop(t) \/ \E f \in Freq : Sdr!Tune(t, f) PROVE ControlKnown'
  <2>1. /\ pc' = pc \/ \E l \in SdrTunes : pc' = [pc EXCEPT ![t] = l]
        /\ UNCHANGED <<server, replies, canControl, have>>
    BY <1>9
    DEF Sdr!ReadLoop, Sdr!TuneCentre, Sdr!TuneVfo, Sdr!TuneFails, Sdr!Reannounce, Sdr!StoreAnnounce,
        Sdr!Tune, Sdr!Finish, Sdr!Goto, Sdr!Send, SdrTunes
  <2>2. pc'[Start] = pc[Start]
    BY <1>0, <2>1 DEF Sdr!ConstantsOK
  <2> QED
    BY <1>2, <2>1, <2>2 DEF Gathered
<1>10. ASSUME Sdr!Drop \/ UNCHANGED Sdr!vars PROVE ControlKnown'
  <2>1. UNCHANGED <<canControl, server, replies, pc, have>>
    BY <1>10 DEF Sdr!Drop, Sdr!vars
  <2> QED
    BY <1>2, <2>1 DEF Gathered
<1>11. Sdr!Dial => Starts
  BY <1>0 DEF Sdr!Dial, Sdr!At, Sdr!Goto, Starts, SdrTyped, SdrStartTyped
<1> QED
  BY <1>1, <1>3, <1>4, <1>6, <1>7, <1>8, <1>9, <1>10, <1>11
  DEF Sdr!Next, Sdr!Source, Sdr!Environment

(* A queue with another appended, and one without its first.                *)
LEMMA NoneOfJoined ==
    ASSUME NEW q \in Seq(SdrCommand), NEW r \in Seq(SdrCommand), NEW p \in Sdr!Prop,
           NoneOf(q \o r, p)
    PROVE  NoneOf(r, p)
<1> SUFFICES ASSUME NEW i \in DOMAIN r PROVE r[i].prop # p
  BY DEF NoneOf
<1>1. Len(q) + i \in DOMAIN (q \o r) /\ (q \o r)[Len(q) + i] = r[i]
  OBVIOUS
<1> QED
  BY <1>1 DEF NoneOf

LEMMA NoneOfTail ==
    ASSUME NEW q \in Seq(SdrCommand), q # <<>>, NEW p \in Sdr!Prop, NoneOf(Tail(q), p),
           Head(q).prop # p
    PROVE  NoneOf(q, p)
<1>1. /\ DOMAIN q = 1..Len(q) /\ Len(q) \in Nat \ {0} /\ DOMAIN Tail(q) = 1..(Len(q) - 1)
      /\ \A i \in 1..(Len(q) - 1) : Tail(q)[i] = q[i + 1]
      /\ Head(q) = q[1]
  OBVIOUS
<1> SUFFICES ASSUME NEW i \in 1..Len(q), i # 1 PROVE q[i].prop # p
  BY <1>1 DEF NoneOf
<1>2. i - 1 \in 1..(Len(q) - 1) /\ (i - 1) + 1 = i
  BY <1>1
<1> QED
  BY <1>1, <1>2 DEF NoneOf

(* A centre is on its way to the server, or a report of it back.            *)
Underway ==
    \/ ~NoneOf(inbox, "centre")
    \/ ~NoneOf(replies, "centre")
    \/ \E t \in Tuner : pc[t] = "centre"

(* With control and no centre under way, Start has the server's, whatever   *)
(* Tune has pre-set since; after the announce it is in announced.           *)
Settled ==
    /\ pc[Start] \in {"settle", "enable"} => centerHz = server.centre
    /\ pc[Start] \in Streams => announced = server.centre

CentreComes == alive /\ canControl /\ ~Underway => Settled

(* A step that ends no centre's way, and changes nothing it is compared to. *)
LEMMA CentreStays ==
    ASSUME CentreComes, UNCHANGED <<centerHz, announced>>, server'.centre = server.centre,
           pc'[Start] = pc[Start], canControl' => canControl, alive' => alive,
           alive' /\ canControl' /\ Underway => Underway'
    PROVE  CentreComes'
  BY DEF CentreComes, Settled

(* A readLoop sends its centre after it has pre-set it.                     *)
LEMMA CentreReadLoopStep ==
    ASSUME Sdr!ConstantsOK, SdrTyped, CentreComes, NEW t \in Tuner,
           Sdr!ReadLoop(t) \/ \E f \in Freq : Sdr!Tune(t, f)
    PROVE  CentreComes'
<1>0. /\ SdrPcTyped /\ SdrQueueTyped /\ SdrTuneTyped /\ t # Start /\ "centre" \in Sdr!Prop
      /\ inbox \in Seq(SdrCommand)
  BY DEF SdrTyped, SdrQueueTyped, Sdr!ConstantsOK, Sdr!Prop
<1>1. ASSUME NEW l \in SdrTunes, pc' = [pc EXCEPT ![t] = l]
      PROVE  pc'[Start] = pc[Start] /\ pc'[t] = l /\ \A u \in Tuner : u # t => pc'[u] = pc[u]
  BY <1>0, <1>1, SdrTunerGoes
<1>2. CASE Sdr!TuneCentre(t)
  <2> DEFINE cmds == <<Sdr!Set("centre", req[t])>>
  <2>1. pc[t] = "centre" /\ Sdr!Send(cmds) /\ canControl' = canControl
        /\ UNCHANGED <<centerHz, announced>> /\ pc' = [pc EXCEPT ![t] = "vfo"]
    BY <1>2 DEF Sdr!TuneCentre, Sdr!Goto
  <2>2. req[t] \in Freq
    BY <1>0, <2>1 DEF SdrTuneTyped
  <2>3. Sdr!Set("centre", req[t]) \in SdrCommand /\ Sdr!Set("centre", req[t]).prop = "centre"
    BY <2>2 DEF Sdr!Set, SdrCommand
  <2>4. cmds \in Seq(SdrCommand) /\ ~NoneOf(cmds, "centre")
    BY <2>3 DEF NoneOf
  <2> HIDE DEF cmds
  <2>5. UNCHANGED <<alive, server, replies>> /\ inbox' = IF alive THEN inbox \o cmds ELSE inbox
    BY <1>0, <2>1, <2>4, SdrSend
  <2>6. alive => ~NoneOf(inbox', "centre")
    BY <1>0, <2>4, <2>5, NoneOfJoined
  <2> QED
    BY <2>5, <2>6 DEF CentreComes, Underway
<1>3. CASE Sdr!TuneVfo(t) \/ Sdr!Reannounce(t) \/ Sdr!StoreAnnounce(t)
  <2>1. /\ pc[t] # "centre" /\ \E l \in SdrTunes : pc' = [pc EXCEPT ![t] = l]
        /\ UNCHANGED <<alive, server, inbox, replies, centerHz, announced, canControl>>
    BY <1>3 DEF Sdr!TuneVfo, Sdr!Reannounce, Sdr!StoreAnnounce, Sdr!Finish, Sdr!Goto, SdrTunes
  <2>2. pc'[Start] = pc[Start] /\ \A u \in Tuner : u # t => pc'[u] = pc[u]
    BY <1>1, <2>1
  <2>3. Underway => Underway'
    BY <2>1, <2>2 DEF Underway, NoneOf
  <2> QED
    BY <2>1, <2>2, <2>3, CentreStays
<1>4. CASE Sdr!TuneFails(t)
  <2>1. /\ pc' = [pc EXCEPT ![t] = "idle"] /\ alive' = alive
        /\ pc[Start] = "dial" \/ ~alive
    BY <1>4 DEF Sdr!TuneFails, Sdr!Finish, Sdr!Goto, Sdr!At
  <2>2. pc'[Start] = pc[Start]
    BY <1>1, <2>1 DEF SdrTunes
  <2> QED
    BY <2>1, <2>2 DEF CentreComes, Settled, Streams
<1>5. ASSUME NEW f \in Freq, Sdr!Tune(t, f) PROVE CentreComes'
  <2>1. canControl' = canControl
    BY <1>5 DEF Sdr!Tune
  <2>2. canControl => pc' = [pc EXCEPT ![t] = "centre"]
    BY <1>5 DEF Sdr!Tune, Sdr!Goto
  <2>3. canControl => pc'[t] = "centre"
    BY <1>1, <2>2 DEF SdrTunes
  <2> QED
    BY <2>1, <2>3 DEF CentreComes, Underway
<1> QED
  BY <1>2, <1>3, <1>4, <1>5 DEF Sdr!ReadLoop

(* Start asks for the centre before it settles, and takes the last report.  *)
LEMMA CentreSourceStep ==
    ASSUME Sdr!ConstantsOK, SdrTyped, SdrTells, ControlKnown, CentreComes, Sdr!Source
    PROVE  CentreComes'
<1>0. /\ SdrPcTyped /\ SdrQueueTyped /\ Start \in Goroutine /\ "centre" \in Sdr!Prop
      /\ inbox \in Seq(SdrCommand) /\ replies \in Seq(SdrMessage) /\ server \in Sdr!State
      /\ server.centre \in Rate \cup Freq
  BY SdrFields DEF SdrTyped, SdrQueueTyped, Sdr!Prop, Goroutine
<1>1. ASSUME NEW l \in SdrPlace, l \notin SdrTunes, pc' = [pc EXCEPT ![Start] = l]
      PROVE  pc'[Start] = l /\ \A t \in Tuner : pc'[t] = pc[t]
  BY <1>0, <1>1, SdrStartGoes
<1>2. ASSUME Sdr!Dial \/ Sdr!Ask \/ Sdr!GatherTooLate \/ Sdr!NarrowRate \/ Sdr!Recentre \/ Sdr!StartFails
      PROVE  CentreComes'
  <2>1. pc'[Start] \in {"ask", "gather", "dial", "recentre", "readback"}
    BY <1>0, <1>2
    DEF Sdr!Dial, Sdr!Ask, Sdr!GatherTooLate, Sdr!NarrowRate, Sdr!Recentre, Sdr!StartFails, Sdr!Goto,
        SdrPcTyped
  <2> QED
    BY <2>1 DEF CentreComes, Settled, Streams
<1>3. ASSUME Sdr!Gather PROVE CentreComes'
  <2>1. pc'[Start] \in {"gather", "narrow"} \/ (pc'[Start] = "enable" /\ ~canControl')
    BY <1>0, <1>3 DEF Sdr!Gather, Sdr!Goto, Sdr!At, SdrPcTyped
  <2> QED
    BY <2>1 DEF CentreComes, Settled, Streams
<1>4. ASSUME Sdr!Readback PROVE CentreComes'
  <2> DEFINE cmds == <<Sdr!Get("rate"), Sdr!Get("centre")>>
  <2>1. Sdr!Send(cmds)
    BY <1>4 DEF Sdr!Readback
  <2>2. Sdr!Get("rate") \in SdrCommand /\ Sdr!Get("centre") \in SdrCommand
        /\ Sdr!Get("centre").prop = "centre"
    BY DEF Sdr!Get, SdrCommand, Sdr!Prop
  <2>3. cmds \in Seq(SdrCommand) /\ 2 \in DOMAIN cmds /\ cmds[2] = Sdr!Get("centre")
    BY <2>2
  <2>4. ~NoneOf(cmds, "centre")
    BY <2>2, <2>3 DEF NoneOf
  <2> HIDE DEF cmds
  <2>5. alive' = alive /\ inbox' = IF alive THEN inbox \o cmds ELSE inbox
    BY <1>0, <2>1, <2>3, SdrSend
  <2>6. alive => ~NoneOf(inbox', "centre")
    BY <1>0, <2>3, <2>4, <2>5, NoneOfJoined
  <2> QED
    BY <2>5, <2>6 DEF CentreComes, Underway
<1>5. ASSUME Sdr!Read, alive, canControl, NoneOf(replies', "centre"), ~Underway',
             pc' = pc \/ Sdr!Goto(Start, "announce"), pc[Start] \in {"settle"} \cup Streams
      PROVE  /\ server' = server
             /\ Sdr!Message.prop = "centre" => Sdr!Message.of.centre = server.centre
             /\ Sdr!Message.prop # "centre" => Settled
  <2>1. /\ UNCHANGED <<alive, server, inbox>>
        /\ replies # <<>> /\ replies' = Tail(replies)
        /\ Sdr!Message \in SdrMessage /\ Sdr!Message = Head(replies)
    BY <1>0, <1>5, SdrRead
  <2>2. Tells(replies, "centre", server.centre)
    BY <1>5 DEF SdrTells
  <2>3. \/ Head(replies).prop = "centre" /\ Head(replies).of["centre"] = server.centre
        \/ NoneOf(replies, "centre")
    BY <1>0, <1>5, <2>1, <2>2, TellsTail
  <2>4. Head(replies).of["centre"] = Head(replies).of.centre
    BY <2>1, SdrFields DEF SdrMessage
  <2>5. NoneOf(replies, "centre") => Head(replies).prop # "centre"
    <3>1. 1 \in DOMAIN replies /\ Head(replies) = replies[1]
      BY <1>0, <2>1
    <3> QED
      BY <3>1 DEF NoneOf
  <2>6. \A t \in Tuner : pc'[t] = pc[t]
    BY <1>1, <1>5 DEF Sdr!Goto, SdrPlace, SdrTunes, Streams
  <2>7. NoneOf(replies, "centre") => ~Underway
    BY <1>5, <2>1, <2>6 DEF Underway, NoneOf
  <2> QED
    BY <1>5, <2>1, <2>3, <2>4, <2>5, <2>7 DEF CentreComes
<1>6. ASSUME Sdr!Settle PROVE CentreComes'
  <2>1. /\ Sdr!Read /\ pc[Start] = "settle" /\ UNCHANGED <<pc, canControl>>
        /\ centerHz' = IF Sdr!Message.prop = "centre" THEN Sdr!Message.of.centre ELSE centerHz
    BY <1>6 DEF Sdr!Settle, Sdr!At, Sdr!Apply
  <2>2. alive' = alive
    BY <1>0, <2>1, SdrRead
  <2> SUFFICES ASSUME alive, canControl, ~Underway' PROVE Settled'
    BY <2>1, <2>2 DEF CentreComes
  <2>3. NoneOf(replies', "centre")
    BY DEF Underway, NoneOf
  <2>4. centerHz' = server'.centre
    BY <1>5, <2>1, <2>3 DEF Settled
  <2> QED
    BY <2>1, <2>4 DEF Settled, Streams
<1>7. ASSUME Sdr!LoopCentre \/ Sdr!LoopRate \/ Sdr!LoopControl PROVE CentreComes'
  <2>1. /\ Sdr!Read /\ pc[Start] = "loop"
        /\ pc' = pc \/ Sdr!Goto(Start, "announce")
        /\ announced' = IF Sdr!Message.prop = "centre" THEN Sdr!Message.of.centre ELSE announced
        /\ canControl' \in {canControl, Sdr!Message.of.control}
    BY <1>7 DEF Sdr!LoopCentre, Sdr!LoopRate, Sdr!LoopControl, Sdr!At
  <2>2. alive' = alive /\ Sdr!Message = Head(replies) /\ replies # <<>>
    BY <1>0, <2>1, SdrRead
  <2>3. canControl = server.control /\ Sdr!Message.of.control = server.control
    <3>1. 1 \in DOMAIN replies /\ Head(replies) = replies[1]
      BY <1>0, <2>2
    <3> QED
      BY <2>1, <2>2, <3>1 DEF ControlKnown, Gathered, SdrSettles, Streams
  <2> SUFFICES ASSUME alive, canControl, ~Underway' PROVE Settled'
    BY <2>1, <2>2, <2>3 DEF CentreComes
  <2>4. NoneOf(replies', "centre")
    BY DEF Underway, NoneOf
  <2>5. announced' = server'.centre
    BY <1>5, <2>1, <2>4 DEF Settled, Streams
  <2>6. pc'[Start] \in Streams
    BY <1>1, <2>1 DEF Sdr!Goto, SdrPlace, SdrTunes, Streams
  <2> QED
    BY <2>5, <2>6 DEF Settled, Streams
<1>8. ASSUME Sdr!SettleEnds \/ Sdr!TakeAnnounce \/ Sdr!AnnounceStream PROVE CentreComes'
  <2>1. /\ UNCHANGED <<alive, server, inbox, replies, canControl, centerHz>>
        /\ \/ pc[Start] = "settle" /\ pc' = [pc EXCEPT ![Start] = "enable"]
           \/ pc[Start] = "enable" /\ pc' = [pc EXCEPT ![Start] = "announce"] /\ announced' = centerHz
           \/ pc[Start] = "announce" /\ pc' = [pc EXCEPT ![Start] = "loop"] /\ announced' = announced
    BY <1>8 DEF Sdr!SettleEnds, Sdr!TakeAnnounce, Sdr!AnnounceStream, Sdr!At, Sdr!Goto
  <2>2. /\ \A t \in Tuner : pc'[t] = pc[t]
        /\ \/ pc[Start] = "settle" /\ pc'[Start] = "enable"
           \/ pc[Start] = "enable" /\ pc'[Start] = "announce" /\ announced' = centerHz
           \/ pc[Start] = "announce" /\ pc'[Start] = "loop" /\ announced' = announced
    BY <1>1, <2>1 DEF SdrPlace, SdrSettles, SdrTunes, Streams
  <2>3. Underway => Underway'
    BY <2>1, <2>2 DEF Underway, NoneOf
  <2>4. Settled => Settled'
    BY <2>1, <2>2 DEF Settled, Streams
  <2> QED
    BY <2>1, <2>3, <2>4 DEF CentreComes
<1> QED
  BY <1>2, <1>3, <1>4, <1>6, <1>7, <1>8 DEF Sdr!Source

(* The server answers a command for the centre, and reports its changes.    *)
LEMMA CentreServerStep ==
    ASSUME Sdr!ConstantsOK, SdrTyped, ControlKnown, CentreComes,
           \/ Sdr!Serve \/ Sdr!Drop \/ (\E p \in Movable, q \in Sdr!State : Sdr!Move(p, q))
           \/ UNCHANGED Sdr!vars
    PROVE  CentreComes'
<1>0. /\ SdrQueueTyped /\ "centre" \in Sdr!Prop /\ Movable \subseteq Sdr!Prop
      /\ inbox \in Seq(SdrCommand) /\ replies \in Seq(SdrMessage) /\ server \in Sdr!State
      /\ server.centre \in Rate \cup Freq
  BY SdrFields DEF SdrTyped, SdrQueueTyped, Sdr!Prop, Sdr!ConstantsOK
<1>1. ASSUME NEW p \in Sdr!Prop, NEW q \in Sdr!State,
             NoneOf(Append(replies, [prop |-> p, of |-> q]), "centre")
      PROVE  NoneOf(replies, "centre") /\ p # "centre"
  <2>1. DOMAIN Append(replies, [prop |-> p, of |-> q]) = 1..(Len(replies) + 1)
        /\ Append(replies, [prop |-> p, of |-> q])[Len(replies) + 1] = [prop |-> p, of |-> q]
        /\ DOMAIN replies = 1..Len(replies) /\ Len(replies) \in Nat
        /\ \A i \in DOMAIN replies : Append(replies, [prop |-> p, of |-> q])[i] = replies[i]
    BY <1>0
  <2> QED
    BY <1>1, <2>1 DEF NoneOf
<1>2. CASE Sdr!Serve
  <2>1. UNCHANGED <<pc, alive, centerHz, announced, canControl>>
    BY <1>2 DEF Sdr!Serve
  <2>2. /\ inbox # <<>> /\ inbox' = Tail(inbox) /\ Head(inbox) \in SdrCommand /\ SdrQueueTyped'
        /\ \/ ~server.control /\ server' = server
           \/ /\ replies' = Append(replies, [prop |-> Head(inbox).prop, of |-> server'])
              /\ Head(inbox).prop # "centre" => server'.centre = server.centre
    BY <1>0, <1>2, SdrServed
  <2>3. Head(inbox).prop \in Sdr!Prop /\ server' \in Sdr!State
    BY <2>2 DEF SdrCommand, SdrQueueTyped, Sdr!Prop
  <2> SUFFICES ASSUME alive, canControl, ~Underway' PROVE Settled'
    BY <2>1 DEF CentreComes
  <2>4. server.control
    BY DEF ControlKnown
  <2>5. NoneOf(replies', "centre") /\ NoneOf(Tail(inbox), "centre")
    BY <2>2 DEF Underway, NoneOf
  <2>6. NoneOf(replies, "centre") /\ Head(inbox).prop # "centre"
    BY <1>1, <2>2, <2>3, <2>4, <2>5
  <2>7. NoneOf(inbox, "centre")
    BY <1>0, <2>2, <2>5, <2>6, NoneOfTail
  <2>8. ~Underway
    BY <2>1, <2>6, <2>7 DEF Underway
  <2>9. server'.centre = server.centre
    BY <2>2, <2>6
  <2> QED
    BY <2>1, <2>8, <2>9 DEF CentreComes, Settled
<1>3. ASSUME NEW p \in Movable, NEW q \in Sdr!State, Sdr!Move(p, q) PROVE CentreComes'
  <2>1. /\ server' = q /\ \A o \in Sdr!Prop \ {p} : q[o] = server[o]
        /\ replies' = IF alive THEN Append(replies, [prop |-> p, of |-> q]) ELSE replies
        /\ UNCHANGED <<pc, alive, inbox, centerHz, announced, canControl>>
    BY <1>3 DEF Sdr!Move, Sdr!Report
  <2> SUFFICES ASSUME alive, canControl, ~Underway' PROVE Settled'
    BY <2>1 DEF CentreComes
  <2>2. NoneOf(replies', "centre") /\ NoneOf(inbox, "centre") /\ \A t \in Tuner : pc[t] # "centre"
    BY <2>1 DEF Underway, NoneOf
  <2>3. NoneOf(replies, "centre") /\ p # "centre"
    BY <1>0, <1>1, <2>1, <2>2
  <2>4. q["centre"] = server["centre"]
    BY <1>0, <2>1, <2>3
  <2>5. server'.centre = server.centre
    BY <1>0, <2>1, <2>4, SdrFields
  <2>6. ~Underway
    BY <2>2, <2>3 DEF Underway
  <2> QED
    BY <2>1, <2>5, <2>6 DEF CentreComes, Settled
<1>4. CASE Sdr!Drop
  BY <1>4 DEF Sdr!Drop, CentreComes
<1>5. CASE UNCHANGED Sdr!vars
  <2>1. UNCHANGED <<pc, alive, server, inbox, replies, centerHz, announced, canControl>>
    BY <1>5 DEF Sdr!vars
  <2> QED
    BY <2>1 DEF CentreComes, Settled, Underway, NoneOf
<1> QED
  BY <1>2, <1>3, <1>4, <1>5

(* While nobody takes or gives control, a Start that may tune comes to rest *)
(* at the server's centre and rate: neither the centre that any readLoop    *)
(* pre-sets, nor moves, drops and late handshakes hide the server's report. *)
THEOREM SdrStartKnows ==
    ASSUME Sdr!ConstantsOK, "control" \notin Movable
    PROVE  Sdr!Spec => []Sdr!StartKnows
<1>1. Sdr!Init => ControlKnown /\ CentreComes
  BY DEF Sdr!ConstantsOK, Sdr!Init, ControlKnown, CentreComes, Gathered, SdrSettles, Streams
<1>2. SdrTyped /\ SdrTells /\ ControlKnown /\ CentreComes /\ [Sdr!Next]_Sdr!vars
      => (ControlKnown /\ CentreComes)'
  BY ControlStep, CentreSourceStep, CentreReadLoopStep, CentreServerStep
  DEF Sdr!Next, Sdr!Environment
<1>3. RateKnown /\ CentreComes => Sdr!StartKnows
  BY DEF RateKnown, CentreComes, Settled, Underway, NoneOf, Gathered, Streams, Sdr!StartKnows,
         Sdr!Quiet, Sdr!At
<1> QED
  BY <1>1, <1>2, <1>3, SdrTypedAlways, RateAlways, PTL DEF Sdr!Spec

=============================================================================
