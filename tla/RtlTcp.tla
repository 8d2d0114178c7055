------------------------------- MODULE RtlTcp -------------------------------
(***************************************************************************)
(* The rtl_tcp source (helper/rtltcp.go) under iqHub.run, which calls      *)
(* Start again after every failure, and under the readLoops, which call    *)
(* Tune and then reannounce.  Of the hub only the centre of its last       *)
(* announce is kept; how announces reach the Bridges is module IqHub.      *)
(*                                                                         *)
(* The r.mu sections and each conn.Write are single steps.  A connection   *)
(* is named by the number of the dial that made it.  The server can drop   *)
(* it at any time; a write before Start has noticed still succeeds, and    *)
(* changes nothing.                                                        *)
(***************************************************************************)
EXTENDS Naturals

CONSTANTS
    Tuner,     \* readLoops that may receive tune requests
    Freq,      \* frequencies
    Initial,   \* the configured centre
    None,
    MaxTunes,  \* bound: tune requests received
    MaxDrops   \* bound: connections the server drops

ConstantsOK ==
    /\ Initial \in Freq
    /\ None \notin Freq
    /\ {MaxTunes, MaxDrops} \subseteq Nat

VARIABLES
    pc,        \* where Start is
    conn,      \* r.conn: the number of the dial, 0 for nil
    centerHz,  \* r.centerHz
    val,       \* what getCenter returned to Start
    alive,     \* the server still holds the connection Start uses
    swapped,   \* the next byte Start reads is a Q, not an I
    freq,      \* the frequency the dongle is really on
    told,      \* the centre of the hub's last announce
    tpc,       \* where each readLoop is
    req,       \* the frequency a readLoop is tuning to
    via,       \* the connection a readLoop's command goes to
    denied,    \* ghost: the last refused request, until one is accepted
    raced,     \* ghost: a tune began between Start's getCenter and announce
    used       \* ghost: events counted against the bounds

startVars == <<pc, conn, val, alive, swapped>>
tuneVars  == <<tpc, req, via>>
ghostVars == <<denied, raced, used>>
vars == <<startVars, centerHz, freq, told, tuneVars, ghostVars>>

------------------------------------------------------------------------------
(* Start.                                                                   *)

(* The dial, the r.mu section that sets r.conn, the RTL0 header and the     *)
(* sample rate.                                                             *)
Dial ==
    /\ pc = "dial"
    /\ pc' = "getcentre"
    /\ conn' = conn + 1
    /\ alive' = TRUE
    /\ swapped' = FALSE
    /\ raced' = FALSE
    /\ UNCHANGED <<val, centerHz, freq, told, tuneVars, denied, used>>

(* r.getCenter() for the set-frequency command.                             *)
GetCentre ==
    /\ pc = "getcentre"
    /\ pc' = "setfreq"
    /\ val' = centerHz
    /\ UNCHANGED <<conn, alive, swapped, centerHz, freq, told, tuneVars, ghostVars>>

(* The rtlSetFreq command, then gain mode and AGC.                          *)
SetFreq ==
    /\ pc = "setfreq"
    /\ pc' = "configured"
    /\ freq' = IF alive THEN val ELSE freq
    /\ val' = None
    /\ UNCHANGED <<conn, alive, swapped, centerHz, told, tuneVars, ghostVars>>

(* r.getCenter() for the announce.                                          *)
GetAnnounced ==
    /\ pc = "configured"
    /\ pc' = "announce"
    /\ val' = centerHz
    /\ UNCHANGED <<conn, alive, swapped, centerHz, freq, told, tuneVars, ghostVars>>

(* onStream: the hub stores the announce.                                   *)
AnnounceStream ==
    /\ pc = "announce"
    /\ pc' = "loop"
    /\ told' = val
    /\ val' = None
    /\ UNCHANGED <<conn, alive, swapped, centerHz, freq, tuneVars, ghostVars>>

(* One readSome of n bytes, n -= n & 1, and the pairs go to onIQ: with an   *)
(* odd n the last byte of buf is not emitted and the next read starts over. *)
ReadSamples ==
    /\ pc = "loop"
    /\ alive
    /\ \E odd \in BOOLEAN : swapped' = IF odd THEN ~swapped ELSE swapped
    /\ UNCHANGED <<pc, conn, val, alive, centerHz, freq, told, tuneVars, ghostVars>>

(* A read or a command fails: Start returns, its conn is closed, and run    *)
(* calls it again after the backoff.  r.conn keeps the closed connection.   *)
StartFails ==
    /\ pc # "dial"
    /\ ~alive
    /\ pc' = "dial"
    /\ val' = None
    /\ UNCHANGED <<conn, alive, swapped, centerHz, freq, told, tuneVars, ghostVars>>

------------------------------------------------------------------------------
(* readLoop: Tune, then reannounce.                                         *)

Configuring == pc \in {"setfreq", "configured", "announce"}

(* Tune: r.centerHz = centerHz under r.mu.                                  *)
Tune(t, f) ==
    /\ tpc[t] = "idle"
    /\ used.tunes < MaxTunes
    /\ used' = [used EXCEPT !.tunes = @ + 1]
    /\ tpc' = [tpc EXCEPT ![t] = "conn"]
    /\ req' = [req EXCEPT ![t] = f]
    /\ centerHz' = f
    /\ raced' = (raced \/ Configuring)
    /\ UNCHANGED <<startVars, freq, told, via, denied>>

(* command: conn := r.conn under r.mu.                                      *)
TakeConn(t) ==
    /\ tpc[t] = "conn"
    /\ tpc' = [tpc EXCEPT ![t] = "write"]
    /\ via' = [via EXCEPT ![t] = conn]
    /\ UNCHANGED <<startVars, centerHz, freq, told, req, ghostVars>>

(* The connection is still open on this side.                               *)
Open(n) == n = conn /\ n # 0 /\ pc # "dial"

(* command: conn.Write succeeds.                                            *)
WriteOk(t) ==
    /\ tpc[t] = "write"
    /\ Open(via[t])
    /\ tpc' = [tpc EXCEPT ![t] = "renew"]
    /\ via' = [via EXCEPT ![t] = 0]
    /\ freq' = IF alive THEN req[t] ELSE freq
    /\ denied' = None
    /\ UNCHANGED <<startVars, centerHz, told, req, raced, used>>

(* Mutant of WriteFails: the readLoop goes on to reannounce.                *)
WriteFailsRenews(t) ==
    /\ tpc[t] = "write"
    /\ ~Open(via[t]) \/ ~alive
    /\ tpc' = [tpc EXCEPT ![t] = "store"]
    /\ via' = [via EXCEPT ![t] = 0]
    /\ req' = [req EXCEPT ![t] = None]
    /\ denied' = req[t]
    /\ UNCHANGED <<startVars, centerHz, freq, told, raced, used>>

(* command: no connection, or a closed one.  The readLoop reports           *)
(* not-controllable.                                                        *)
WriteFails(t) ==
    /\ tpc[t] = "write"
    /\ ~Open(via[t]) \/ ~alive
    /\ tpc' = [tpc EXCEPT ![t] = "idle"]
    /\ via' = [via EXCEPT ![t] = 0]
    /\ req' = [req EXCEPT ![t] = None]
    /\ denied' = req[t]
    /\ UNCHANGED <<startVars, centerHz, freq, told, raced, used>>

(* reannounce: without an announce there is nothing to renew.               *)
Reannounce(t) ==
    /\ tpc[t] = "renew"
    /\ tpc' = [tpc EXCEPT ![t] = IF told = None THEN "idle" ELSE "store"]
    /\ req' = [req EXCEPT ![t] = IF told = None THEN None ELSE @]
    /\ UNCHANGED <<startVars, centerHz, freq, told, via, ghostVars>>

(* reannounce: broadcastStream stores the new centre.                       *)
StoreAnnounce(t) ==
    /\ tpc[t] = "store"
    /\ tpc' = [tpc EXCEPT ![t] = "idle"]
    /\ told' = req[t]
    /\ req' = [req EXCEPT ![t] = None]
    /\ UNCHANGED <<startVars, centerHz, freq, via, ghostVars>>

(* The server or the network drops the connection.                          *)
Drop ==
    /\ alive
    /\ used.drops < MaxDrops
    /\ used' = [used EXCEPT !.drops = @ + 1]
    /\ alive' = FALSE
    /\ UNCHANGED <<pc, conn, val, swapped, centerHz, freq, told, tuneVars, denied, raced>>

------------------------------------------------------------------------------
Init ==
    /\ pc = "dial"
    /\ conn = 0
    /\ centerHz = Initial
    /\ val = None
    /\ alive = FALSE
    /\ swapped = FALSE
    /\ freq \in Freq
    /\ told = None
    /\ tpc = [t \in Tuner |-> "idle"]
    /\ req = [t \in Tuner |-> None]
    /\ via = [t \in Tuner |-> 0]
    /\ denied = None
    /\ raced = FALSE
    /\ used = [tunes |-> 0, drops |-> 0]

Start == Dial \/ GetCentre \/ SetFreq \/ GetAnnounced \/ AnnounceStream \/ StartFails

Control(t) == TakeConn(t) \/ WriteOk(t) \/ WriteFails(t) \/ Reannounce(t) \/ StoreAnnounce(t)

Next ==
    \/ Start
    \/ ReadSamples
    \/ \E t \in Tuner : Control(t) \/ \E f \in Freq : Tune(t, f)
    \/ Drop

Spec == Init /\ [][Next]_vars

------------------------------------------------------------------------------
(* Properties.                                                              *)

(* Every variable has its type, and every local is live only where used.    *)
TypeOK ==
    /\ pc \in {"dial", "getcentre", "setfreq", "configured", "announce", "loop"}
    /\ conn \in 0..(MaxDrops + 1)
    /\ centerHz \in Freq
    /\ val \in Freq \cup {None}
    /\ (val # None) = (pc \in {"setfreq", "announce"})
    /\ alive \in BOOLEAN /\ swapped \in BOOLEAN /\ raced \in BOOLEAN
    /\ freq \in Freq
    /\ told \in Freq \cup {None}
    /\ pc = "loop" => told # None
    /\ tpc \in [Tuner -> {"idle", "conn", "write", "renew", "store"}]
    /\ req \in [Tuner -> Freq \cup {None}]
    /\ \A t \in Tuner : (req[t] = None) = (tpc[t] = "idle")
    /\ via \in [Tuner -> 0..conn]
    /\ denied \in Freq \cup {None}
    /\ used \in [tunes : 0..MaxTunes, drops : 0..MaxDrops]

(* Start streams over a live connection and no readLoop is in a tune.       *)
Quiet == pc = "loop" /\ alive /\ \A t \in Tuner : tpc[t] = "idle"

(* The announced centre is the dongle's, and the centre a redial would set, *)
(* whatever tunes, failed writes, drops and redials came before, unless a   *)
(* tune of this session began while Start was configuring the dongle.       *)
HonestOutsideStart == Quiet /\ ~raced => told = freq /\ freq = centerHz

------------------------------------------------------------------------------
(* What comments say, and the code does not keep.                           *)

(* iqsource.go: Tune is safe to call concurrently with Start.               *)
TuneIsSafe == Quiet => freq = centerHz

(* iqsource.go: Tune returns an error without retuning.                     *)
RefusedStaysRefused == [][freq' # freq => freq' # denied]_vars

(* rtltcp.go: an odd trailing byte is carried to the next round.            *)
PairsAligned == pc = "loop" => ~swapped
=============================================================================
