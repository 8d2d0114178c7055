---------------------------- MODULE MCIqSources ----------------------------
(***************************************************************************)
(* The TLC instance of the three IQ sources.  A helper is launched with    *)
(* one of them (helper/config.go, buildIQSource), so the instance is their *)
(* disjoint union: setting says which source runs, and in what company.    *)
(* The variables of one module are those of the others where the names are *)
(* the same; those that a setting does not use stay as they are.           *)
(*                                                                         *)
(* pickDecimation is a setting of its own: Start of a SpyServer calls it   *)
(* before anything else can happen.                                        *)
(***************************************************************************)
EXTENDS Decimation, Sequences, TLC

CONSTANTS
    t1,      \* a Bridge that tunes
    source,  \* the source goroutine
    None

VARIABLES
    setting,
    pc, conn, alive, centerHz, told, used, req,   \* every source
    canControl, announced, server, val,           \* some of them
    half, wire, garbled, syncs,                   \* SpyServer
    sampleRate, have, last, inbox, replies,       \* SDRconnect
    swapped, freq, tpc, via, denied, raced        \* rtl_tcp

pickVars == <<maxRate, stages, d, rate, best, found, picked, done>>
allVars  == <<pc, conn, alive, centerHz, told, used, req>>
someVars == <<canControl, announced, server, val>>
spyVars  == <<half, wire, garbled, syncs>>
sdrVars  == <<sampleRate, have, last, inbox, replies>>
rtlVars  == <<swapped, freq, tpc, via, denied, raced>>

(* What a setting does not use.                                             *)
NoPick   == Init /\ maxRate = Target /\ stages = 0
NoSpy    == half = None /\ wire = None /\ garbled = None /\ syncs = None
NoSdr    == sampleRate = None /\ have = None /\ last = None /\ inbox = None /\ replies = None
NoRtl    == swapped = None /\ freq = None /\ tpc = None /\ via = None /\ denied = None /\ raced = None
NoServer == canControl = None /\ announced = None /\ server = None
NoSource ==
    /\ pc = None /\ conn = None /\ alive = None /\ centerHz = None
    /\ told = None /\ used = None /\ req = None /\ val = None
    /\ NoServer /\ NoSpy /\ NoSdr /\ NoRtl

(* Device rates on both sides of the target and of its doubles, and those   *)
(* of the unit test; up to nine stages.                                     *)
DeviceRates == {1, 100000, 249999, 250000, 250001, 384000, 499999, 500000, 500001,
                768000, 912000, 999999, 1000000, 2400000, 8000000, 10000000, 64000000}
StageCounts == 0..9

(* One Bridge, three tunes, two drops.                                      *)
Rtl == INSTANCE RtlTcp
    WITH Tuner <- {t1}, Freq <- {98, 104, 106}, Initial <- 98, MaxTunes <- 3, MaxDrops <- 2

(* Nobody tunes a server that moves, and gives and takes control.           *)
SpyAlone == INSTANCE SpyServer
    WITH Start <- source, Tuner <- {}, Freq <- {98, 104, 106}, Initial <- 98,
         Confirms <- FALSE, MaxTunes <- 0, MaxMoves <- 3, MaxDrops <- 2

(* One Bridge tunes a server that reports what it does.                     *)
SpyTuned == INSTANCE SpyServer
    WITH Start <- source, Tuner <- {t1}, Freq <- {98, 104}, Initial <- 98,
         Confirms <- TRUE, MaxTunes <- 2, MaxMoves <- 1, MaxDrops <- 1

(* Nobody tunes; the owner changes any property, the handshake may be late. *)
SdrAlone == INSTANCE SdrConnect
    WITH Start <- source, Tuner <- {}, Freq <- {98, 104}, Rate <- {250, 500}, Target <- 250,
         Initial <- 98, Movable <- {"control", "rate", "centre"},
         MaxTunes <- 0, MaxMoves <- 2, MaxDrops <- 1, MaxLate <- 1

(* One Bridge tunes, and the owner changes rate and centre.                 *)
SdrTuned == INSTANCE SdrConnect
    WITH Start <- source, Tuner <- {t1}, Freq <- {98, 104}, Rate <- {250, 500}, Target <- 250,
         Initial <- 98, Movable <- {"rate", "centre"},
         MaxTunes <- 1, MaxMoves <- 1, MaxDrops <- 1, MaxLate <- 0

ASSUME SourceConstantsOK ==
    /\ Rtl!ConstantsOK
    /\ SpyAlone!ConstantsOK /\ SpyTuned!ConstantsOK
    /\ SdrAlone!ConstantsOK /\ SdrTuned!ConstantsOK

------------------------------------------------------------------------------
SourceInit ==
    \/ /\ setting = "rtl_tcp"
       /\ Rtl!Init
       /\ NoServer /\ NoSpy /\ NoSdr
    \/ /\ setting \in {"spyserver", "spyserver tuned"}
       /\ IF setting = "spyserver" THEN SpyAlone!Init ELSE SpyTuned!Init
       /\ val = None /\ NoSdr /\ NoRtl
    \/ /\ setting \in {"sdrconnect", "sdrconnect tuned"}
       /\ IF setting = "sdrconnect" THEN SdrAlone!Init ELSE SdrTuned!Init
       /\ conn = None /\ NoSpy /\ NoRtl

MCInit ==
    \/ setting = "pick" /\ Init /\ NoSource
    \/ SourceInit /\ NoPick

SourceNext ==
    \/ /\ setting = "rtl_tcp"
       /\ Rtl!Next
       /\ UNCHANGED <<canControl, announced, server, spyVars, sdrVars>>
    \/ /\ setting = "spyserver"
       /\ SpyAlone!Next
       /\ UNCHANGED <<val, sdrVars, rtlVars>>
    \/ /\ setting = "spyserver tuned"
       /\ SpyTuned!Next
       /\ UNCHANGED <<val, sdrVars, rtlVars>>
    \/ /\ setting = "sdrconnect"
       /\ SdrAlone!Next
       /\ UNCHANGED <<conn, spyVars, rtlVars>>
    \/ /\ setting = "sdrconnect tuned"
       /\ SdrTuned!Next
       /\ UNCHANGED <<conn, spyVars, rtlVars>>

MCNext ==
    /\ UNCHANGED setting
    /\ \/ /\ setting = "pick"
          /\ Next
          /\ UNCHANGED <<allVars, someVars, spyVars, sdrVars, rtlVars>>
       \/ SourceNext /\ UNCHANGED pickVars

MCSpec == MCInit /\ [][MCNext]_<<setting, pickVars, allVars, someVars, spyVars, sdrVars, rtlVars>>

------------------------------------------------------------------------------
(* The properties of the modules, where they apply.                         *)

(* Every variable of the source that runs has its type.                     *)
TypeOK ==
    /\ setting = "rtl_tcp"          => Rtl!TypeOK
    /\ setting = "spyserver"        => SpyAlone!TypeOK
    /\ setting = "spyserver tuned"  => SpyTuned!TypeOK
    /\ setting = "sdrconnect"       => SdrAlone!TypeOK
    /\ setting = "sdrconnect tuned" => SdrTuned!TypeOK

(* At rest the hub's announce, the source's struct and the device agree:    *)
(* - rtltcp.go: whatever tunes, failed writes and redials came before,      *)
(*   unless a tune fell into Start's set-up;                                *)
(* - spyserver.go: a read-only server that moves by itself is followed      *)
(*   through drops and redials;                                             *)
(* - sdrconnect.go: rate and centre are those that SDRconnect applied,      *)
(*   however late it answers.                                               *)
SourceFollowed ==
    /\ setting = "rtl_tcp"    => Rtl!HonestOutsideStart
    /\ setting = "spyserver"  => SpyAlone!Followed
    /\ setting = "sdrconnect" => SdrAlone!Followed

(* spyserver.go, sdrconnect.go: the centre that Tune sets in advance never  *)
(* hides from Start what the server reports.                                *)
StartKnows ==
    /\ setting = "spyserver tuned"  => SpyTuned!StartKnows
    /\ setting = "sdrconnect tuned" => SdrTuned!StartKnows
=============================================================================
