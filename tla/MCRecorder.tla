----------------------------- MODULE MCRecorder -----------------------------
(* TLC instance of Recorder for one recording and one retune.               *)
EXTENDS Recorder, TLC

CONSTANTS a, b, pi1, pi2

TwoFrequencies == {a, b}
BothChannels   == <<a, b>>
Stations       == (a :> pi1) @@ (b :> pi2)
OneRecording   == {[samples |-> 5, tunes |-> 1, presses |-> 1, records |-> 1, scans |-> 0,
                    lapses |-> 0, drops |-> 0]}
=============================================================================
