-------------------------------- MODULE Files --------------------------------
(***************************************************************************)
(* The WAV files that the page writes (index.html, 0.11), whatever asked   *)
(* for one: a recording, a save of the pre-roll or a clip of the band      *)
(* scan.                                                                   *)
(*                                                                         *)
(* A sample is its number in heard, which says at which frequency it was   *)
(* produced; 0 is the silence of a new buffer.                             *)
(***************************************************************************)
EXTENDS Integers, Sequences

VARIABLES
    heard,     \* ghost: the frequency of every sample, None for a gap
    faults     \* ghost: what is wrong with a file that was written

(* A file of samples s is a run of them as they were heard; and all of it   *)
(* was heard at hz.                                                         *)
Unbroken(s)    == \A i \in 1..(Len(s) - 1) : s[i + 1] = s[i] + 1
HeardAt(s, hz) == \A i \in DOMAIN s : s[i] # 0 /\ heard[s[i]] = hz

(* A file is written; more is what else is wrong with it.                   *)
Wav(s, more) == faults' = faults \cup more \cup (IF Unbroken(s) THEN {} ELSE {"broken"})

------------------------------------------------------------------------------
(* Properties.                                                              *)

(* A file, whatever asked for it, is a run of samples as they were heard:   *)
(* none is missing, repeated or out of order, across the end of the ring,   *)
(* from the pre-roll to what is recorded after the press, and past retunes, *)
(* switched-off audio and lost connections.                                 *)
FilesUnbroken == "broken" \notin faults

(* A clip holds only what was heard on the channel in its name, unless      *)
(* somebody else tuned while the scan was there.                            *)
ClipsNamed == "misnamed" \notin faults
=============================================================================
