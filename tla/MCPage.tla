------------------------------- MODULE MCPage -------------------------------
(***************************************************************************)
(* The TLC instance of the Bridge page: setting says whether its network   *)
(* SDR lane is looked at (PageIq), or its recorder (Recorder).  The        *)
(* variables of the other do not change.                                   *)
(*                                                                         *)
(* The lane has three sockets: it can be connected, given a new connection *)
(* and left before the close events of both have come.  Frequencies 0 and  *)
(* 1 are within one span, 9 is beyond it.                                  *)
(***************************************************************************)
EXTENDS PageIq, Files, TLC

CONSTANTS s1, s2, s3, a, b, pi1, pi2

ThreeSockets == {s1, s2, s3}
Frequencies  == {0, 1, 9}
Symmetry     == Permutations(Socket)

Events(n, t, p, r, s, l, d) ==
    [samples |-> n, tunes |-> t, presses |-> p, records |-> r, scans |-> s, lapses |-> l,
     drops |-> d]

(* Recordings and saves around a retune, or around a lost connection.       *)
Recording == {Events(6, 1, 2, 2, 0, 0, 0), Events(5, 0, 2, 1, 0, 0, 1)}

(* A scan while the user tunes, presses a button or records after it, while *)
(* the folder or the connection is lost, and a second scan.                 *)
Scanning ==
    {Events(4, 1, 0, 0, 1, 0, 0), Events(4, 0, 1, 0, 1, 1, 0), Events(3, 0, 1, 1, 1, 0, 0),
     Events(4, 0, 0, 0, 1, 0, 1), Events(3, 0, 0, 0, 2, 0, 0)}

VARIABLES
    setting,
    open, tunes, radio, echo, vfo, pi, audioOn, silent, preOn, ring, rec, scan, grants,
    allowed, wanted, left   \* Recorder, with those of Files

recorderVars ==
    <<open, tunes, radio, echo, vfo, pi, audioOn, silent, preOn, ring, rec, scan, grants,
      allowed, heard, faults, wanted, left>>
allVars == <<setting, vars, recorderVars>>

(* A ring of three samples and frames of one and two, so that every second  *)
(* frame goes round its end; two channels with a station each.              *)
R == INSTANCE Recorder
    WITH Freq <- {a, b}, Channels <- <<a, b>>, Station <- (a :> pi1) @@ (b :> pi2),
         Cap <- 3, Sizes <- {1, 2}, MinTake <- 1, RecMax <- 5,
         Remembered <- TRUE, SettleCovers <- TRUE, MaxLag <- 1,
         Plan <- Recording \cup Scanning, dial <- vfo, asked <- tunes

ASSUME PageConstantsOK == ConstantsOK /\ R!ConstantsOK

------------------------------------------------------------------------------
(* The variables of the recorder that is not looked at.                     *)
NoRecorder ==
    /\ open = None /\ tunes = None /\ radio = None /\ echo = None /\ vfo = None /\ pi = None
    /\ audioOn = None /\ silent = None /\ preOn = None /\ ring = None /\ rec = None
    /\ scan = None /\ grants = None /\ allowed = None /\ heard = None /\ wanted = None
    /\ left = None /\ faults = {}

MCInit ==
    /\ Init
    /\ \/ setting = "lane" /\ NoRecorder
       \/ setting = "recorder" /\ hub = 0 /\ R!Init

MCNext ==
    /\ UNCHANGED setting
    /\ \/ setting = "lane" /\ Next /\ UNCHANGED recorderVars
       \/ setting = "recorder" /\ R!Next /\ UNCHANGED vars

MCSpec == MCInit /\ [][MCNext]_allVars

------------------------------------------------------------------------------
(* Those of PageIq and Files are checked by their names.                    *)

(* Every variable of the setting looked at has its type, and the recorder   *)
(* holds nothing for nobody.                                                *)
PageTypeOK == IF setting = "lane" THEN TypeOK ELSE R!TypeOK
=============================================================================
