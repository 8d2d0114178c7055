------------------------------ MODULE MCRtlTcp ------------------------------
(* TLC instances of RtlTcp.                                                 *)
EXTENDS RtlTcp

CONSTANTS t1

OneTuner    == {t1}
Frequencies == {98, 104, 106}
=============================================================================
