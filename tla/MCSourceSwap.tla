---------------------------- MODULE MCSourceSwap ----------------------------
(* The TLC instance of a swap between two rigctld servers.                  *)
EXTENDS SourceSwap

CONSTANTS p1, boot, poll, com, a1, a2

OnePost   == {p1}
NoSteer   == {}
OnePort   == {com}
TwoAddr   == {a1, a2}
RigBodies == {[source |-> "rigctld", port |-> None, addr |-> a2]}
Defaults  == [source |-> "serial", port |-> None, addr |-> a1]
=============================================================================
