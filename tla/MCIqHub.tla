------------------------------ MODULE MCIqHub ------------------------------
(* TLC instances of IqHub: the sets and the symmetry of the .cfg files.     *)
EXTENDS IqHub, TLC

CONSTANTS c1, c2, k1, k2, r1, r2

OneClient  == {c1}
TwoClients == {c1, c2}
OneCentre  == {k1}
TwoCentres == {k1, k2}
OneRate    == {r1}
TwoRates   == {r1, r2}

(* Interchangeable values; used for safety only.                            *)
Symmetry == Permutations(TwoClients)

(* The safety run in two halves: up to two tunes and moves while the source *)
(* and the connections stay up, or a source that drops and a connection     *)
(* that fails while nobody tunes.                                           *)
TunesOrOutage ==
    \/ used.tunes + used.moves = 0
    \/ used.tunes + used.moves <= 2 /\ used.drops + used.faults = 0
=============================================================================
