----------------------------- MODULE MCWonWorld ----------------------------
(* Instances of WonWorld for TLC. *)
EXTENDS WonWorld, TLC

CONSTANTS w1, w2, lobby, den, cave, loft

TwoWorkers == {w1, w2}
Lobby      == <<[name |-> lobby, port |-> 27015, players |-> 24]>>
Ports      == <<27100, 27101>>
FourNames  == {lobby, den, cave, loft}
HeldPort   == {27101}

Symmetry == Permutations(Worker)
=============================================================================
