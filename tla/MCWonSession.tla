---------------------------- MODULE MCWonSession ----------------------------
(* Instances of WonSession for TLC. *)
EXTENDS WonSession, TLC

CONSTANTS c1, c2, c3

ThreeConns == {c1, c2, c3}

Symmetry == Permutations(Conn)
=============================================================================
