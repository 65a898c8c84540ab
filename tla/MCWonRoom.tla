----------------------------- MODULE MCWonRoom -----------------------------
(* Instances of WonRoom for TLC. *)
EXTENDS WonRoom, TLC

CONSTANTS c1, c2, c3, r1, r2, player

TwoConns   == {c1, c2}
OneRoom    == {r1}
TwoRooms   == {r1, r2}

(* Two launchers with the default profile, and one whose profile already   *)
(* carries the suffix the server would hand out.                           *)
Bases  == {player}
Plain    == {<<player>>}
Suffixed == {<<player>>, <<player, 2>>}

Symmetry == Permutations(Conn)
=============================================================================
