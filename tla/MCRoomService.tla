--------------------------- MODULE MCRoomService ---------------------------
(* Instances of RoomService, and of the WonRoom it maps, for TLC. *)
EXTENDS RoomService, TLC

CONSTANTS c1, c2, c3, r1, r2, player

ThreeConns == {c1, c2, c3}
OneRoom    == {r1}
Bases      == {player}

(* Launchers with the default profile, and one whose profile already       *)
(* carries the suffix the server would hand out.                           *)
Suffixed   == {<<player>>, <<player, 2>>}

Symmetry == Permutations(Conn)
=============================================================================
