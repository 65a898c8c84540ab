----------------------------- MODULE MCRoomChat ----------------------------
(* Instances of RoomChat for TLC. *)
EXTENDS RoomChat, TLC

CONSTANTS c1, c2, c3, r1, r2, player

TwoConns   == {c1, c2}
ThreeConns == {c1, c2, c3}
OneRoom    == {r1}
TwoRooms   == {r1, r2}
Bases      == {player}
Plain      == {<<player>>}

Symmetry == Permutations(Conn)
=============================================================================
