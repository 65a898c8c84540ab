----------------------------- MODULE MCCDWorker -----------------------------
(* Instances of CDWorker: a disc of two or three tracks, and a remap that  *)
(* moves every track one up.                                               *)
EXTENDS CDWorker
TwoTracks == {1, 2}
Shifted == {[t \in Track |-> IF t + 1 \in Track THEN t + 1 ELSE NoTrack]}
=============================================================================
