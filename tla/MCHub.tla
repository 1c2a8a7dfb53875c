-------------------------------- MODULE MCHub --------------------------------
(* Instances of Hub for TLC. *)
EXTENDS Hub, TLC

(* Viewers are interchangeable; for the runs without liveness
   in which no viewer is singled out as unreliable. *)
ViewerSymmetry == Permutations(Viewers)
=============================================================================
