------------------------------ MODULE MCIngest ------------------------------
(* Instances of Ingest for TLC. *)
EXTENDS Ingest, TLC

(* Sessions and ports are interchangeable; for the runs without liveness. *)
Symmetry == Permutations(Sessions) \cup Permutations(Ports)
=============================================================================
