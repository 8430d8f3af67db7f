-------------------------- MODULE MCRotationOracle --------------------------
(* Model-checking instances of RotationOracle. *)
EXTENDS RotationOracle, TLC

(* The threads are interchangeable. *)
Symmetry == Permutations(Thread)
=============================================================================
