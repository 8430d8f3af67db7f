---------------------------- MODULE MCDidResolver ---------------------------
(* Model-checking instances of DidResolver. *)
EXTENDS DidResolver, TLC

(* The callers are interchangeable. *)
Symmetry == Permutations(Call)
=============================================================================
