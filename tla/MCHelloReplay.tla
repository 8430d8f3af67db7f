---------------------------- MODULE MCHelloReplay ---------------------------
(* A model-checking instance of HelloReplay. *)
EXTENDS HelloReplay, TLC

CONSTANTS n1, n2, n3

Valid(n, t) == [initiator |-> "i", nonce |-> n, at |-> t,
                wellFormed |-> TRUE, sameMajor |-> TRUE, signed |-> TRUE]

(* Three hellos, a second use of the first one's nonce once the window is     *)
(* over, and a forgery of the first one.                                      *)
MCHello ==
    {Valid(n1, 1), Valid(n2, 1), Valid(n3, 2), Valid(n1, 4),
     [Valid(n1, 1) EXCEPT !.signed = FALSE]}

(* The calls are interchangeable. *)
Symmetry == Permutations(Request)
=============================================================================
