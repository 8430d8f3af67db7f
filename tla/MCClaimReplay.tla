---------------------------- MODULE MCClaimReplay ---------------------------
(* Model-checking instance of ClaimReplay: a claim that is presented again    *)
(* and again, a delegated one and another under the same key, one with the    *)
(* first one's nonce under another key and a reversed interval, one with a    *)
(* forged signature, and one whose interval is too long.                      *)
EXTENDS ClaimReplayInvariant, TLC

MCClaim ==
    LET C(k, n, i, e, d, s) ==
            [issuer |-> "did", key |-> k, nonce |-> n, iat |-> i, exp |-> e,
             wellFormed |-> TRUE, signed |-> s, delegated |-> d]
    IN  {C("k1", "n1", 1, 2, FALSE, TRUE), C("k1", "n2", 2, 3, TRUE, TRUE),
         C("k1", "n3", 1, 2, FALSE, TRUE),
         C("k2", "n1", 2, 1, FALSE, TRUE), C("k2", "n2", 1, 2, FALSE, FALSE),
         C("k2", "n2", 1, 3, FALSE, TRUE)}

(* The calls are interchangeable. *)
Symmetry == Permutations(Request)
=============================================================================
