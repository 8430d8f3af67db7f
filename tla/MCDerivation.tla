---------------------------- MODULE MCDerivation ----------------------------
(* A model-checking instance of Derivation. *)
EXTENDS Derivation

CONSTANTS s1, s2, u

(* Grants by each principal, one of a service to itself, a receipt made out   *)
(* to another, and an entry that states more than its receipt.  A hop is      *)
(* honest behind its own signer and a forgery behind any other principal.     *)
Grant(p, q, caps) ==
    [signer |-> p, to |-> q, recipient |-> q, stated |-> caps, granted |-> caps]

MCHop ==
    {Grant(u, s1, Cap), Grant(s1, s2, Cap), Grant(s1, s2, {}), Grant(s2, s1, Cap),
     Grant(s2, s2, Cap), [Grant(s1, s2, Cap) EXCEPT !.recipient = s1],
     [Grant(s2, s1, Cap) EXCEPT !.granted = {}]}

(* A declaration in each direction, one of them not valid at first and over   *)
(* before the clock is, and one that nobody's trust root signed.              *)
MCDeclaration ==
    {[from |-> <<s1, 0>>, to |-> <<s2, 0>>, capabilities |-> Cap,
      iat |-> 1, exp |-> 2, root |-> "ours"],
     [from |-> <<s2, 0>>, to |-> <<s1, 0>>, capabilities |-> {},
      iat |-> 0, exp |-> 2, root |-> "ours"],
     [from |-> <<s1, 0>>, to |-> <<s2, 0>>, capabilities |-> Cap,
      iat |-> 0, exp |-> 2, root |-> "unknown"]}
=============================================================================
