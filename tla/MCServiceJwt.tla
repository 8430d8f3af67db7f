---------------------------- MODULE MCServiceJwt ----------------------------
(* A model-checking instance of ServiceJwt. *)
EXTENDS ServiceJwt, TLC

CONSTANTS own, label, old

MCAlgorithmOf == [k \in {own, label} |-> "ES256K"] @@ (old :> "EdDSA")

(* The fragments, the last two alike in their first 16 bytes. *)
MCPrefix ==
    [atproto |-> "atproto", atproto_label |-> "atproto_label",
     atproto_label_signer |-> "atproto_label_si", atproto_label_signer_2 |-> "atproto_label_si"]

Entry(fragment, key) == [fragment |-> fragment, key |-> key, usable |-> TRUE]

(* The label's key listed before the account's; the account's alone; the      *)
(* account's unusable; and the label's key under two ids that read alike.     *)
MCDocument ==
    {<<Entry("atproto_label", label), Entry("atproto", own)>>,
     <<Entry("atproto", own)>>,
     <<[Entry("atproto", own) EXCEPT !.usable = FALSE], Entry("atproto_label", label)>>,
     <<Entry("atproto_label_signer", label), Entry("atproto_label_signer_2", label),
       Entry("atproto", old)>>}

MCRules ==
    <<<<"atproto_labeler", "atproto_label">>, <<"atproto_labeler_2", "atproto_label_signer_2">>,
      <<"atproto_labeler", "atproto">>>>

Plain ==
    [alg |-> "ES256K", kid |-> None, iss_fragment |-> None, aud |-> "local",
     aud_fragment |-> None, iat |-> 2, exp |-> 3, nbf |-> None, nonce |-> "nonce",
     lxm |-> None]

Labeler == [Plain EXCEPT !.iss_fragment = "atproto_labeler"]

MCRequest ==
    {Plain, Labeler,
     [Labeler EXCEPT !.kid = <<"atproto_label", label>>],
     [Plain EXCEPT !.iss_fragment = "atproto_labeler_2"],
     [Plain EXCEPT !.kid = <<"atproto_label", label>>],
     [Plain EXCEPT !.kid = <<"unheard of", own>>],
     [Plain EXCEPT !.iat = 3, !.exp = 2],
     [Plain EXCEPT !.nbf = 4],
     [Plain EXCEPT !.iat = 0, !.exp = 4],
     [Plain EXCEPT !.iat = 8, !.exp = 9, !.nbf = 10],
     [Plain EXCEPT !.alg = "EdDSA"],
     [Plain EXCEPT !.alg = "none"],
     [Plain EXCEPT !.iss_fragment = ""],
     [Plain EXCEPT !.iss_fragment = "unlisted"],
     [Plain EXCEPT !.aud = "other"],
     [Plain EXCEPT !.nonce = None]}
=============================================================================
