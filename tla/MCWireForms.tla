----------------------------- MODULE MCWireForms -----------------------------
(* A model-checking instance of WireForms. *)
EXTENDS WireForms

CONSTANTS alice, bob, notADid, ka, kb, root

MCClassOf == <<"user", "channel", "substrate">>

A == [did |-> alice, key |-> ka, evidence |-> TRUE]
B == [did |-> bob, key |-> kb, evidence |-> FALSE]

AHop == [granted |-> {1, 2}, at |-> 3]

Claim(origin, capabilities, scope) ==
    [kind |-> "claim",
     msg |-> [issuer |-> A, audience |-> B, subject |-> alice, origin |-> origin,
              capabilities |-> capabilities, resource_scope |-> scope, nonce |-> 1,
              trace_id |-> 1, issued_at |-> 1, expires_at |-> 3]]

Declaration(scope) ==
    [kind |-> "declaration",
     msg |-> [declaration_id |-> 1, from_service |-> A, to_service |-> B,
              capabilities |-> {1, 2}, resource_scope |-> scope, issued_at |-> 1,
              expires_at |-> 4, trust_root |-> root]]

Window(w) == [nsids |-> <<1, 2>>, window |-> w]

MCRequest ==
    {Claim(<<"self">>, <<2, 1>>, <<"resource", alice>>),
     Claim(<<"delegated", <<AHop, AHop>>>>, <<1>>, <<"resource", alice>>),
     Claim(<<"delegated", <<AHop>>>>, <<2, 2, 2>>, <<"class_wide_administrative">>),
     Claim(<<"self">>, <<1>>, <<"all_resources_owned_by", alice>>),
     Declaration(<<"class_wide_administrative">>),
     Declaration(<<"resource", alice>>),
     [kind |-> "hello",
      msg |-> [initiator_identity |-> A, initiator_lexicon_set_version |-> <<1, 0, 0>>,
               proposed_session_nonce |-> 1, requested_scope |-> Window(<<>>), at |-> 2]],
     [kind |-> "accept",
      msg |-> [responder_identity |-> A, responder_lexicon_set_version |-> <<1, 0, 0>>,
               session_id |-> 1, negotiated_scope |-> Window(<<1, 3>>), at |-> 2]],
     [kind |-> "reject",
      msg |-> [reason |-> <<"handshake_nonce_replay", 3>>, responder_identity |-> A, at |-> 2]],
     [kind |-> "reject",
      msg |-> [reason |-> <<"unauthorized_peer">>, responder_identity |-> A, at |-> 2]],
     [kind |-> "established",
      msg |-> [session_id |-> 1, responder_identity |-> B, at |-> 2]]}

MCLocal == B

(* A hop whose kinds are listed in the canonical order, or not. *)
HopForm(listing) == <<"map", <<"array", {1, 2}, listing>>, <<"int", 1>>>>

MCForeign ==
    [identity |-> {<<"map", bob, ka, "only">>, <<"map", alice, ka, "more">>,
                   <<"map", notADid, ka, "only">>},
     did |-> {<<"text", bob>>, <<"text", notADid>>},
     root |-> {<<"map", kb>>},
     origin |-> {<<"map", "self_originated">>, <<"map", "delegated_from_upstream", <<>>>>,
                 <<"map", "delegated_from_upstream", <<HopForm("descending")>>>>,
                 <<"map", "delegated_from_upstream",
                   <<HopForm("descending"), HopForm("ascending")>>>>},
     kinds |-> {<<"array", <<1, 2>>>>, <<"array", <<9>>>>},
     kindset |-> {<<"array", {1, 2}, "descending">>, <<"array", {1}, "ascending">>},
     scope |-> {<<"map", <<"class_wide_administrative">>>>, <<"map", <<"resource", bob>>>>},
     grant |-> {<<"map", <<"all_resources_owned_by", bob>>>>, <<"map", <<"resource", bob>>>>},
     bytes |-> {<<"bytes", 2, "exact">>, <<"bytes", 1, "short">>},
     time |-> {<<"int", 2>>, <<"int", 9>>},
     semver |-> {<<"array", <<2, 0, 0>>>>, <<"array", <<1, 0>>>>},
     syncscope |-> {<<"map", <<2, 1>>, <<"null">>>>,
                    <<"map", <<1, 2>>, <<"map", <<"int", 1>>, <<"int", 0>>>>>>},
     reason |-> {<<"map", <<"handshake_timeout">>>>, <<"map", <<"unheard_of">>>>,
                 <<"map", <<"lexicon_set_major_version_mismatch", <<1, 0, 0>>, <<2, 0, 0>>>>>>}]
=============================================================================
