------------------------------ MODULE WireForms ------------------------------
(***************************************************************************)
(* The forms that messages take between services: capability claims        *)
(* (src/wire/claim.rs), trust declarations (src/trust.rs) and the four     *)
(* messages of the sync handshake (src/wire/handshake.rs), each as         *)
(* canonical CBOR (src/wire/canonical_cbor.rs) with a signature over its   *)
(* fields.                                                                 *)
(*                                                                         *)
(* A sender makes messages and sends one; on the way its form may be       *)
(* changed by an intermediary or by another implementation's encoder, and  *)
(* the receiver decodes it, checks that the form is canonical and verifies *)
(* the signature over what it re-encodes from the decoded fields.  Clocks, *)
(* nonces and sessions are not here: ClaimReplay, Derivation and           *)
(* SyncChannel have them.                                                  *)
(*                                                                         *)
(* A CBOR value is a tuple that begins with its major type.  A map is the  *)
(* function from its known keys to their values; what else it holds        *)
(* (unknown keys, a key twice) and whether its keys are in canonical order *)
(* is kept beside it, as is the order in which an array lists a set.       *)
(***************************************************************************)
EXTENDS Naturals, Sequences, FiniteSetsExt

CONSTANTS
    DidName,        \* the well-formed DIDs
    SigningKey,     \* service keys, each under its own key id
    RootKey,        \* the key of the configured trust root
    Local,          \* the receiver's identity
    Session,        \* the key of the peer in the receiver's sync session
    ClassOf,        \* capability kind (its place in the enum) -> class
    MaxDepth,       \* MAX_CHAIN_DEPTH
    MaxBytes,       \* MAX_CAPABILITY_CLAIM_SIZE, a name or a hop being one
    FixedBytes,     \* the fields of a claim that do not vary
    SignatureBytes, \* the signature of a claim
    MaxValidity,    \* MAX_CLAIM_VALIDITY
    LastSecond,     \* the last second SystemTime can hold
    Request,        \* what senders make: [kind, msg]
    Foreign,        \* type of a field -> other values it may arrive with
    MaxMade,        \* bound on the messages made
    MaxEdits        \* bound on the changes to a form

VARIABLES
    made,    \* the messages that were signed, by the key each names
    form,    \* the form under way
    edits,   \* how often it was changed
    answer   \* what the receiver made of it

formsVars == <<made, form, edits, answer>>

Nothing == [kind |-> "nothing"]

-----------------------------------------------------------------------------
(* The fields of each kind of message and their types. *)

Schema ==
    [claim |->
        [issuer |-> "identity", audience |-> "identity", subject |-> "did",
         origin |-> "origin", capabilities |-> "kinds", resource_scope |-> "scope",
         nonce |-> "bytes", trace_id |-> "bytes", issued_at |-> "time", expires_at |-> "time"],
     declaration |->
        [declaration_id |-> "bytes", from_service |-> "identity", to_service |-> "identity",
         capabilities |-> "kindset", resource_scope |-> "grant", issued_at |-> "time",
         expires_at |-> "time", trust_root |-> "root"],
     hello |->
        [initiator_identity |-> "identity", initiator_lexicon_set_version |-> "semver",
         proposed_session_nonce |-> "bytes", requested_scope |-> "syncscope", at |-> "time"],
     accept |->
        [responder_identity |-> "identity", responder_lexicon_set_version |-> "semver",
         session_id |-> "bytes", negotiated_scope |-> "syncscope", at |-> "time"],
     reject |->
        [reason |-> "reason", responder_identity |-> "identity", at |-> "time"],
     established |->
        [session_id |-> "bytes", responder_identity |-> "identity", at |-> "time"]]

Handshake == {"hello", "accept", "reject", "established"}

(* The responder's identity is signed in an Established and not carried. *)
Carried(kind) ==
    DOMAIN Schema[kind] \ (IF kind = "established" THEN {"responder_identity"} ELSE {})

-----------------------------------------------------------------------------
(* The values of a field.  Times are in half seconds; of byte strings, trust   *)
(* roots and NSIDs the receiver makes nothing.                                *)

Kind == DOMAIN ClassOf
Time == 0 .. 2 * LastSecond + 1

ServiceIdentity == [did : DidName, key : SigningKey, evidence : BOOLEAN]
Hop == [granted : SUBSET Kind, at : Time]

(* A scope names a kind, and with it a DID unless it is class-wide. *)
Scope ==
    ({"resource", "all_resources_owned_by"} \X DidName) \cup {<<"class_wide_administrative">>}

Bare == {"unauthorized_peer", "handshake_signature_invalid", "handshake_timeout"}

Typed(type, x) ==
    CASE type = "did"       -> x \in DidName
      [] type = "identity"  -> x \in ServiceIdentity
      [] type = "origin"    -> \/ x = <<"self">>
                               \/ x = <<"delegated", x[2]>> /\ x[2] \in Seq(Hop)
      [] type = "kinds"     -> x \in Seq(Kind)
      [] type = "kindset"   -> x \in SUBSET Kind
      [] type \in {"scope", "grant"} -> x \in Scope
      [] type = "time"      -> x \in Time
      [] type = "semver"    -> Len(x) = 3
      [] type = "syncscope" -> /\ x = [nsids |-> x.nsids, window |-> x.window]
                               /\ x.window = <<>> \/ x.window \in Time \X Time
      [] type = "reason"    -> \/ x = <<x[1]>> /\ x[1] \in Bare
                               \/ x[1] = "handshake_nonce_replay" /\ x = <<x[1], x[2]>>
                                  /\ x[2] \in Time
                               \/ x[1] = "lexicon_set_major_version_mismatch"
                                  /\ x = <<x[1], x[2], x[3]>>
      [] OTHER              -> TRUE

ASSUME FormsAssumption ==
    /\ LastSecond \in Nat /\ FixedBytes \in Nat /\ SignatureBytes \in Nat
    /\ MaxBytes \in Nat /\ MaxDepth \in Nat /\ MaxMade \in Nat /\ MaxEdits \in Nat
    /\ Local \in ServiceIdentity
    /\ \A r \in Request :
          /\ r.kind \in DOMAIN Schema /\ DOMAIN r.msg = DOMAIN Schema[r.kind]
          /\ \A f \in DOMAIN r.msg : Typed(Schema[r.kind][f], r.msg[f])

-----------------------------------------------------------------------------
(* Encoding a field.  A time loses its fraction, an identity its rotation     *)
(* evidence; a set of kinds is listed in order.                               *)

EncodeKindSet(kinds) == <<"array", kinds, "ascending">>

EncodeTime(t) == <<"int", t \div 2>>

EncodeIdentity(i) == <<"map", i.did, i.key, "only">>

EncodeHop(hop) == <<"map", EncodeKindSet(hop.granted), EncodeTime(hop.at)>>

EncodeOrigin(o) ==
    IF o[1] = "self" THEN <<"map", "self_originated">>
    ELSE <<"map", "delegated_from_upstream", [h \in DOMAIN o[2] |-> EncodeHop(o[2][h])]>>

EncodeSyncScope(s) ==
    <<"map", s.nsids,
      IF s.window = <<>> THEN <<"null">>
                         ELSE <<"map", EncodeTime(s.window[1]), EncodeTime(s.window[2])>>>>

EncodeReason(r) ==
    <<"map", IF r[1] = "handshake_nonce_replay" THEN <<r[1], EncodeTime(r[2])>> ELSE r>>

Encode(type, x) ==
    CASE type = "did"       -> <<"text", x>>
      [] type = "identity"  -> EncodeIdentity(x)
      [] type = "origin"    -> EncodeOrigin(x)
      [] type = "kindset"   -> EncodeKindSet(x)
      [] type \in {"kinds", "semver"} -> <<"array", x>>
      [] type \in {"root", "scope", "grant"} -> <<"map", x>>
      [] type = "bytes"     -> <<"bytes", x, "exact">>
      [] type = "time"      -> EncodeTime(x)
      [] type = "syncscope" -> EncodeSyncScope(x)
      [] type = "reason"    -> EncodeReason(x)

-----------------------------------------------------------------------------
(* Decoding a field: a sequence of one value, or of none.                     *)

Fail == <<>>

(* What the code maps an iterator of results over: all, or Fail. *)
All(results) ==
    IF \A i \in DOMAIN results : results[i] # Fail
    THEN <<[i \in DOMAIN results |-> results[i][1]]>> ELSE Fail

DecodeTime(v) ==
    IF v[1] = "int" /\ v[2] \in 0 .. LastSecond THEN <<2 * v[2]>> ELSE Fail

(* Unknown keys beside the known ones do not matter. *)
DecodeIdentity(v) ==
    IF v[1] = "map" /\ v[2] \in DidName /\ v[3] \in SigningKey
    THEN <<[did |-> v[2], key |-> v[3], evidence |-> FALSE]>>
    ELSE Fail

DecodeKinds(v) ==
    IF v[1] = "array" /\ \A i \in DOMAIN v[2] : v[2][i] \in Kind
    THEN <<v[2]>> ELSE Fail

(* CapabilitySet::from_kinds sorts and drops repetitions. *)
DecodeKindSet(v) ==
    IF v[1] = "array" /\ v[2] \subseteq Kind THEN <<v[2]>> ELSE Fail

DecodeHop(v) ==
    LET granted == DecodeKindSet(v[2])
        at == DecodeTime(v[3])
    IN  IF v[1] = "map" /\ granted # Fail /\ at # Fail
        THEN <<[granted |-> granted[1], at |-> at[1]]>> ELSE Fail

(* Mutation of WithinDepth: a chain of the full depth is refused. *)
ShortOfDepth(hops) == Len(hops) < MaxDepth

WithinDepth(hops) == Len(hops) <= MaxDepth

DecodeOrigin(v) ==
    CASE v[1] = "map" /\ v[2] = "self_originated" -> <<<<"self">>>>
      [] v[1] = "map" /\ v[2] = "delegated_from_upstream" ->
            LET hops == All([h \in DOMAIN v[3] |-> DecodeHop(v[3][h])])
            IN  IF v[3] # <<>> /\ WithinDepth(v[3]) /\ hops # Fail
                THEN <<<<"delegated", hops[1]>>>> ELSE Fail
      [] OTHER -> Fail

DecodeScope(v) == IF v[1] = "map" /\ v[2] \in Scope THEN <<v[2]>> ELSE Fail

(* A trust declaration does not grant a single resource. *)
DecodeGrant(v) == IF v[1] = "map" /\ v[2][1] = "resource" THEN Fail ELSE DecodeScope(v)

DecodeSyncScope(v) ==
    IF v[1] # "map" THEN Fail
    ELSE IF v[3][1] = "null" THEN <<[nsids |-> v[2], window |-> <<>>]>>
    ELSE LET from  == DecodeTime(v[3][2])
             until == DecodeTime(v[3][3])
         IN  IF v[3][1] = "map" /\ from # Fail /\ until # Fail
             THEN <<[nsids |-> v[2], window |-> <<from[1], until[1]>>]>> ELSE Fail

DecodeReason(v) ==
    LET r    == v[2]
        seen == DecodeTime(r[2])
    IN  IF v[1] # "map" THEN Fail
        ELSE IF r[1] = "lexicon_set_major_version_mismatch" THEN <<<<r[1], r[2], r[3]>>>>
        ELSE IF r[1] = "handshake_nonce_replay"
            THEN IF seen = Fail THEN Fail ELSE <<<<r[1], seen[1]>>>>
        ELSE IF r[1] \in Bare THEN <<<<r[1]>>>> ELSE Fail

Decode(type, v) ==
    CASE type = "did"       -> IF v[1] = "text" /\ v[2] \in DidName THEN <<v[2]>> ELSE Fail
      [] type = "identity"  -> DecodeIdentity(v)
      [] type = "origin"    -> DecodeOrigin(v)
      [] type = "kindset"   -> DecodeKindSet(v)
      [] type = "kinds"     -> DecodeKinds(v)
      [] type = "semver"    -> IF v[1] = "array" /\ Len(v[2]) = 3 THEN <<v[2]>> ELSE Fail
      [] type = "root"      -> IF v[1] = "map" THEN <<v[2]>> ELSE Fail
      [] type = "scope"     -> DecodeScope(v)
      [] type = "grant"     -> DecodeGrant(v)
      [] type = "bytes"     -> IF v[1] = "bytes" /\ v[3] = "exact" THEN <<v[2]>> ELSE Fail
      [] type = "time"      -> DecodeTime(v)
      [] type = "syncscope" -> DecodeSyncScope(v)
      [] type = "reason"    -> DecodeReason(v)

-----------------------------------------------------------------------------
(* Whole messages. *)

(* Mutation of Signed: the payload leaves the trace id out. *)
SignedButTrace(kind) == DOMAIN Schema[kind] \ {"trace_id"}

(* What the signature of a message covers: every field. *)
Signed(kind) == DOMAIN Schema[kind]

(* The domain tag of the kind, and the canonical encoding of the fields. *)
SigningInput(kind, msg) ==
    <<kind, [f \in Signed(kind) |-> Encode(Schema[kind][f], msg[f])]>>

(* The key a message names as its signer's.  An Established names none: the   *)
(* receiver takes the one of its session.                                     *)
SignerOf(kind, msg) ==
    CASE kind = "claim"       -> msg.issuer.key
      [] kind = "declaration" -> msg.trust_root
      [] kind = "hello"       -> msg.initiator_identity.key
      [] kind = "established" -> Session
      [] OTHER                -> msg.responder_identity.key

Signature(kind, msg) ==
    [alg |-> "Ed25519", by |-> SignerOf(kind, msg), over |-> SigningInput(kind, msg)]

(* to_wire_bytes, encode_wire_bytes and the *_to_wire_bytes. *)
ToWire(kind, msg, signature) ==
    [kind |-> kind,
     fields |-> [f \in Carried(kind) |-> Encode(Schema[kind][f], msg[f])],
     signature |-> signature, extra |-> 0, ordered |-> TRUE]

DecodeFields(w) ==
    [f \in Carried(w.kind) |->
        IF f \in DOMAIN w.fields THEN Decode(Schema[w.kind][f], w.fields[f]) ELSE Fail]

Decodes(w) == \A f \in Carried(w.kind) : DecodeFields(w)[f] # Fail

(* The message, with what the receiver adds to it. *)
Decoded(w) ==
    [f \in DOMAIN Schema[w.kind] |->
        IF f \in Carried(w.kind) THEN DecodeFields(w)[f][1] ELSE Local]

(* wire_bytes_are_canonical: the CBOR value tree encodes to the same bytes.   *)
(* Whatever the tree holds besides the known keys is encoded again with it.   *)
CanonicalTree(w) == w.ordered

(* Mutation of CanonicalHandshake: the check of the claims. *)
CanonicalHandshakeTree(w) == CanonicalTree(w)

(* handshake_wire_is_canonical_*: the decoded message encodes to the same     *)
(* bytes, so nothing is there but what was decoded.                           *)
CanonicalHandshake(w) == w = ToWire(w.kind, Decoded(w), w.signature)

(* The size of a claim's payload: only its lists and its chain vary. *)
PayloadBytes(capabilities, hops) == FixedBytes + Len(capabilities) + Len(hops)

-----------------------------------------------------------------------------
(* Making messages. *)

PermitsScope(capability, scope) ==
    CASE ClassOf[capability] = "user"    -> scope[1] = "resource"
      [] ClassOf[capability] = "channel" -> TRUE
      [] OTHER                           -> FALSE

Hops(msg) == IF msg.origin[1] = "self" THEN <<>> ELSE msg.origin[2]

(* CapabilityClaim::new and new_delegated. *)
Mintable(msg) ==
    /\ msg.origin[1] = "self" \/ Hops(msg) # <<>>
    /\ msg.expires_at <= msg.issued_at + MaxValidity
    /\ \A i \in DOMAIN msg.capabilities :
          /\ ClassOf[msg.capabilities[i]] \in {"user", "channel"}
          /\ PermitsScope(msg.capabilities[i], msg.resource_scope)
    /\ PayloadBytes(msg.capabilities, Hops(msg)) <= MaxBytes

(* A claim is minted or refused; the host signs the others as they are.       *)
Make(r) ==
    /\ form = Nothing
    /\ Cardinality(made) < MaxMade /\ r \notin made
    /\ r.kind = "claim" => Mintable(r.msg)
    /\ made' = made \cup {r}
    /\ UNCHANGED <<form, edits, answer>>

Send(r) ==
    /\ form = Nothing
    /\ r \in made
    /\ form' = ToWire(r.kind, r.msg, Signature(r.kind, r.msg))
    /\ UNCHANGED <<made, edits, answer>>

-----------------------------------------------------------------------------
(* What may happen to a form on its way. *)

Edit ==
    /\ form # Nothing /\ answer = Nothing
    /\ edits < MaxEdits
    /\ edits' = edits + 1
    /\ UNCHANGED <<made, answer>>

ReplaceField ==
    /\ Edit
    /\ \E f \in DOMAIN form.fields : \E v \in Foreign[Schema[form.kind][f]] :
          form' = [form EXCEPT !.fields[f] = v]

DropField ==
    /\ Edit
    /\ \E f \in DOMAIN form.fields :
          form' = [form EXCEPT !.fields = [g \in DOMAIN @ \ {f} |-> @[g]]]

(* An unknown key, or a known one for the second time. *)
AddField ==
    /\ Edit
    /\ form' = [form EXCEPT !.extra = @ + 1]

Reorder ==
    /\ Edit
    /\ form' = [form EXCEPT !.ordered = FALSE]

(* The signature of another message, or one that claims another algorithm. *)
ReplaceSignature ==
    /\ Edit
    /\ \/ \E r \in made : form' = [form EXCEPT !.signature = Signature(r.kind, r.msg)]
       \/ form' = [form EXCEPT !.signature.alg = "Es256"]

-----------------------------------------------------------------------------
(* Receiving. *)

(* A form without its lists is as small as they come. *)
ArrivedBytes(w) ==
    w.extra + IF {"capabilities", "origin"} \subseteq DOMAIN w.fields
              THEN PayloadBytes(w.fields.capabilities[2],
                      IF w.fields.origin[2] = "delegated_from_upstream"
                      THEN w.fields.origin[3] ELSE <<>>)
              ELSE FixedBytes

(* The ceiling is on all that came: the signature counts, and any unknown key. *)
WithinBytes(w) == ArrivedBytes(w) + SignatureBytes <= MaxBytes

SignatureHolds(w) ==
    w.signature = Signature(w.kind, Decoded(w))

Refused(class) == [kind |-> "refused", class |-> class]

(* The capabilities that may not travel, or not with this scope, and what the *)
(* first of them is refused for.                                              *)
Unfit(msg) ==
    {i \in DOMAIN msg.capabilities : ~PermitsScope(msg.capabilities[i], msg.resource_scope)}

UnfitClass(msg) ==
    IF ClassOf[msg.capabilities[Min(Unfit(msg))]] \in {"user", "channel"}
    THEN "NonexhaustiveScopeForClass" ELSE "NonWireEligibleCapability"

(* verify_capability_claim up to the signature, time and resolution apart;    *)
(* verify_trust_declaration; and the first checks of verify_sync_*.           *)
Verdict(w) ==
    IF w.kind = "claim" /\ ~WithinBytes(w) THEN Refused("ClaimTooLarge")
    ELSE IF \/ w.kind \in {"claim", "declaration"} /\ ~CanonicalTree(w)
            \/ ~Decodes(w)
            \/ w.kind \in Handshake /\ ~CanonicalHandshake(w)
        THEN Refused("Malformed")
    ELSE IF w.kind = "claim" /\ w.signature.alg # "Ed25519"
        THEN Refused("UnsupportedAlgorithm")
    ELSE IF w.kind = "claim" /\ Decoded(w).audience.did # Local.did
        THEN Refused("WrongAudience")
    ELSE IF w.kind = "claim" /\ Unfit(Decoded(w)) # {}
        THEN Refused(UnfitClass(Decoded(w)))
    ELSE IF w.kind = "declaration" /\ Decoded(w).trust_root # RootKey
        THEN Refused("UnknownTrustRoot")
    ELSE IF ~SignatureHolds(w) THEN Refused("SignatureInvalid")
    ELSE [kind |-> "accepted", msg |-> Decoded(w)]

Receive ==
    /\ form # Nothing /\ answer = Nothing
    /\ answer' = Verdict(form)
    /\ UNCHANGED <<made, form, edits>>

FormsInit ==
    /\ made = {} /\ form = Nothing /\ edits = 0 /\ answer = Nothing

FormsNext ==
    \/ \E r \in Request : Make(r) \/ Send(r)
    \/ ReplaceField \/ DropField \/ AddField \/ Reorder \/ ReplaceSignature
    \/ Receive

FormsSpec == FormsInit /\ [][FormsNext]_formsVars

-----------------------------------------------------------------------------
(* Properties *)

(* What is left of a field by the trip: whole seconds, no rotation evidence.  *)
Whole(t) == IF t % 2 = 0 THEN t ELSE t - 1

CarryHop(hop) == [granted |-> hop.granted, at |-> Whole(hop.at)]

CarryScope(s) ==
    [nsids  |-> s.nsids,
     window |-> IF s.window = <<>> THEN <<>>
                ELSE <<Whole(s.window[1]), Whole(s.window[2])>>]

Carry(type, x) ==
    CASE type = "identity"  -> [x EXCEPT !.evidence = FALSE]
      [] type = "time"      -> Whole(x)
      [] type = "origin" /\ x[1] # "self" ->
            <<"delegated", [h \in DOMAIN x[2] |-> CarryHop(x[2][h])]>>
      [] type = "syncscope" -> CarryScope(x)
      [] type = "reason" /\ x[1] = "handshake_nonce_replay" -> <<x[1], Whole(x[2])>>
      [] OTHER              -> x

(* What a form does not carry is the receiver's own.                          *)
Delivered(r) ==
    [f \in DOMAIN r.msg |->
        IF f \in Carried(r.kind) THEN Carry(Schema[r.kind][f], r.msg[f])
        ELSE [r.msg[f] EXCEPT !.evidence = Local.evidence]]

(* However a form was changed on its way, with whatever signature, what the   *)
(* receiver accepts is, field by field, a message of that kind that the key   *)
(* it names did sign: no field goes uncovered, and no signature passes from   *)
(* one kind of message to another.                                            *)
AcceptedIsSigned ==
    answer.kind = "accepted" =>
        \E r \in made : r.kind = form.kind /\ answer.msg = Delivered(r)

(* A handshake message has one form: a receiver accepts no second one, with   *)
(* another spelling of the same fields or with anything added.                *)
HandshakeFormIsUnique ==
    answer.kind = "accepted" /\ form.kind \in Handshake =>
        \E r \in made : form = ToWire(r.kind, r.msg, Signature(r.kind, r.msg))

(* What the receiver is the right one for and the form can carry. *)
Meant(r) ==
    CASE r.kind = "claim" -> r.msg.audience.did = Local.did
      [] r.kind = "declaration" ->
            r.msg.trust_root = RootKey /\ r.msg.resource_scope[1] # "resource"
      [] r.kind = "established" -> r.msg.responder_identity.did = Local.did
                                   /\ r.msg.responder_identity.key = Local.key
      [] OTHER -> TRUE

Fits(r) ==
    r.kind = "claim" =>
        /\ Len(Hops(r.msg)) <= MaxDepth
        /\ PayloadBytes(r.msg.capabilities, Hops(r.msg)) + SignatureBytes <= MaxBytes

Honest(r) == form = ToWire(r.kind, r.msg, Signature(r.kind, r.msg))

(* A message that arrives as it was sent is accepted and says what was said,  *)
(* to the second and but for the rotation evidence, if with its signature it  *)
(* is within the ceilings.                                                    *)
HonestFormsAreRead ==
    \A r \in made :
        Meant(r) /\ Fits(r) /\ Honest(r) /\ answer # Nothing =>
            answer = [kind |-> "accepted", msg |-> Delivered(r)]

(* src/wire/claim.rs:36 says that the substrate refuses to mint claims it     *)
(* cannot transmit: a minted claim would be refused nowhere for its form.     *)
MintedIsTransmittable ==
    \A r \in made :
        r.kind = "claim" /\ Honest(r) /\ answer.kind = "refused" =>
            answer.class \notin {"ClaimTooLarge", "Malformed"}
=============================================================================
