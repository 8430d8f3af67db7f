------------------------------ MODULE ServiceJwt -----------------------------
(***************************************************************************)
(* Service-auth JWTs: verify_jwt of src/verification.rs against the DID    *)
(* document of the issuer, which src/resolver.rs parses while the call     *)
(* waits.  The account behind the issuer may publish another document at   *)
(* any time, the clock goes on, and a token is presented as often as       *)
(* somebody likes: nothing in verify_jwt remembers a token.                *)
(*                                                                         *)
(* A token is its request (header and payload), and a signature: who made  *)
(* it, over which request, and in which of the two forms of an ECDSA       *)
(* signature.  A key is of one curve.                                      *)
(***************************************************************************)
EXTENDS Integers, FiniteSetsExt

CONSTANTS
    None,          \* an absent field, or a call that is not there
    Key,           \* signing keys
    AlgorithmOf,   \* the algorithm of each key
    Prefix,        \* the first 16 bytes of each fragment of a method id
    Document,      \* the documents the account may publish
    Request,       \* the headers and payloads that get signed
    Algorithms,    \* accepted_algorithms
    Rules,         \* issuer_key_fragments
    RequireNonce,  \* require_nonce
    Skew,          \* max_clock_skew
    MaxValidity,   \* max_validity_window
    LastSecond,    \* the last second of SystemTime
    MaxTokens,     \* bound on the tokens made
    MaxVerifierTime \* bound on the clock

ASSUME JwtAssumption ==
    /\ Skew \in Nat /\ MaxValidity \in Nat /\ LastSecond \in Nat
    /\ MaxTokens \in Nat /\ MaxVerifierTime \in Nat /\ RequireNonce \in BOOLEAN
    /\ \A r \in Request : r.iat \in Nat /\ r.exp \in Nat
    /\ \A doc \in Document :
          DOMAIN doc \subseteq Nat /\ \A i \in DOMAIN doc : doc[i] # None

VARIABLES
    verifierClock, \* the verifier's SystemTime::now()
    document,  \* what the account publishes: its verificationMethod entries
    tokens,    \* the tokens that are about
    call,      \* a verify_jwt that awaits the resolver, or None
    verdict,   \* how the last call ended
    accepted   \* what was accepted, and when

jwtVars == <<verifierClock, document, tokens, call, verdict, accepted>>

Token ==
    [request : Request, signed : Request, signer : Key, form : {"low", "high"}]

(* A call is under way for a token that exists, since some time gone by. *)
JwtTypeOK ==
    /\ verifierClock \in 0 .. MaxVerifierTime
    /\ document \in Document
    /\ tokens \subseteq Token
    /\ call # None => call.token \in tokens /\ call.since \in 0 .. verifierClock
    /\ accepted \subseteq [token : tokens, at : 0 .. verifierClock]

JwtInit ==
    /\ verifierClock = 0
    /\ document \in Document
    /\ tokens = {}
    /\ call = None
    /\ verdict = None
    /\ accepted = {}

-----------------------------------------------------------------------------
(* The document, as parse_did_document reads it. *)

(* synthesize_key_id: the first 16 bytes of the fragment, then of the key. *)
KeyId(entry) == <<Prefix[entry.fragment], entry.key>>

(* The verification_methods: entries whose key decode_multibase_key cannot    *)
(* use are skipped.                                                           *)
Published(doc) == {entry \in Range(doc) : entry.usable}

(* The first of the members of a list that are in S, or None. *)
First(list, S) ==
    LET at == {i \in DOMAIN list : list[i] \in S} IN
    IF at = {} THEN None ELSE list[Min(at)]

(* The first of those methods S of a document: the account's own #atproto     *)
(* methods go before the others.                                              *)
FirstMethod(doc, S) ==
    LET account == {m \in S : m.fragment = "atproto"} IN
    First(doc, IF account # {} THEN account ELSE S)

(* verification_method_fragment, over the fragments in document order. *)
FragmentOf(doc, keyId) ==
    First(doc, {m \in Published(doc) : KeyId(m) = keyId}).fragment

-----------------------------------------------------------------------------
(* The verification *)

(* method_fragment_for *)
RuleFor(fragment) == First(Rules, {rule \in Range(Rules) : rule[1] = fragment})

(* The methods whose key is of the token's algorithm. *)
Fitting(doc, r) == {m \in Published(doc) : AlgorithmOf[m.key] = r.alg}

(* Those that a kid names, if there is one. *)
Hinted(doc, r) == {m \in Published(doc) : r.kid \in {None, KeyId(m)}}

(* Those whose fragment is the one that the rule of the iss fragment lists. *)
Pinned(doc, r) ==
    {m \in Published(doc) :
        FragmentOf(doc, KeyId(m)) = RuleFor(r.iss_fragment)[2]}

(* Mutation of SelectKey: a token of a rule falls back to the first key of    *)
(* its algorithm.                                                             *)
SelectKeyWithFallback(doc, r) ==
    LET pinned == IF r.iss_fragment = None THEN {} ELSE Pinned(doc, r) \cap Fitting(doc, r)
    IN  FirstMethod(doc, IF pinned # {} THEN pinned ELSE Fitting(doc, r))

(* select_signing_key: the pinned method of a rule, or the method a kid       *)
(* names, or the first of the algorithm.                                      *)
SelectKey(doc, r) ==
    IF r.iss_fragment # None
    THEN FirstMethod(doc, Pinned(doc, r) \cap Hinted(doc, r) \cap Fitting(doc, r))
    ELSE IF r.kid # None
    THEN LET named == FirstMethod(doc, Hinted(doc, r)) IN
         IF named \in Fitting(doc, r) THEN named ELSE None
    ELSE FirstMethod(doc, Fitting(doc, r))

(* The error of the first check that fails. *)
Outcome(checks) ==
    LET failed == {i \in DOMAIN checks : ~checks[i][1]} IN
    IF failed = {} THEN "VerifiedJwt" ELSE checks[Min(failed)][2]

(* ParsedJwt::parse, the allowlist and payload_iss, before the resolver. *)
BeforeResolve(r) ==
    Outcome(<<<<r.alg # "none", "Malformed">>,
              <<r.alg \in Algorithms, "UnsupportedAlgorithm">>,
              <<r.iss_fragment # "", "Malformed">>,
              <<r.iss_fragment = None \/ RuleFor(r.iss_fragment) # None, "Malformed">>>>)

(* verify_signature *)
SignatureOutcome(t, key) ==
    Outcome(<<<<t.form = "low", "HighSSignature">>,
              <<t.signer = key /\ t.signed = t.request, "SignatureInvalid">>>>)

(* exp - iat, saturating, within max_validity_window. *)
WithinValidity(r) == r.exp - r.iat <= MaxValidity

(* verify_claims_and_construct *)
ClaimsOutcome(r, now) ==
    Outcome(<<<<r.aud # "notADid" /\ r.aud_fragment # "", "Malformed">>,
              <<r.aud = "local", "WrongAudience">>,
              <<r.iat <= LastSecond /\ r.exp <= LastSecond, "Malformed">>,
              <<r.nbf = None \/ r.nbf <= LastSecond, "Malformed">>,
              <<WithinValidity(r), "ValidityWindowTooLong">>,
              <<r.exp + Skew <= LastSecond, "Malformed">>,
              <<now <= r.exp + Skew, "Expired">>,
              <<r.nbf = None \/ r.nbf <= now + Skew, "NotYetValid">>,
              <<r.iat <= now + Skew, "NotYetValid">>,
              <<r.nonce # None \/ ~RequireNonce, "NonceMissing">>,
              <<r.nonce # "short", "Malformed">>,
              <<r.lxm # "notText", "Malformed">>>>)

(* Mutation of Now: the clock is read when the call begins. *)
NowAtEntry(c) == c.since

(* The clock is read once the document is there. *)
Now(c) == verifierClock

(* What verify_jwt returns when the resolver answers with doc, or not at all. *)
Verify(c, doc) ==
    LET r == c.token.request IN
    IF doc = None THEN "IssuerResolutionFailed"
    ELSE LET method == SelectKey(doc, r) IN
         IF method = None THEN "IssuerKeyNotInDocument"
         ELSE LET signature == SignatureOutcome(c.token, method.key) IN
              IF signature # "VerifiedJwt" THEN signature
              ELSE ClaimsOutcome(r, Now(c))

-----------------------------------------------------------------------------
(* The actions *)

VerifierTick ==
    /\ verifierClock < MaxVerifierTime
    /\ verifierClock' = verifierClock + 1
    /\ UNCHANGED <<document, tokens, call, verdict, accepted>>

(* The account publishes another document. *)
PublishMethods(doc) ==
    /\ doc # document
    /\ document' = doc
    /\ UNCHANGED <<verifierClock, tokens, call, verdict, accepted>>

(* The holder of a key signs whatever it likes. *)
Mint(r, k) ==
    /\ Cardinality(tokens) < MaxTokens
    /\ tokens' = tokens \cup {[request |-> r, signed |-> r, signer |-> k, form |-> "low"]}
    /\ UNCHANGED <<verifierClock, document, call, verdict, accepted>>

(* On its way a token's request is replaced. *)
Alter(t, r) ==
    /\ Cardinality(tokens) < MaxTokens
    /\ tokens' = tokens \cup {[t EXCEPT !.request = r]}
    /\ UNCHANGED <<verifierClock, document, call, verdict, accepted>>

(* A signature takes the other form, which the curve's equation accepts too. *)
Flip(t) ==
    /\ Cardinality(tokens) < MaxTokens
    /\ AlgorithmOf[t.signer] # "EdDSA"
    /\ tokens' = tokens \cup {[t EXCEPT !.form = "high"]}
    /\ UNCHANGED <<verifierClock, document, call, verdict, accepted>>

(* verify_jwt is called, and gets as far as the resolver or fails before. *)
Present(t) ==
    /\ call = None
    /\ IF BeforeResolve(t.request) = "VerifiedJwt"
       THEN /\ call' = [token |-> t, since |-> verifierClock]
            /\ verdict' = None
       ELSE /\ verdict' = [token |-> t, document |-> None, is |-> BeforeResolve(t.request)]
            /\ UNCHANGED call
    /\ UNCHANGED <<verifierClock, document, tokens, accepted>>

(* The resolver answers. *)
Resolved(doc) ==
    /\ call # None
    /\ verdict' = [token |-> call.token, document |-> doc, is |-> Verify(call, doc)]
    /\ accepted' = accepted \cup
          (IF verdict'.is = "VerifiedJwt" THEN {[token |-> call.token, at |-> verifierClock]} ELSE {})
    /\ call' = None
    /\ UNCHANGED <<verifierClock, document, tokens>>

JwtNext ==
    \/ VerifierTick
    \/ \E doc \in Document : PublishMethods(doc)
    \/ \E r \in Request, k \in Key : Mint(r, k)
    \/ \E t \in tokens, r \in Request : Alter(t, r)
    \/ \E t \in tokens : Flip(t) \/ Present(t)
    \/ Resolved(document)
    \/ Resolved(None)

JwtSpec == JwtInit /\ [][JwtNext]_jwtVars

-----------------------------------------------------------------------------
(* Properties *)

(* The methods that may speak for the issuer of r, by the rules alone. *)
Speaker(doc, r) ==
    LET fitting == Fitting(doc, r)
        hinted  == fitting \cap Hinted(doc, r)
        atproto == {m \in fitting : m.fragment = "atproto"}
    IN  IF r.iss_fragment # None
        THEN {m \in hinted : m.fragment = RuleFor(r.iss_fragment)[2]}
        ELSE IF r.kid # None THEN hinted
        ELSE IF atproto # {} THEN atproto ELSE fitting

Distinct(doc) ==
    \A m, n \in Published(doc) : KeyId(m) = KeyId(n) => m = n

(* What is accepted was signed, as it stands, by a key that may speak for its *)
(* issuer: the method of the iss fragment's rule and no other, or the one the *)
(* kid names, or the account's own key before any other of the algorithm,     *)
(* however the document orders them and whatever was published before.  And   *)
(* a token is refused for want of a key only if there is no such method, as   *)
(* long as no two methods share a key id.                                     *)
SignerSpeaksForIssuer ==
    verdict # None /\ verdict.document # None =>
        LET t == verdict.token
            speakers == Speaker(verdict.document, t.request)
        IN  /\ verdict.is = "VerifiedJwt" =>
                  /\ \E m \in speakers : m.key = t.signer
                  /\ t.signed = t.request
            /\ verdict.is = "IssuerKeyNotInDocument" /\ Distinct(verdict.document) =>
                  speakers = {}

(* However often a token is presented, and whatever form its signature takes, *)
(* it is accepted over a span of max_validity_window and the skew on either   *)
(* side at most, by the verifier's clock when it is accepted: however long    *)
(* the resolver took, and also if it expires before it was issued.            *)
LifetimeBounded ==
    \A a, b \in accepted :
        a.token.signed = b.token.signed /\ a.token.signer = b.token.signer
            => b.at - a.at <= MaxValidity + 2 * Skew

(* JwtVerificationConfig::issuer_key_fragments: a token with a listed         *)
(* fragment "verifies only against the method whose id fragment is" the       *)
(* rule's, "IssuerKeyNotInDocument if the document has none".                 *)
RefusedOnlyIfUnpublished ==
    verdict # None /\ verdict.document # None /\ verdict.is = "IssuerKeyNotInDocument"
        => Speaker(verdict.document, verdict.token.request) = {}
=============================================================================
