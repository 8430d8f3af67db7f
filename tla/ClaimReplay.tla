----------------------------- MODULE ClaimReplay ----------------------------
(***************************************************************************)
(* Receipt of capability claims: verify_capability_claim of                *)
(* src/verification.rs with the DefaultNonceTracker of src/wire/tracker.rs *)
(* behind it.  Verifications run concurrently and share the tracker; each  *)
(* reads the clock once, before it awaits the issuer's DID document, and   *)
(* hands that reading to the tracker after the await.                      *)
(*                                                                         *)
(* A claim is a record: who signed it, under which key, its nonce, its     *)
(* validity interval, whether the checks before the clock is read pass,    *)
(* whether its signature verifies and whether it is delegated.             *)
(***************************************************************************)
EXTENDS Naturals, FiniteSets

CONSTANTS
    Request,      \* the verification calls of the run
    Claim,        \* the claims that may reach the verifier
    Issuer, Key, Nonce,
    Skew,         \* ClaimVerificationConfig::max_clock_skew
    MaxValidity,  \* ClaimVerificationConfig::max_validity_window
    Retention,    \* retention of the tracker
    Cap,          \* per_partition_cap of the tracker
    MaxLatency,   \* what a call may take, from reading the clock to its end
    MaxTime       \* bound on the clock

ASSUME TimingAssumption ==
    /\ Skew \in Nat /\ MaxValidity \in Nat /\ Retention \in Nat
    /\ Cap \in Nat /\ MaxLatency \in Nat /\ MaxTime \in Nat

ASSUME ClaimAssumption ==
    Claim \subseteq [issuer : Issuer, key : Key, nonce : Nonce, iat : Nat, exp : Nat,
                     wellFormed : BOOLEAN, signed : BOOLEAN, delegated : BOOLEAN]

VARIABLES
    clock,   \* SystemTime::now() of the verifier
    phase,   \* where the call stands
    claim,   \* the claim the call is handed; any claim, any number of times
    now,     \* the clock reading of step 9
    fresh,   \* the tracker answered Fresh to the call
    result,  \* what the call returned
    seen     \* the tracker's partitions: nonces with their first-seen instant

callVars == <<phase, claim, now, fresh, result>>
vars     == <<clock, callVars, seen>>

None == "None"

Phases  == {"idle", "resolving", "recording", "chain", "done"}
Results == {"Rejected", "ValidityWindowTooLong", "Expired", "NotYetValid",
            "IssuerResolutionFailed", "SignatureInvalid", "NonceTrackerFailed",
            "NonceReplay", "AttributionChainInvalid", "ClaimExceedsChainTail",
            "Cancelled", "Accepted"}

Partition == Issuer \X Key
Seen      == [nonce : Nonce, at : Nat]

(* Every variable stays in its type; a call has a result once it is over.     *)
TypeOK ==
    /\ clock \in Nat
    /\ phase \in [Request -> Phases]
    /\ claim \in [Request -> Claim]
    /\ now \in [Request -> Nat]
    /\ fresh \in [Request -> BOOLEAN]
    /\ result \in [Request -> Results \cup {None}]
    /\ \A r \in Request : phase[r] = "done" <=> result[r] # None
    /\ seen \in [Partition -> SUBSET Seen]

Init ==
    /\ clock = 0
    /\ phase = [r \in Request |-> "idle"]
    /\ claim \in [Request -> Claim]
    /\ now = [r \in Request |-> 0]
    /\ fresh = [r \in Request |-> FALSE]
    /\ result = [r \in Request |-> None]
    /\ seen = [p \in Partition |-> {}]

InFlight(r) == phase[r] \in {"resolving", "recording", "chain"}

Goto(r, p) == phase' = [phase EXCEPT ![r] = p]

Return(r, v) ==
    /\ Goto(r, "done")
    /\ result' = [result EXCEPT ![r] = v]

-----------------------------------------------------------------------------
(* Time passes.  Awaits end by the caller's deadline, so no call is in flight *)
(* for longer than MaxLatency.                                                *)
Tick ==
    /\ clock < MaxTime
    /\ \A r \in Request : InFlight(r) => clock < now[r] + MaxLatency
    /\ clock' = clock + 1
    /\ UNCHANGED <<callVars, seen>>

-----------------------------------------------------------------------------
(* Steps 1 to 9: from the header to the clock.                                *)

(* expires_at.duration_since(issued_at), zero when it is negative. *)
Window(c) == IF c.exp < c.iat THEN 0 ELSE c.exp - c.iat

(* Mutation of NotExpired: the skew is granted twice. *)
NotExpiredTwoSkews(c, t) == t <= c.exp + 2 * Skew

NotExpired(c, t) == t <= c.exp + Skew
Begun(c, t)      == c.iat <= t + Skew

(* The checks that end a call before it awaits anything, in their order. *)
EarlyVerdict(c, t) ==
    IF ~c.wellFormed THEN "Rejected"
    ELSE IF Window(c) > MaxValidity THEN "ValidityWindowTooLong"
    ELSE IF ~NotExpired(c, t) THEN "Expired"
    ELSE IF ~Begun(c, t) THEN "NotYetValid"
    ELSE None

VerifyClaim(r) ==
    LET verdict == EarlyVerdict(claim[r], clock)
    IN  /\ phase[r] = "idle"
        /\ now' = [now EXCEPT ![r] = clock]
        /\ \/ verdict # None /\ Return(r, verdict)
           \/ verdict = None /\ Goto(r, "resolving") /\ UNCHANGED result
        /\ UNCHANGED <<clock, claim, fresh, seen>>

-----------------------------------------------------------------------------
(* Steps 10 and 11: the issuer's DID document arrives; key and signature are  *)
(* checked against it.                                                        *)

IssuerResolved(r) ==
    /\ phase[r] = "resolving"
    /\ IF claim[r].signed
         THEN Goto(r, "recording") /\ UNCHANGED result
         ELSE Return(r, "SignatureInvalid")
    /\ UNCHANGED <<clock, claim, now, fresh, seen>>

(* The resolver answers with an error, or with a document without the key.    *)
IssuerNotResolved(r) ==
    /\ phase[r] = "resolving"
    /\ \E v \in {"IssuerResolutionFailed", "SignatureInvalid"} : Return(r, v)
    /\ UNCHANGED <<clock, claim, now, fresh, seen>>

(* The caller drops the future at one of its two awaits. *)
Cancel(r) ==
    /\ phase[r] \in {"resolving", "chain"}
    /\ Return(r, "Cancelled")
    /\ UNCHANGED <<clock, claim, now, fresh, seen>>

-----------------------------------------------------------------------------
(* Step 12: DefaultNonceTracker::record, atomic under the tracker's mutex.    *)

(* Mutation of PartitionOf: the key id is left out of the partition key. *)
PartitionOfIssuer(c) == <<c.issuer, CHOOSE k \in Key : TRUE>>

(* NonceIssuerKey: signer and signing key. *)
PartitionOf(c) == <<c.issuer, c.key>>

(* Mutation of Retained: an entry exactly Retention old is evicted. *)
RetainedStrict(p, t) == {e \in seen[p] : t < e.at + Retention}

(* Lazy expiry of partition p at the observation time t. *)
Retained(p, t) == {e \in seen[p] : t <= e.at + Retention}

HasRoom(S) == Cardinality(S) < Cap

RecordNonce(r) ==
    LET c    == claim[r]
        p    == PartitionOf(c)
        kept == Retained(p, now[r])
        known == \E e \in kept : e.nonce = c.nonce
    IN  /\ phase[r] = "recording"
        /\ \/ /\ known
              /\ seen' = [seen EXCEPT ![p] = kept]
              /\ Return(r, "NonceReplay")
              /\ UNCHANGED fresh
           \/ /\ ~known /\ ~HasRoom(kept)
              /\ seen' = [seen EXCEPT ![p] = kept]
              /\ Return(r, "NonceTrackerFailed")
              /\ UNCHANGED fresh
           \/ /\ ~known /\ HasRoom(kept)
              /\ seen' = [seen EXCEPT ![p] =
                             kept \cup {[nonce |-> c.nonce, at |-> now[r]]}]
              /\ fresh' = [fresh EXCEPT ![r] = TRUE]
              /\ IF c.delegated
                   THEN Goto(r, "chain") /\ UNCHANGED result
                   ELSE Return(r, "Accepted")
        /\ UNCHANGED <<clock, claim, now>>

-----------------------------------------------------------------------------
(* Step 14: a delegated claim's receipt chain is walked after its nonce has   *)
(* been recorded.  The walk awaits the resolver, so it may also fail for a    *)
(* reason that has nothing to do with the claim.                              *)
WalkChain(r) ==
    /\ phase[r] = "chain"
    /\ \E v \in {"Accepted", "AttributionChainInvalid", "ClaimExceedsChainTail"} :
          Return(r, v)
    /\ UNCHANGED <<clock, claim, now, fresh, seen>>

-----------------------------------------------------------------------------
Step(r) ==
    \/ VerifyClaim(r)
    \/ IssuerResolved(r)
    \/ IssuerNotResolved(r)
    \/ Cancel(r)
    \/ RecordNonce(r)
    \/ WalkChain(r)

Next == Tick \/ \E r \in Request : Step(r)

Spec == Init /\ [][Next]_vars

-----------------------------------------------------------------------------
(* Properties *)

(* How long the tracker must remember a nonce: a claim is acceptable from one *)
(* skew before it is issued to one skew after it expires, and a call that is  *)
(* still in flight may lag behind the clock by its latency.                   *)
RetentionCovers == Retention >= MaxValidity + 2 * Skew + MaxLatency

(* A claim is accepted at most once, however many copies of it arrive and     *)
(* however their verifications interleave.                                    *)
AcceptedAtMostOnce ==
    \A r, q \in Request :
        result[r] = "Accepted" /\ result[q] = "Accepted" /\ claim[r] = claim[q] => r = q

(* NonceReplay is never a false alarm: another call did present the nonce,    *)
(* under the same issuer and key, and was the first to.                       *)
ReplayHasWitness ==
    \A r \in Request : result[r] = "NonceReplay" =>
        \E q \in Request \ {r} :
            /\ fresh[q]
            /\ claim[q].issuer = claim[r].issuer
            /\ claim[q].key = claim[r].key
            /\ claim[q].nonce = claim[r].nonce

(* A claim is never accepted later than its expiry plus the skew plus the     *)
(* time the call may take, although expiry is only checked before the await.  *)
AcceptedInTime ==
    [][\A r \in Request :
          result'[r] = "Accepted" /\ result[r] # "Accepted" =>
              clock <= claim[r].exp + Skew + MaxLatency]_vars
=============================================================================
