# Verification of kryphocron

TLA+ models of the stateful parts of kryphocron (`src/src/` in this tree), TLC
runs over small instances of them, and TLAPS proofs of what matters most for
every instance. kryphocron is a library: it holds no threads of its own except
one (the rotation oracle's persist worker), but its functions are called
concurrently by a host's tasks, they share trackers, caches and sinks behind
`&self`, and they await code the host supplies. The models are about what those
calls do to each other.

All paths below are relative to `src/src/`.

## 1. The system

| component | state | operations | interacts with |
|---|---|---|---|
| Composite audit (`audit/composite.rs`) | per scope: queued events, `sinks_committed` | `emit_*`, commit loop, `handle_rollback` | calls the four class sinks and the fallback sink; called by bind and reborrow |
| Sinks and guards (`audit/sinks.rs`) | `terminated` flag per guarded sink | `record`, `SinkPanicGuard::call` | wraps the operator's sinks |
| Claim verification (`verification.rs`) | none of its own | `verify_capability_claim` | DID resolver (await), nonce tracker, attribution chain walk (await) |
| Claim nonce tracker (`wire/tracker.rs`, `wire/nonce.rs`) | partitions of (nonce, time) under one mutex | `record` | called by claim verification |
| Sync handshake (`verification.rs`, `wire/handshake.rs`) | none of its own | `verify_sync_hello`, `_response`, `_established`, `_message` | resolver, hello nonce tracker |
| Hello nonce tracker (`wire/handshake_tracker.rs`) | map and insertion-order log under one mutex | `check_and_record` | called by `verify_sync_hello` |
| DID resolver (`resolver.rs`) | two caches under Mutexes: documents, trust roots | `resolve`, `resolve_for_trust_root`, `invalidate` | fetches from the directory (await), emits rotation events |
| Capability proofs (`authority/`) | a proof value: unbound, bound | `issue_*`, `bind`, `reborrow` | oracles, composite audit, timing, inspection queue |
| Oracles (`oracle.rs`) | the host's | block, audience and mute queries, `last_synced_at` | asked by bind |
| Rotation oracle (`codec/laquna/mod.rs`) | generation in force under an RwLock, state file, channel to the worker | `construct`, `current_generation`, `last_synced_at` | asked by encode through `resolve_rotation_generation` (`encryption.rs`) |
| At-rest hooks (`at_rest.rs`, `encryption.rs`) | none | `encode_record_content`, `decode_record_content`, `validate_at_rest_install` | codec, rotation oracle, user sink |
| AuthContext (`ingress.rs`) | immutable context: requester, capabilities, chain | four ingress constructors, `derive_for` | trust declarations, user sink |
| Trust declarations (`trust.rs`) | none | `verify_trust_declaration` | consumed by `derive_for` |
| JWT verification (`verification.rs`) | none | `verify_jwt` | resolver |
| Chain walk and receipts (`verification.rs`, `wire/receipt.rs`) | none | `verify_attribution_chain`, `verify_hop` | resolver |
| Claims, encoding (`wire/claim.rs`, `wire/canonical_cbor.rs`) | none | constructors, canonical codec | |
| Records, tiers (`read_pipeline.rs`, `post_content.rs`, `tier.rs`) | none | validation, visibility | |
| Laquna codec (`codec/laquna/internal/`) | none | encode, decode | |

What is hard in each, and what makes it correct:

* **Composite audit.** Any of up to n sink calls can fail, panic, or (guarded)
  fail because an earlier scope made it panic; the rollback can fail; the
  fallback can panic. Correct means that the `Result` a caller gets describes
  what the sinks hold, that markers unwind commits in reverse priority, and
  that a commit always comes to an answer.
* **Claim replay.** The clock is read once, before an await; the nonce is
  recorded after it, with that old reading. Copies of a claim overtake each
  other, and the tracker's sweep is driven by readings that arrive out of
  order. Correct means one acceptance per claim.
* **Hello replay.** The same, with a tracker that sweeps only the front of an
  insertion-order log and evicts when it is full.
* **Rotation oracle.** Two locks with a gap, a clock read before the first, a
  worker thread, a file written in place, crashes. Correct means that
  generations are served within their cadence and the file ends up with the
  last one.
* **DID resolver.** Cache look-up, fetch, comparison and store are separate
  lock acquisitions around an await. Correct means bounded staleness, an audit
  event for every key rotation seen, and tombstones that stay.
* **Bind.** Oracles are asked one at a time while they synchronise; the audit
  event is committed before the proof is handed out; the answer is delayed to
  a fixed time and may be dropped while it sleeps; a bound proof outlives the
  facts it was bound on. Correct means that audit, notice and answer agree,
  and that leaving an audience takes effect in bounded time.

* **Delegation.** A claim carries a chain of receipts. Every hop is verified
  against a document of its own, fetched when its turn comes, while keys rotate.
  The context that is made of it can be narrowed or handed to another service,
  under a declaration that was verified earlier. Correct means that authority
  comes from somewhere at every step, and that chain and trail say from where.
* **Sync channels.** Five messages between two services that keep no lock-step: any
  of them can be lost, repeated or delivered to another connection. Correct
  means that both ends of a bound session believe the same.
* **Records at rest.** Encoding awaits a codec. Hooks, audience and record may all be
  others when it answers, and the oracle that dates a record is asked twice, without
  a lock. Correct means that a reader gets what was posted where it reads and for whom, or nothing,
  that clear fields match it, that stamps are fresh, and that no mask is used twice.
* **Wire forms.** A signature covers a re-encoding of what was decoded, not the bytes
  that came. Correct means that nothing escapes it and nothing honest is refused.
* **Service JWTs.** Which of a document's keys may sign for an issuer depends on two
  hints and the order of its methods, and the document is fetched in the middle of
  the call. Correct means that no other key's token is accepted, nor a token for
  longer than its window.

`PROJECT.json` lists every component with what is modelled of it, and every
hazard at its line.

## 2. Modules

| module | models | extends / instantiates |
|---|---|---|
| `AuditTrail` | what composite audit promises: per scope, what was recorded, unwound and reported, and the outcome | |
| `CompositeAudit` | `audit/composite.rs` with the guards of `audit/sinks.rs` | instantiates `AuditTrail` (refinement mapping) |
| `CompositeAuditInvariant`, `CompositeAuditProofs` | inductive invariant; theorems | |
| `ClaimReplay` | `verify_capability_claim` with `DefaultNonceTracker` | |
| `ClaimReplayInvariant`, `ClaimReplayProofs` | inductive invariant; theorems | |
| `RotationOracle` | `DefaultRotationOracle`, its worker and file, `resolve_rotation_generation` | |
| `DidResolver` | `DefaultDidResolver` for one DID, both caches | |
| `HelloReplay` | `verify_sync_hello` with `DefaultHandshakeNonceTracker` | |
| `HelloReplayProofs` | inductive invariant; theorems | |
| `BindPipeline` | issuance, bind and reborrow of the four proof classes | |
| `BindPipelineProofs` | inductive invariant; theorems | |
| `DidDocuments` | which keys a principal's document lists, as they rotate and retire | |
| `ChainWalk` | receipts, delegated claims, `verify_attribution_chain` | extends `DidDocuments` |
| `Derivation` | `AuthContext` (`ingress.rs`), `verify_trust_declaration` | extends `ChainWalk` |
| `DerivationProofs` | inductive invariants; theorems | |
| `SyncChannel` | the handshake and the claims on a channel (`verify_sync_*`), with the network | extends `DidDocuments` |
| `PrivatePost` | `at_rest.rs`, `encryption.rs`, the laquna codec, `post_content.rs`, record validation | |
| `WireForms` | encoding, decoding, canonical checks and signatures of claims, trust declarations and handshake messages | |
| `ServiceJwt` | `verify_jwt`, and the parsing of DID documents in `resolver.rs` | |
| `ResolutionProofs` | inductive invariants; theorems | extends `DidResolver`, `ServiceJwt` |
| `AtRestProofs` | inductive invariants; theorems | extends `RotationOracle`, `PrivatePost` |
| `WireProofs` | inductive invariants; theorems | extends `SyncChannel`, `WireForms` |
| `MC*` | instances for TLC | |

Each of the last three proof modules has two parts, about two models that share no
variable and no action: their common module is a matter of subject. Since it extends both,
`PrivatePost`, `ServiceJwt` and `WireForms` name their initial predicates,
next-state relations and clocks after themselves (`PostSpec`, `JwtSpec`, `FormsSpec`;
`hostClock`, `verifierClock`).

An operator whose comment begins "Mutation of" is a plausible bug in the operator
that follows it. It is used by no specification; substituting it shows that
the properties can fail.

### How state and actions correspond to the code

**CompositeAudit.** One `Scope` is one call of `composite_audit`. The op closure
is the phase "op" (`EmitEvent`, then `OpFails` or `OpSucceeds`). The commit loop
and the rollback loop make sink calls; a call is `EnterSink`, then one of
`SinkTakesEvent`, `SinkTakesMarker`, `SinkRejects`, `GuardedSinkPanics`,
`BareSinkPanics`, or, for a guarded sink that is terminated, `SinkTerminated`
without entering. `TerminatedSinkGuard::record` reads its flag, runs the sink
and sets the flag without holding anything in between, so `GuardTerminates` is a
step of its own and other scopes run between. `FallbackRecords` and
`FallbackPanics` are the two ends of `record_composite_failure`. Events are
their class and their position in the op; sinks are what they accepted. A sink
that returns `Err` or panics is taken to have recorded nothing, which is what
the code takes it for.

**ClaimReplay.** One `Request` is one call of `verify_capability_claim`. The steps
between two awaits are one action: `VerifyClaim` (structure, audience, window and
expiry against one clock reading), `IssuerResolved` / `IssuerNotResolved` (the
resolver, the algorithm and the signature), `RecordNonce` (the tracker's mutex
section, with the old reading), `WalkChain`. `Cancel` is the future being
dropped at an await. Steps 1 to 7 of the verification are one flag of the claim.

**RotationOracle.** `Encode` reads the outer clock, `CheckFreshness` is
`resolve_rotation_generation`, `AskGeneration` reads the inner clock, `FastPath`
and `SlowPath` are the two lock sections. `WorkerOpens` truncates the file and
`WorkerWrites` fills it, so that a `Crash` can leave it torn. `Restart` is
`construct`. The file keeps whole seconds, and so do the marks; the model's
clock is in those seconds.

**DidResolver.** One DID; `Cache` is which of the two caches a call uses. `Resolve`
is the look-up, `DirectoryAnswers` the directory's reading (which may be old by
the time it is used), `CompareWithCached` and `StoreDocument` the two later lock
sections. `invalidate` clears the two caches under two locks, hence two actions.
The directory publishes documents, deactivates and restores the DID; it is
external.

**HelloReplay.** As ClaimReplay, with `CheckAndRecord` being the whole mutex
section: sweep, membership test, eviction, insertion.

**BindPipeline.** One `Proof` goes through `Issue`, the bind of its class
(`BindUser`, `BindChannel`, `BindSubstrate`, `BindModeration`: the prechecks and the clock
readings), the stages of that class, the commit (`SinkTakes`,
`SinkRefuses`, `SinkUnwinds`), the equalization of the user class or the notice
of the moderation class, and any number of reborrows. Each oracle call is an
action of its own because oracles are shared objects other tasks update. The
scope of a bind queues one event, so the rollback of composite audit never has
anything to unwind there; that is why the commit has three outcomes and
`BindError::AuditPanicked` is not among them.

**DidDocuments, ChainWalk.** A principal's keys are numbered in the order they came
into use, and its document lists an interval of them: `verification_methods` and
`rotation_history` together, which is what `verify_hop` tries. `RotateKey` and
`RetireKey` move its ends at any time. `Delegate` appends an entry with a
receipt, honest or not: any principal may have signed it, over a payload that names the
principal before as grantor, and what it says of recipient and grant need not be what the entry says; `PresentClaim` puts the chain into a claim; then one
`VerifyHop` or `HopNotResolved` per hop, each a resolver await in the code, and
`FinishWalk` is the comparison of the claim with the chain's tail in
`verify_capability_claim`. A signature is the key that made it and the fields
it covers. That a receipt verifies "under one of the keys" is the code's trial
of each in turn.

**Derivation.** The five ways into an `AuthContext` and the three narrowings of
`derive_for`, whose `Outcome` lists the checks in the order of the code.
`contexts` holds the ingress context and all that were derived from it, since a
context is immutable and any of them can be narrowed again. `VerifyDeclaration` and
`DeriveFor` each read the clock for themselves.

**SyncChannel.** `net` is everything that was ever sent, and `Arriving` adds its mangled
forms; an action takes any message from it, for any connection. Message inputs
start with their domain tag. What the crate leaves to the host is what hosts are
told to do: a pending hello per connection, and a session looked up by its id.
`TakeEstablished` verifies under the key of the pending hello, which the message
does not name.

**PrivatePost.** A call goes `Write`, `ResolveGeneration` if there is an oracle, `CodecEncodes` or `CodecRefuses`, `StoreRecord`; or
`Read`, `CodecDecodes` or `CodecCannotDecode`, `Answered`; `Abandon` drops it at the
codec's await. Between any two of these, `Install` changes the hooks,
`MoveAudience` an audience list, `CopyRecord` a record, `Rotate` and `Sync` the
rotation and its replica. `Write` ends with the check of `last_synced_at`, `ResolveGeneration` is the call of
`current_generation` after it; the code has no await between them, so a call is not abandoned
there, but a sync may land. An artifact is its payload, its seed and its slug, and the codec that
made it; taking the mask off needs the seed. On the bytes of another codec laquna fails, and an operator's
codec may answer with anything (`Garbled`). `posted` is a history variable: it is added to when the host
stores a record and never by a copy, and knows nothing of codecs, seeds and masks. `told` is the event that a step offers.

**WireForms.** A CBOR value is a tuple with its major type in front, a map the function
from its known keys to values, with a count of unknown keys and a flag for key
order beside it. `Encode` and `Decode` go by the type of a field; what a
conversion loses is lost in the model: the fraction of a second, the
rotation evidence of an identity, the order of a set, which the encoding lists in ascending order
(`EncodeKindSet`). `Typed` says what the values of a field can be, and `FormsAssumption` that
senders make nothing else. `CanonicalTree` is the check for
claims and declarations, which re-encodes the value tree and so keeps unknown keys;
`CanonicalHandshake` re-encodes the decoded message. `Verdict` is the order
of the checks of each verifier, without clocks and awaits.

**ServiceJwt.** `Present` is `verify_jwt` up to its await, `Resolved` the rest, in the order
of the code; `Outcome` answers with the error of the first check that fails.
A document is a sequence of verification methods. `Published` are those that
`parse_did_document` keeps, `FirstMethod` is the first of some of them in the order it gives them,
and `KeyId` the id it makes for each. `SelectKey` puts what a rule pins, what a kid names and
what fits the algorithm together.

## 3. Runs

| run | instance | distinct states |
|---|---|---|
| `audit` | 2 scopes of 3 events and 1, shared sinks, User guarded, FairSpec | 145,228 |
| `claim_replay` | 3 calls, skew 1, validity 1, retention 4, cap 2, latency 1, clock to 5 | 743,511 |
| `rotation_oracle` | 2 threads, cadence 2, latency 1, clock to 4, 4 slugs | 1,259,423 |
| `did_resolver` | 2 calls, both caches, TTL 2 and 1, latency 1, clock to 3, 2 documents, 1 invalidation | 3,011,489 |
| `hello_replay` | 4 calls, 5 hellos, skew 1, window 3, cap 2, latency 1, clock to 5 | 3,315,406 |
| `bind_pipeline` | 1 proof, 6 kinds, MAX_AGE 2, oracle bounds 1, target 2, latency 1, clock to 5 | 3,820,974 |
| `delegation` | 2 services and a user, chains to depth 2, 1 rotation, 3 declarations, 2 derivations, skew 1, clock to 2 | 2,178,924 |
| `sync_channel` | 2 connections, 1 initiator and 2 responders, 1 rotation, 1 rejection, clock to 1 | 386,518 |
| `at_rest` | 2 calls, 2 places, 2 posts, 2 hooks, 2 audiences, 2 encodes, 2 moves of the host, freshness 1, clock to 3 | 1,319,434 |
| `wire_forms` | 11 messages of all 6 kinds, 2 of them made, 3 changes on the way | 686,680 |
| `service_jwt` | 3 keys, 4 documents, 16 requests, 2 tokens, skew 1, window 1, clock to 5 | 1,878,376 |
| `minted_claim` | as wire_forms (violation) | stops at the violation |

What each shows is in `PROJECT.json`; the formulas carry their own statement.

**Bounds, and why they are enough.**
`audit` has a scope of three events: enough for two classes to be committed
before a third fails, so that the order of the markers matters, or for one
class to be committed twice; and a scope of one event, the least with which one
scope can enter a guarded sink while the other is between its panic and its
flag. One guarded class and three bare ones cover both kinds.
`claim_replay` has three calls and six claims (one that comes again and again, a
delegated one, a nonce shared between two keys, a reversed interval, a forgery,
a window that is too long), a skew and a validity of one, and the least retention the theorem admits (4); a clock
to 5 lets a nonce be forgotten within the run. A cap of 2 is reached by three
calls.
`rotation_oracle` has two threads (the double check under the write lock needs
two) and a clock of twice the cadence, so two rotations, a crash and a restart
fit. `did_resolver` has two calls, which is enough for one to store over the
other, over an invalidation and over a tombstone. `hello_replay` has four
calls for a cap of two: the third pair evicts the first, the fourth replays it.
`bind_pipeline` has one proof, since proofs share only the oracles, which change
on their own; its six kinds take every path through the stages.
`delegation` builds chains of two hops, so that a hop is measured against the hop
before it and not only against the origin. Its seven hops are grants by each of the three
principals, wherever in the chain they are put, so that a receipt may be signed by the principal
before the hop or by another one; a service that hands on to itself; and hops that lie about their recipient or their
grant. One rotation of any of three principals, and a
retirement after it, can fall before, between and after the hops. Two
derivations on top of a chain of two pass the depth cap. `sync_channel` has two
connections, because every confusion of sessions needs two; whether they lead to
one responder or two is chosen at the start. `at_rest` has two calls in one
place and a second place that records are copied to; the constraint `Bounded` of
`MCPrivatePost` lets one call at a time read, since reads change nothing
the calls share. Two moves of the host are a copy and a change of its audience, or the hooks
replaced and put back. Time matters to stamps alone, and no call has a part in another's stamp; so
once the clock moves, `Stamping` keeps to laquna, one short post and one place, with no moves and
no reads, and one call at a time. The clock goes two instants past the freshness bound, so that a generation may be replaced,
the bound may pass, and a call may still begin, while syncs fall anywhere, also between the two questions
of a call. `wire_forms` makes two messages, so that a signature can be moved from one to
the other, and combines three changes; ceilings are so small that
a list of three kinds or a chain of two hops reaches them. `service_jwt` has a
document for each order and collision of methods, and a request for every check
of `verify_jwt`.
Calls are interchangeable where `Symmetry` is used, and only safety properties
are checked there.

`MaxTime`, `MaxHostTime`, `MaxVerifierTime`, `MaxDraws`, `MaxEvents`, `MaxSlug`, `MaxDoc`, `MaxEpoch`, `MaxTrail`, `MaxRotations`,
`MaxAttempts`, `MaxClaims`, `MaxRejects`, `MaxMoves`, `MaxMade`, `MaxEdits` and `MaxTokens` cap what is
unbounded in the code; they occur in guards only. `MaxLatency` is different: it
is how long a call may take from its clock reading to its last use of that
reading. The code bounds it by the caller's deadline, not by a constant, and
each property says how it depends on it. The clock never goes back in these
models: `SystemTime` may, and then none of the bounds on time hold.

**Fairness.** Only `EveryCommitSettles` and `PanickedSinkIsTerminated` are
liveness properties, under weak fairness of the steps of a scope that is past
its op (`Settle`). After the op the code awaits nothing: the commit and the
rollback are plain loops over synchronous calls, which the thread that polls
the future runs to their end. What is assumed is that an operator's sink
returns or panics. The op itself is not fair; it may await for ever, or be
dropped.

Deadlock checking is off where the calls of a run finish and its bounded clock
stops, as every run but the bind run does: there the oracles can always
synchronise.

## 4. Disagreements between the code and what is said of it

One is a run of its own, which expects the violation:

* `minted_claim`: a claim can be minted that its receiver refuses for its size or its
  depth, against `wire/claim.rs` 36-38.

For the others the formula stands in its module, with the text it contradicts; TLC
refutes it in a few seconds when it replaces the INVARIANTS of the configuration
named here.

* `PanickedSinkNotEntered` (`MCCompositeAudit.cfg`, as a PROPERTY): a guarded sink can be entered after it
  panicked, by a scope that read the flag before it was set (`audit/sinks.rs`
  153-157).
* `AcceptedAtMostOnce` (`MCClaimReplay.cfg` with Retention = 2, the documented floor): that floor
  (`wire/nonce.rs` 129-130, `wire/tracker.rs` 88-89) is one skew short. The
  default, 3700 s, exceeds the true floor, 3660 s.
* `FreshnessNeverTrips` (`MCRotationOracle.cfg`): a rotation by another thread trips the freshness check
  that the comment says never trips (`codec/laquna/mod.rs` 669-672).
* `InvalidateForcesRefetch` (`MCDidResolver.cfg`): a fetch in flight over an invalidation puts the
  old document back (`resolver.rs` 1181, 1195).
* `StaleBlockFailsClosed` (`MCBindPipeline.cfg`, as a PROPERTY, with a kind that asks no audience): bind does not look at the age of the block
  oracle's data (`oracle.rs` 187-188); a comment in `authority/proof.rs` 483-485 knows.
* `InvertedWindowRejected` (`MCSyncChannel.cfg` with Window <- MCInverted): no verifier rejects an
  inverted time window (`wire/handshake.rs` 178-180).
* `RefusedOnlyIfUnpublished` (`MCServiceJwt.cfg`): a key under two method ids that agree in 16 bytes is
  found under the first only (`verification.rs` 223-226).

Met while reading, without a run:

* `audit/sinks.rs` 83-84 says a panicking fallback sink aborts the process;
  `handle_rollback` catches the panic and returns
  `InconsistencyUnrecoverable`.
* `audit/events.rs` 1154-1155 says SinkPanicked events are recorded by the panic
  guard; nothing outside the tests calls `record_panic`.
* `authority/predicate.rs` 188 speaks of an audit sink panic as a bind error; a
  bare sink's panic unwinds through bind instead.
* `authority/mod.rs` 262-266 calls `issue_user` the chokepoint of the JWT-scope
  check; `issue_user` does not call it.
* `resolver.rs` 307-313 says the configured cache ages are capped; neither
  constructor clamps the trust-root age.
* `resolver.rs` 331-333 calls a cached tombstone permanent until an invalidation;
  a call that was in flight when it was stored replaces it (`TombstoneHolds` states
  what does hold).
* `wire/handshake_tracker.rs` 211-214 says any hit is within the live window; with
  readings out of order it may be older by the latency of a call
  (`ReplayIsTruthful`). A cap of zero holds one entry.
* `verification.rs` 405-407 says every JWT error is reachable; nothing returns
  `NonceReplay`, since `verify_jwt` has no tracker.
* A comment of `verify_claims_and_construct` says that an `iat` after `exp` is
  caught by the expiry check; within the skew it is accepted (`LifetimeBounded`
  holds all the same).
* `verification.rs` 432-435 says that without a kid any verification method is acceptable and that
  they are tried in document order; `select_signing_key` (805-857) takes the first of the token's
  algorithm and tries no other, and a rule that pins the issuer's fragment admits only that method
  (`SignerSpeaksForIssuer`).
* `identity.rs` 137-155 says that ES256 and ES256K end in `UnsupportedAlgorithm`; they are
  verified.
* EditPrivatePost and ParticipatePrivate declare a block query on the parent
  post's owner that bind does not ask (documented as pending).
* A sync of the audience oracle that lands after bind read its clock makes the
  freshest oracle look stale; the bind fails with `OracleStale`.

## 5. Proofs

Eight modules hold theorems, for every value of the constants that satisfies
the named assumptions of the models (bounds are numbers, guarded classes are
classes, a cadence is positive). Two theorems, `AtMostOnce` of either replay tracker,
take a condition on the configuration besides: `RetentionCovers` and `WindowCovers`,
which relate what a tracker remembers to skews and latencies. The crate's defaults meet
both as long as a call takes no longer than what they leave over (40 s for claims,
most of 24 h for hellos), and TLC finds a
claim accepted twice when the first is not met (section 4).

| module | theorem | of the runs' property |
|---|---|---|
| `CompositeAuditProofs` | `HonestResults`, `CommitOrder`, `RollbackOrder` | `ResultIsHonest`, `PrivilegedFirst`, `MarkersUnwindCommits` |
| | `ImplementsAuditTrail` | `AuditTrailContract` (refinement) |
| `ClaimReplayProofs` | `NoFalseReplay`, `NoLateAcceptance`, `AtMostOnce` | `ReplayHasWitness`, `AcceptedInTime`, `AcceptedAtMostOnce` |
| `DerivationProofs` | `AcceptedChains`, `RefusedChains` | `AcceptedIsGranted`, `RefusalHasCause` |
| | `ExplainedContexts`, `SourcedAuthority`, `TrailAgrees` | `ChainExplains`, `AuthorityHasSource`, `TrailMatchesContexts` |
| `HelloReplayProofs` | `InLockStep`, `AtMostOnce`, `TruthfulReplay` | `LockStep`, `AcceptedAtMostOnce`, `ReplayIsTruthful` |
| `BindPipelineProofs` | `OutcomesOnRecord`, `NoticesOnRecord` | `TrailMatchesOutcome`, `NoticeFollowsAudit` |
| | `RevocationIsHonoured`, `AnswersAreEqualized` | `RevocationHonoured`, `NoEarlyAnswer` |
| `ResolutionProofs` | `ServedFresh`, `SwapsReported`, `TombstonesHold` | `ServedWithinAge`, `SwapsAreAudited`, `TombstoneHolds` |
| | `JwtSignerSpeaksForIssuer`, `JwtLifetimeBounded` | `SignerSpeaksForIssuer`, `LifetimeBounded` |
| `AtRestProofs` | `ServedFresh`, `BoundedRewind` | `ServedWithinCadence`, `RewindBounded` |
| | `PersistsTheLast`, `NeverBack` | `PersistsInOrder`, `MarksNeverGoBack` |
| | `PostReadersGetWhatWasPosted`, `PostClearFieldsAgree` | `ReadersGetWhatWasPosted`, `ClearFieldsAgree` |
| | `PostStampedFresh`, `PostMaskNeverReused` | `StampedFresh`, `MaskNeverReused` |
| `WireProofs` | `GenuineEvidence`, `Agreement`, `SettledOnce` | `EvidenceIsGenuine`, `SessionAgreement`, `ClaimsSettleOnce` |
| | `FormsAcceptedIsSigned`, `FormsHandshakeFormIsUnique` | `AcceptedIsSigned`, `HandshakeFormIsUnique` |
| | `FormsHonestFormsAreRead` | `HonestFormsAreRead` |

All but `DerivationProofs` and `WireProofs` prove `TypeCorrect` too. Each
module has its `InductiveInvariant` (`JwtInvariant`, `PostInvariant` and `FormsInvariant` for
the second parts) and the argument it carries:

* **`CompositeAuditProofs`.** Honesty of the
  result is not inductive: when the last sink call returns, one must already
  know that `sinks_committed` is exactly the set of classes the trail holds events
  of, that the events not yet queued out are exactly the recorded ones, and that
  the markers sent are the targets the loop has passed. `ScopeInv` says this for
  one scope. Steps of another scope leave a scope's part alone (`Frame`), so the
  proof is by cases on the one scope that moves. In the refinement of `AuditTrail`
  only the sink's acceptance and the call's return are visible steps.
  The two orders need an invariant of their own, `OrderInv`: what a trail
  holds are events of the queue (`EntriesGenuine`), and the next class the rollback
  will mark lies below all it has marked (`MarkedBelowPending`).
* **`ClaimReplayProofs`.** For `AtMostOnce`, the invariant says that the nonce of a call that was
  called fresh is in the tracker, or else its retention is over by the true
  clock; that a call in flight read its clock no longer than MaxLatency ago and
  within the claim's interval; and so, that if the nonce is gone no copy of the
  claim can still be in flight. `StillKnown` is the arithmetic of that last
  step, and the place where two skews are needed. What does not depend on retention
  is `BaseInv`, which holds for any: types, witnesses and lateness follow from it alone.
* **`DerivationProofs`.** The chain walk first, for any depth and any number of
  rotations, and over hops that anyone signed: that a hop behind the walk is its predecessor's grant follows from
  the key that verified it, not from how the hop was made. That a claim asks for no more than each
  hop granted needs more than a comparison with the tail: every hop behind the walk is within all
  hops before it (`Narrowed`), although the code compares neighbours only. That a
  refused receipt has a lasting cause needs the keys of a document to come and go in order
  (`KeysInUse`). The types are without bounds (`LooseTypes`): the number
  of rotations is a bound of the instance and not a premise.
  Then the contexts. `ContextsInv` says of each that its chain can be replayed from its
  root; a replay is a function from the steps to the capabilities held after them (`Replays`),
  so a derivation extends the function by one value and no recursion is involved.
  `Counted` follows the trail's successes, a set whose size changes by one.
* **`HelloReplayProofs`.** The sweep removes from the front of the deque while the front is
  expired, and the deque is in the order of the mutex, not of the readings. So it
  is only almost sorted (`AlmostSorted`: no entry is later than one behind it by more than a
  latency), and an expired entry may stay behind a live front; `ReplayIsTruthful` bounds for how long.
  That the sweep stops somewhere is the least-element principle, by
  the library's theorem on the well-founded order of numbers. `Remembered` says that what was accepted
  is in the map, was evicted, or is past the window.
* **`BindPipelineProofs`.** `PhaseInv` lists what each phase says of trail, outcome
  and notice, `TimeInv` what the clock readings of a bind have to do with the oracle's
  last sync. A revocation takes effect in bounded time because an oracle's answer is true of its
  sync (`WorldInv`), and the freshness check ties the bind's reading to that sync.
* **`ResolutionProofs`, the resolver.** What a call holds was the DID's document at some instant since
  the call began, hence was replaced no earlier than that; what a cache holds expires no later than
  the TTL and a latency after its document was replaced or withdrawn (`CacheInv`).
  `raced` is the history variable that says whether the cache changed
  under a call: without a race the comparison still describes the cache when the document is stored.
* **`ResolutionProofs`, the JWTs.** Which method `SelectKey` finds is worked out branch by branch:
  the first of a set of methods is in the set, and there is one if the set is not empty.
  That it may speak for the issuer is then a matter of reading `Speaker`. The converse, that a refusal means that there is no such
  method, needs the key ids to be distinct, and only there. The lifetime follows from what each accepted
  token says of itself (`AcceptedInv`), because two tokens that were signed alike say the same.
* **`AtRestProofs`, the rotation oracle.** What a call is given is within the cadence of the
  call's own reading, and the generation in force moves back at
  most MaxLatency at a time: both rest on the readings of a call being no older
  than its latency (`TimeInv`). That a restart does not bring back an older generation
  needs to be known of everything that may still reach the file, or is in it: it is the generation in
  force, or one that is a cadence older (`DiskInv`), unless a rotation was overtaken.
* **`AtRestProofs`, the records.** `CallOk` says what a call carries from one of its steps to the next: a payload
  from which the post comes back in either form, content that seals what is about to be posted
  (`Seals`), under the codec it is stamped with, or a record that holds something posted. Since a seed is
  that of one place, or of one place and one audience, a reader whose seed fits reads where the post was put
  (`SeedsDiffer`), also in a copy. `posted` only grows, so what is posted stays so while a codec is at work.
  A call that is asking for its generation began no later than the freshness bound after the replica's
  sync; syncs only move on, and a replica holds a generation that was in force when it was last
  synced (`ReplicaInv`): so whichever sync the answer comes from, it is fresh. A rotation after that is
  later than the call (`StampKept`). The property cannot ask that a stamp be no later than the call's clock: a sync
  between the two questions brings a generation that began since. Masks are told apart by their slugs, each
  of which is drawn once (`MaskInv`).
* **`WireProofs`, the channel.** Every message of the network was sent by the one that could sign
  it (`Sent`), from a state that lasts: an accept by a responder that keeps the hello it answers, an
  established by an initiator that has verified the accept. `Agrees` for a bound session follows from the
  established that binds it.
  A mangled message carries a signature over something else and can only be
  refused. Claims are told apart by their nonces (`NoncesFresh`), so that a nonce burnt is a claim settled.
* **`WireProofs`, the forms.** The steps are easy: a form bears the signature of some message
  that was made (`FormOK`). What a verdict of acceptance means is a statement about every type of field, in two
  halves. `FieldRead`: whatever a field holds, if what is decoded from it encodes to the
  same as a value x, then what is decoded is what is left of x by the trip; so the re-encoding that a
  signature is checked against leaves no room for another reading. `FieldCarried`: the encoding of x decodes to
  that, and that is encoded as x is. The first half carries `AcceptedIsSigned`, the second
  `HonestFormsAreRead`, with the ceilings, the depth of a chain, and for whom the message is meant
  as its only conditions. Lists and chains are of any length.

TLC finds every invariant to hold on its component's instance, the unbounded types of
`DerivationProofs` excepted, which it cannot enumerate. Where the proofs showed what the models had left unsaid, it is now an
assumption or a definition: in `WireForms` the fields of a message have types, in `ServiceJwt` an entry of a
document is not the absent one, in `PrivatePost` no payload is and a post is its three parts, in `SyncChannel` no window is the value that stands for
an unbounded scope, in `DidResolver` there is a first document.

Only model-checked:

* `EveryCommitSettles` and `PanickedSinkIsTerminated`: liveness under fairness is outside the
  prover;
* the types of `SyncChannel` (`TypeOK` there; no configuration lists it, but it holds on the
  instance when it is added to the INVARIANTS): that keys stay below `MaxRotations` depends on a fold
  over all principals in the guard of `RotateKey`, which would need induction over data. The
  theorems do without it: they hold for any number of rotations.

## 6. Not modelled, and the plan

Left out for good:

* bytes: base64, JSON, the CBOR reader below a field, the curves, the streams and
  the compression of laquna, HTTP. The models keep what the callers tell apart:
  an error, a value, what is lost on the way.
* code that nothing calls: the issuance rate limiter (types and one computation; no code
  takes a token), the peer trust resolver (`resolver.rs`), the audit-payload encryption resolver
  (`encryption.rs`), `record_panic`.
* data: tiers and visibility (a table), subjects and targets (equality), generated lexicon
  types, re-exports, most audit events (constructed by no code of the crate), session
  digests and correlation keys (hashes).
* restarts of the in-memory trackers: they forget, and the crate leaves persistence to
  the host.
* the arithmetic on `SystemTime` near the end of its range: the skew is
  added to a stated expiry unchecked (`trust.rs`, `verification.rs`), which the
  models, whose times are small numbers, do not reach.

What is partly modelled and why is in the notes of `PROJECT.json`.

Every other property of a passing run is the statement of a theorem. What would add most now is
composition: `ClaimReplay`, whose `WalkChain` is one step, over `ChainWalk`; and a bind over
`CompositeAudit` itself, with several proofs in flight.
