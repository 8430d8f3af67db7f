------------------------------ MODULE DidResolver ---------------------------
(***************************************************************************)
(* DefaultDidResolver of src/resolver.rs, for one DID: two caches of its   *)
(* document, one for requests and one for trust roots, that concurrent     *)
(* calls fill from a directory and the operator may invalidate.  A call    *)
(* locks a cache three times, for the lookup, to compare with what is      *)
(* cached and to store, and awaits the fetcher in between.                 *)
(*                                                                         *)
(* The DID's documents are numbered in the order they are published; all   *)
(* of them differ in their verification methods.  The directory answers    *)
(* with the newest, or with a tombstone while the DID is deactivated.      *)
(***************************************************************************)
EXTENDS Naturals

CONSTANTS
    Call,              \* the callers of resolve and resolve_for_trust_root
    DocumentTTL,       \* ResolverConfig::max_document_cache_age
    TrustRootTTL,      \* ResolverConfig::max_trust_root_cache_age
    DocumentCeiling,   \* MAX_DID_DOCUMENT_CACHE_AGE
    MaxLatency,        \* what a call may take (the deadline of its fetch)
    MaxTime,           \* bound on the clock
    MaxDoc,            \* bound on the documents published
    MaxEpoch           \* bound on the operator's invalidations

ASSUME ResolverAssumption ==
    /\ DocumentTTL \in Nat /\ TrustRootTTL \in Nat
    /\ DocumentCeiling \in Nat
    /\ MaxLatency \in Nat /\ MaxTime \in Nat /\ MaxDoc \in Nat \ {0} /\ MaxEpoch \in Nat

VARIABLES
    clock,
    newest,      \* the document the directory holds
    tombstoned,  \* the DID is deactivated
    retired,     \* instants at which documents stopped being the newest
    cache,       \* document_cache and trust_root_cache
    operator,    \* where the operator's invalidate stands
    epoch,       \* history: invalidations completed
    phase,       \* where the call stands
    used,        \* the cache the call uses
    started,     \* when the call was made
    got,         \* the document the call fetched or was served
    reported,    \* the previous document of the DidDocumentRotated it emitted
    gotEpoch,    \* history: epoch in which the directory gave that document
    raced        \* history: the call's cache changed between its three locks

dirVars   == <<newest, tombstoned, retired>>
cacheVars == <<cache, operator, epoch>>
callVars  == <<phase, used, started, got, reported, gotEpoch, raced>>
vars      == <<clock, dirVars, cacheVars, callVars>>

Cache == {"document", "trust_root"}
Doc   == 1 .. MaxDoc
NoDoc == 0

ConfigTTL == [k \in Cache |-> IF k = "document" THEN DocumentTTL ELSE TrustRootTTL]

(* A CachedEntry with its expires_at, and the epoch of its fetch; or nothing. *)
Entry  == [kind : {"absent", "live", "tombstoned"}, doc : Doc \cup {NoDoc},
           until : Nat, epoch : Nat]
Absent == [kind |-> "absent", doc |-> NoDoc, until |-> 0, epoch |-> 0]
Tombstone == [kind |-> "tombstoned", doc |-> NoDoc, until |-> 0, epoch |-> 0]
Live(d, t, e) == [kind |-> "live", doc |-> d, until |-> t, epoch |-> e]

Phases == {"idle", "fetching", "parsed", "compared", "refused", "served"}

(* Every variable stays in its type; a call that has a document in hand got   *)
(* one that was published.                                                    *)
TypeOK ==
    /\ clock \in Nat /\ newest \in Doc /\ tombstoned \in BOOLEAN
    /\ retired \in [Doc -> Nat]
    /\ cache \in [Cache -> Entry]
    /\ operator \in {"idle", "document_removed"}
    /\ epoch \in Nat
    /\ phase \in [Call -> Phases]
    /\ used \in [Call -> Cache]
    /\ started \in [Call -> Nat]
    /\ got \in [Call -> Doc \cup {NoDoc}]
    /\ \A r \in Call : phase[r] \in {"parsed", "compared", "served"} =>
                           got[r] \in 1 .. newest
    /\ reported \in [Call -> Doc \cup {NoDoc}]
    /\ gotEpoch \in [Call -> Nat]
    /\ raced \in [Call -> BOOLEAN]

Init ==
    /\ clock = 0 /\ newest = 1 /\ tombstoned = FALSE
    /\ retired = [d \in Doc |-> 0]
    /\ cache = [k \in Cache |-> Absent]
    /\ operator = "idle" /\ epoch = 0
    /\ phase = [r \in Call |-> "idle"]
    /\ used = [r \in Call |-> "document"]
    /\ started = [r \in Call |-> 0]
    /\ got = [r \in Call |-> NoDoc]
    /\ reported = [r \in Call |-> NoDoc]
    /\ gotEpoch = [r \in Call |-> 0]
    /\ raced = [r \in Call |-> FALSE]

-----------------------------------------------------------------------------
(* The directory, and time.  A fetcher must not block past its deadline, so   *)
(* no call is under way for longer than MaxLatency.                           *)

Tick ==
    /\ clock < MaxTime
    /\ \A r \in Call : phase[r] # "idle" => clock < started[r] + MaxLatency
    /\ clock' = clock + 1
    /\ UNCHANGED <<dirVars, cacheVars, callVars>>

Publish ==
    /\ ~tombstoned
    /\ newest < MaxDoc
    /\ newest' = newest + 1
    /\ retired' = [retired EXCEPT ![newest] = clock]
    /\ UNCHANGED <<clock, tombstoned, cacheVars, callVars>>

Deactivate ==
    /\ ~tombstoned
    /\ tombstoned' = TRUE
    /\ retired' = [retired EXCEPT ![newest] = clock]
    /\ UNCHANGED <<clock, newest, cacheVars, callVars>>

(* The deactivation is undone: the case the operator invalidates for. *)
Restore ==
    /\ tombstoned
    /\ tombstoned' = FALSE
    /\ UNCHANGED <<clock, newest, retired, cacheVars, callVars>>

-----------------------------------------------------------------------------
(* resolve_with_cache *)

InFlight(r) == phase[r] \in {"fetching", "parsed", "compared", "refused"}

(* Which calls are raced, once cache k changes under them. *)
Raced(k) == [r \in Call |-> raced[r] \/ (InFlight(r) /\ used[r] = k)]

Goto(r, p) == phase' = [phase EXCEPT ![r] = p]

Forget(r) ==
    /\ Goto(r, "idle")
    /\ used' = [used EXCEPT ![r] = "document"]
    /\ started' = [started EXCEPT ![r] = 0]
    /\ got' = [got EXCEPT ![r] = NoDoc]
    /\ reported' = [reported EXCEPT ![r] = NoDoc]
    /\ gotEpoch' = [gotEpoch EXCEPT ![r] = 0]

(* The call is over: with an error, or its answer has been taken. *)
End(r) ==
    /\ Forget(r)
    /\ raced' = [raced EXCEPT ![r] = FALSE]

(* Mutation of Hit: the expiry is not looked at. *)
HitEvenIfStale(k) == cache[k].kind = "live"

Hit(k) == cache[k].kind = "live" /\ clock < cache[k].until

(* Mutation of Refused: a cached tombstone is a miss. *)
RefusedNever(k) == FALSE

Refused(k) == cache[k].kind = "tombstoned"

(* The cache lookup, when it does not find a tombstone: that call is over at  *)
(* once.                                                                      *)
Resolve(r, k) ==
    /\ phase[r] = "idle"
    /\ ~Refused(k)
    /\ used' = [used EXCEPT ![r] = k]
    /\ started' = [started EXCEPT ![r] = clock]
    /\ \/ Hit(k) /\ Goto(r, "served") /\ got' = [got EXCEPT ![r] = cache[k].doc]
       \/ ~Hit(k) /\ Goto(r, "fetching") /\ UNCHANGED got
    /\ UNCHANGED <<clock, dirVars, cacheVars, reported, gotEpoch, raced>>

AfterAnswer == IF tombstoned THEN "refused" ELSE "parsed"

(* The directory answers; parse_did_document succeeds. *)
DirectoryAnswers(r) ==
    /\ phase[r] = "fetching"
    /\ Goto(r, AfterAnswer)
    /\ got' = [got EXCEPT ![r] = IF tombstoned THEN NoDoc ELSE newest]
    /\ gotEpoch' = [gotEpoch EXCEPT ![r] = epoch]
    /\ UNCHANGED <<clock, dirVars, cacheVars, used, started, reported, raced>>

(* The fetch or the parse fails, or the caller drops the call while it awaits *)
(* the fetcher: the cache stays as it is, stale entry included.               *)
FetchFails(r) ==
    /\ phase[r] = "fetching"
    /\ End(r)
    /\ UNCHANGED <<clock, dirVars, cacheVars>>

StoreTombstone(r) ==
    /\ phase[r] = "refused"
    /\ cache' = [cache EXCEPT ![used[r]] = Tombstone]
    /\ Forget(r)
    /\ raced' = [Raced(used[r]) EXCEPT ![r] = FALSE]
    /\ UNCHANGED <<clock, dirVars, operator, epoch>>

(* The caller takes the document. *)
Return(r) ==
    /\ phase[r] = "served"
    /\ End(r)
    /\ UNCHANGED <<clock, dirVars, cacheVars>>

(* Mutation of Rotated: expired entries are not compared. *)
RotatedIfUnexpired(k, d) ==
    IF Hit(k) /\ cache[k].doc # d THEN cache[k].doc ELSE NoDoc

(* The document that document d is about to replace in cache k, if any. *)
Rotated(k, d) ==
    IF cache[k].kind = "live" /\ cache[k].doc # d THEN cache[k].doc ELSE NoDoc

(* The comparison with what is cached, and emit_rotation_audit. *)
CompareWithCached(r) ==
    /\ phase[r] = "parsed"
    /\ reported' = [reported EXCEPT ![r] = Rotated(used[r], got[r])]
    /\ Goto(r, "compared")
    /\ UNCHANGED <<clock, dirVars, cacheVars, used, started, got, gotEpoch, raced>>

(* resolver_cache_max_age of a parsed document is MAX_DID_DOCUMENT_CACHE_AGE. *)
TTL(k) == IF DocumentCeiling < ConfigTTL[k] THEN DocumentCeiling ELSE ConfigTTL[k]

ExpiresAt(k) == clock + TTL(k)

StoreDocument(r) ==
    /\ phase[r] = "compared"
    /\ cache' = [cache EXCEPT ![used[r]] = Live(got[r], ExpiresAt(used[r]), gotEpoch[r])]
    /\ Goto(r, "served")
    /\ raced' = [Raced(used[r]) EXCEPT ![r] = raced[r]]
    /\ UNCHANGED <<clock, dirVars, operator, epoch, used, started, got, reported,
                   gotEpoch>>

-----------------------------------------------------------------------------
(* invalidate: the two caches are locked one after the other.                 *)

InvalidateDocument ==
    /\ operator = "idle"
    /\ epoch < MaxEpoch
    /\ operator' = "document_removed"
    /\ cache' = [cache EXCEPT !["document"] = Absent]
    /\ raced' = Raced("document")
    /\ UNCHANGED <<clock, dirVars, epoch, phase, used, started, got, reported, gotEpoch>>

InvalidateTrustRoot ==
    /\ operator = "document_removed"
    /\ operator' = "idle"
    /\ cache' = [cache EXCEPT !["trust_root"] = Absent]
    /\ epoch' = epoch + 1
    /\ raced' = Raced("trust_root")
    /\ UNCHANGED <<clock, dirVars, phase, used, started, got, reported, gotEpoch>>

-----------------------------------------------------------------------------
Step(r) ==
    \/ \E k \in Cache : Resolve(r, k)
    \/ DirectoryAnswers(r) \/ FetchFails(r) \/ StoreTombstone(r)
    \/ CompareWithCached(r) \/ StoreDocument(r) \/ Return(r)

Invalidate == InvalidateDocument \/ InvalidateTrustRoot

Next ==
    \/ Tick \/ Publish \/ Deactivate \/ Restore
    \/ Invalidate
    \/ \E r \in Call : Step(r)

Spec == Init /\ [][Next]_vars

-----------------------------------------------------------------------------
(* Properties *)

(* The age a served document may have: it is cached for its TTL, counted from *)
(* the moment it is stored, which may be one latency after it was fetched.    *)
MaxAge(k) == TTL(k) + MaxLatency

(* The step by which the call is served a document, if it is one, serves the  *)
(* DID's document, or one that stopped being it no more than MaxAge ago.      *)
ServesInAge(r) ==
    phase[r] # "served" /\ phase'[r] = "served" =>
        \/ got'[r] = newest /\ ~tombstoned
        \/ clock <= retired[got'[r]] + MaxAge(used'[r])

(* The step by which the call replaces a document by another, if it is one,   *)
(* comes after the report of exactly these two: unless the call's cache was   *)
(* changed by someone else between its locks.                                 *)
SwapIsReported(r) ==
    LET old == cache[used[r]]
        swaps == /\ phase[r] = "compared" /\ phase'[r] = "served"
                 /\ old.kind = "live" /\ old.doc # got[r]
    IN  swaps /\ ~raced[r] => reported[r] = old.doc

(* The step by which a tombstone leaves the cache, if it is one, is the       *)
(* operator's, or that of a call under way when the tombstone was stored.     *)
LiftedWithCause(k) ==
    cache[k].kind = "tombstoned" /\ cache'[k].kind # "tombstoned" =>
        \/ operator' # operator
        \/ \E r \in Call : phase[r] = "compared" /\ used[r] = k /\ raced[r]

(* A document is never served more than MaxAge after it stopped being the     *)
(* DID's document, whichever calls stored it, in whatever order.              *)
ServedWithinAge == [][\A r \in Call : ServesInAge(r)]_vars

(* A cached document that is replaced by another has been reported as         *)
(* rotated, even if it had expired.                                           *)
SwapsAreAudited == [][\A r \in Call : SwapIsReported(r)]_vars

(* A cached tombstone is lifted by the operator's invalidate, or by a call    *)
(* that was already under way when the tombstone was stored, and by no other. *)
TombstoneHolds == [][\A k \in Cache : LiftedWithCause(k)]_vars

(* An invalidate that has completed forces a refetch: no cache holds a        *)
(* document the directory gave before it (the test on invalidate).            *)
InvalidateForcesRefetch ==
    operator = "idle" =>
        \A k \in Cache : cache[k].kind = "live" => cache[k].epoch = epoch
=============================================================================
