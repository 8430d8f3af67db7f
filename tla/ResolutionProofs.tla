-------------------------- MODULE ResolutionProofs -------------------------
(***************************************************************************)
(* Proofs about how documents are resolved and used, in two parts that     *)
(* share no variable:                                                      *)
(*                                                                         *)
(*  - DidResolver, for any number of concurrent calls, any TTLs and any    *)
(*    history of the directory: a document is served no longer than its    *)
(*    TTL and one latency after it was replaced or withdrawn, a swap that  *)
(*    nobody raced is reported, and a cached tombstone holds;              *)
(*  - ServiceJwt, for any documents, rules, tokens and clock: verify_jwt   *)
(*    accepts what a key signed that may speak for the issuer, over one    *)
(*    span of the validity window and twice the skew.                      *)
(***************************************************************************)
EXTENDS DidResolver, ServiceJwt, WellFoundedInduction, TLAPS

-----------------------------------------------------------------------------
(* DidResolver: the inductive invariant, in parts. *)

(* The directory would answer with document d. *)
Current(d) == d = newest /\ ~tombstoned

(* A cached document expires within its TTL of now, and not later than MaxAge *)
(* after it stopped being the DID's document.                                 *)
CacheInv(k) ==
    cache[k].kind = "live" =>
        /\ cache[k].doc \in 1 .. newest
        /\ cache[k].until <= clock + TTL(k)
        /\ Current(cache[k].doc) \/ cache[k].until <= retired[cache[k].doc] + MaxAge(k)

(* What a call has in hand was the DID's document at some instant since the   *)
(* call was made; and unless its cache was changed under it, the cache is     *)
(* still as the call found it.                                                *)
CallInv(r) ==
    /\ started[r] <= clock
    /\ phase[r] # "idle" => clock <= started[r] + MaxLatency
    /\ phase[r] \in {"parsed", "compared"} =>
          /\ got[r] \in 1 .. newest
          /\ Current(got[r]) \/ started[r] <= retired[got[r]]
    /\ InFlight(r) /\ ~raced[r] => cache[used[r]].kind # "tombstoned"
    /\ phase[r] = "compared" /\ ~raced[r] => reported[r] = Rotated(used[r], got[r])

IInv ==
    /\ TypeOK
    /\ \A d \in Doc : retired[d] <= clock
    /\ \A k \in Cache : CacheInv(k)
    /\ \A r \in Call : CallInv(r)

-----------------------------------------------------------------------------
(* Types *)

LEMMA Ages ==
    ASSUME NEW k \in Cache
    PROVE  TTL(k) \in Nat /\ MaxAge(k) \in Nat /\ TTL(k) <= MaxAge(k)
<1>1. ConfigTTL[k] \in Nat
  BY ResolverAssumption DEF ConfigTTL
<1>2. TTL(k) \in Nat
  BY <1>1, ResolverAssumption DEF TTL
<1>3. QED
  BY <1>2, ResolverAssumption DEF MaxAge

LEMMA Documents ==
    ASSUME TypeOK
    PROVE  /\ newest \in Nat /\ newest \in Doc /\ 1 .. newest \subseteq Doc
           /\ clock \in Nat /\ MaxLatency \in Nat /\ MaxDoc \in Nat
           /\ \A d \in Doc : retired[d] \in Nat /\ d \in Nat
           /\ \A k \in Cache : cache[k] \in Entry /\ cache[k].until \in Nat
           /\ \A r \in Call : started[r] \in Nat /\ used[r] \in Cache
BY ResolverAssumption DEF TypeOK, Doc, Entry

LEMMA EntryTypes ==
    /\ Absent \in Entry /\ Tombstone \in Entry
    /\ \A d \in Doc, t \in Nat, e \in Nat : Live(d, t, e) \in Entry
    /\ Absent.kind = "absent" /\ Tombstone.kind = "tombstoned"
    /\ \A d, t, e : /\ Live(d, t, e).kind = "live" /\ Live(d, t, e).doc = d
                    /\ Live(d, t, e).until = t
BY DEF Absent, Tombstone, Live, Entry

(* The variables of the calls are functions on them. *)
Functional ==
    /\ phase \in [Call -> Phases] /\ used \in [Call -> Cache] /\ started \in [Call -> Nat]
    /\ got \in [Call -> Doc \cup {NoDoc}] /\ reported \in [Call -> Doc \cup {NoDoc}]
    /\ gotEpoch \in [Call -> Nat] /\ raced \in [Call -> BOOLEAN]

LEMMA InvFunctional == TypeOK => Functional
BY DEF TypeOK, Functional

LEMMA ForgetTyped ==
    ASSUME Functional, NEW r \in Call, Forget(r)
    PROVE  /\ phase' \in [Call -> Phases] /\ used' \in [Call -> Cache]
           /\ started' \in [Call -> Nat] /\ got' \in [Call -> Doc \cup {NoDoc}]
           /\ reported' \in [Call -> Doc \cup {NoDoc}] /\ gotEpoch' \in [Call -> Nat]
           /\ phase'[r] = "idle" /\ started'[r] = 0
           /\ \A q \in Call \ {r} :
                 /\ phase'[q] = phase[q] /\ used'[q] = used[q] /\ started'[q] = started[q]
                 /\ got'[q] = got[q] /\ reported'[q] = reported[q]
BY DEF Forget, Goto, Functional, Phases, Cache

LEMMA RacedTyped ==
    ASSUME Functional, NEW k
    PROVE  /\ Raced(k) \in [Call -> BOOLEAN]
           /\ \A q \in Call : InFlight(q) /\ used[q] = k => Raced(k)[q]
           /\ \A q \in Call : used[q] # k => Raced(k)[q] = raced[q]
<1>1. Raced(k) = [r \in Call |-> raced[r] \/ (InFlight(r) /\ used[r] = k)]
  BY DEF Raced
<1>2. \A q \in Call : Raced(k)[q] = (raced[q] \/ (InFlight(q) /\ used[q] = k))
  BY <1>1
<1>3. \A q \in Call : raced[q] \in BOOLEAN /\ InFlight(q) \in BOOLEAN
  BY DEF Functional, InFlight
<1>4. \A q \in Call : used[q] # k => Raced(k)[q] = raced[q]
  BY <1>2, <1>3
<1>5. QED
  BY <1>1, <1>2, <1>3, <1>4

-----------------------------------------------------------------------------
(* What a step of one call does to the others. *)

(* Call q did not move, and its cache only changed if q knows. *)
Undisturbed(q) ==
    /\ phase'[q] = phase[q] /\ used'[q] = used[q] /\ started'[q] = started[q]
    /\ got'[q] = got[q] /\ reported'[q] = reported[q]
    /\ \/ raced'[q] = raced[q] /\ cache'[used[q]] = cache[used[q]]
       \/ InFlight(q) => raced'[q]

LEMMA StepOthers ==
    ASSUME TypeOK, NEW r \in Call, Step(r)
    PROVE  UNCHANGED <<clock, dirVars>> /\ \A q \in Call \ {r} : Undisturbed(q)
<1>a. Functional /\ cache \in [Cache -> Entry] /\ used[r] \in Cache /\ \A q \in Call : used[q] \in Cache
  BY InvFunctional DEF TypeOK
<1> USE DEF Functional, Undisturbed
<1>1. ASSUME NEW k \in Cache, Resolve(r, k)
      PROVE  UNCHANGED <<clock, dirVars>> /\ \A q \in Call \ {r} : Undisturbed(q)
  BY <1>1, <1>a DEF Resolve, Goto, cacheVars
<1>2. CASE DirectoryAnswers(r)
  BY <1>2, <1>a DEF DirectoryAnswers, Goto, cacheVars
<1>3. CASE FetchFails(r) \/ Return(r)
  <2>1. End(r) /\ UNCHANGED <<clock, dirVars, cache>>
    BY <1>3 DEF FetchFails, Return, cacheVars
  <2>2. \A q \in Call \ {r} : raced'[q] = raced[q]
    BY <1>a, <2>1 DEF End
  <2>3. QED
    BY <1>a, <2>1, <2>2, ForgetTyped DEF End
<1>4. CASE StoreTombstone(r)
  <2>1. /\ Forget(r) /\ UNCHANGED <<clock, dirVars>>
        /\ cache' = [cache EXCEPT ![used[r]] = Tombstone]
        /\ raced' = [Raced(used[r]) EXCEPT ![r] = FALSE]
    BY <1>4 DEF StoreTombstone
  <2>2. \A q \in Call \ {r} : raced'[q] = Raced(used[r])[q]
    BY <1>a, <2>1, RacedTyped
  <2>3. QED
    BY <1>a, <2>1, <2>2, ForgetTyped, RacedTyped
<1>5. CASE CompareWithCached(r)
  BY <1>5, <1>a DEF CompareWithCached, Goto, cacheVars
<1>6. CASE StoreDocument(r)
  <2>1. /\ UNCHANGED <<clock, dirVars, used, started, got, reported>> /\ Goto(r, "served")
        /\ \E e : cache' = [cache EXCEPT ![used[r]] = e]
        /\ raced' = [Raced(used[r]) EXCEPT ![r] = raced[r]]
    BY <1>6 DEF StoreDocument
  <2>2. \A q \in Call \ {r} : raced'[q] = Raced(used[r])[q]
    BY <1>a, <2>1, RacedTyped
  <2>3. QED
    BY <1>a, <2>1, <2>2, RacedTyped DEF Goto
<1>7. QED
  BY <1>1, <1>2, <1>3, <1>4, <1>5, <1>6 DEF Step

LEMMA KeepsCall ==
    ASSUME NEW q \in Call, CallInv(q), Undisturbed(q), UNCHANGED <<clock, dirVars>>,
           raced[q] \in BOOLEAN, used[q] \in Cache
    PROVE  CallInv(q)'
<1>1. CASE raced'[q] = raced[q] /\ cache'[used[q]] = cache[used[q]]
  BY <1>1 DEF CallInv, Undisturbed, dirVars, Current, InFlight, Rotated
<1>2. CASE InFlight(q) => raced'[q]
  BY <1>2 DEF CallInv, Undisturbed, dirVars, Current, InFlight
<1>3. QED
  BY <1>1, <1>2 DEF Undisturbed

LEMMA KeepsCache ==
    ASSUME NEW k \in Cache, CacheInv(k), cache'[k] = cache[k], UNCHANGED <<clock, dirVars>>
    PROVE  CacheInv(k)'
BY DEF CacheInv, dirVars, Current, TTL, MaxAge

-----------------------------------------------------------------------------
(* The call that moves, and its cache. *)

(* A call that is over, or that is served, owes nothing but its age. *)
LEMMA IdleInv ==
    ASSUME NEW r \in Call, clock' = clock, clock \in Nat,
           phase'[r] = "idle" /\ started'[r] = 0
    PROVE  CallInv(r)'
BY DEF CallInv, InFlight

LEMMA ServedInv ==
    ASSUME NEW r \in Call, clock' = clock, phase'[r] = "served",
           started'[r] <= clock, clock <= started'[r] + MaxLatency
    PROVE  CallInv(r)'
BY DEF CallInv, InFlight

LEMMA StepCall ==
    ASSUME IInv, NEW r \in Call, Step(r)
    PROVE  CallInv(r)'
<1>a. /\ Functional /\ CallInv(r) /\ UNCHANGED <<clock, dirVars>> /\ TypeOK
      /\ used[r] \in Cache /\ raced[r] \in BOOLEAN /\ started[r] \in Nat
  BY InvFunctional, StepOthers DEF IInv, TypeOK
<1>b. /\ newest \in Nat /\ newest \in Doc /\ clock \in Nat /\ MaxLatency \in Nat
      /\ \A d \in Doc : retired[d] \in Nat /\ d \in Nat
      /\ MaxDoc \in Nat
  BY <1>a, Documents
<1>c. clock' = clock /\ newest' = newest /\ tombstoned' = tombstoned /\ retired' = retired
  BY <1>a DEF dirVars
<1> USE DEF Functional
<1>1. ASSUME NEW k \in Cache, Resolve(r, k) PROVE CallInv(r)'
  <2>1. /\ used'[r] = k /\ started'[r] = clock /\ UNCHANGED <<cache, raced>>
        /\ cache[k].kind # "tombstoned" /\ phase'[r] \in {"served", "fetching"}
    BY <1>1, <1>a DEF Resolve, Goto, Refused, cacheVars
  <2>2. QED
    BY <1>b, <1>c, <2>1 DEF CallInv, InFlight
<1>2. CASE DirectoryAnswers(r)
  <2>1. /\ phase[r] = "fetching" /\ UNCHANGED <<used, started, reported, raced, cache>>
        /\ phase'[r] = (IF tombstoned THEN "refused" ELSE "parsed")
        /\ got'[r] = IF tombstoned THEN NoDoc ELSE newest
    BY <1>2, <1>a DEF DirectoryAnswers, Goto, AfterAnswer, cacheVars
  <2>2. started[r] <= clock /\ clock <= started[r] + MaxLatency
    BY <1>a, <2>1 DEF CallInv
  <2>3. ~raced[r] => cache[used[r]].kind # "tombstoned"
    BY <1>a, <2>1 DEF CallInv, InFlight
  <2>4. CASE tombstoned
    BY <1>c, <2>1, <2>2, <2>3, <2>4 DEF CallInv, InFlight
  <2>5. CASE ~tombstoned
    <3>1. newest \in 1 .. newest
      BY <1>b DEF Doc
    <3>2. QED
      BY <1>c, <2>1, <2>2, <2>3, <2>5, <3>1 DEF CallInv, InFlight, Current
  <2>6. QED
    BY <2>4, <2>5
<1>3. CASE FetchFails(r) \/ Return(r) \/ StoreTombstone(r)
  <2>1. Forget(r)
    BY <1>3 DEF FetchFails, Return, StoreTombstone, End
  <2>2. QED
    BY <1>a, <1>b, <1>c, <2>1, ForgetTyped, IdleInv
<1>4. CASE CompareWithCached(r)
  <2>1. /\ phase[r] = "parsed" /\ phase'[r] = "compared"
        /\ UNCHANGED <<used, started, got, raced, cache>>
        /\ reported'[r] = Rotated(used[r], got[r])
    BY <1>4, <1>a DEF CompareWithCached, Goto, cacheVars
  <2>2. /\ started[r] <= clock /\ clock <= started[r] + MaxLatency
        /\ got[r] \in 1 .. newest /\ (Current(got[r]) \/ started[r] <= retired[got[r]])
        /\ ~raced[r] => cache[used[r]].kind # "tombstoned"
    BY <1>a, <2>1 DEF CallInv, InFlight
  <2>3. QED
    BY <1>c, <2>1, <2>2 DEF CallInv, InFlight, Current, Rotated
<1>5. CASE StoreDocument(r)
  <2>1. phase[r] = "compared" /\ phase'[r] = "served" /\ UNCHANGED <<used, started>>
    BY <1>5, <1>a DEF StoreDocument, Goto
  <2>2. started[r] <= clock /\ clock <= started[r] + MaxLatency
    BY <1>a, <2>1 DEF CallInv
  <2>3. QED
    BY <1>c, <2>1, <2>2, ServedInv
<1>6. QED
  BY <1>1, <1>2, <1>3, <1>4, <1>5 DEF Step

(* A step of a call leaves the caches alone, or stores a tombstone or the     *)
(* document it has in hand.                                                   *)
LEMMA StepStores ==
    ASSUME TypeOK, NEW r \in Call, Step(r)
    PROVE  \/ cache' = cache
           \/ StoreTombstone(r) /\ cache' = [cache EXCEPT ![used[r]] = Tombstone]
           \/ /\ StoreDocument(r)
              /\ cache' = [cache EXCEPT ![used[r]] =
                              Live(got[r], ExpiresAt(used[r]), gotEpoch[r])]
BY DEF Step, Resolve, DirectoryAnswers, FetchFails, StoreTombstone, CompareWithCached,
       StoreDocument, Return, cacheVars

LEMMA StepCache ==
    ASSUME IInv, NEW r \in Call, Step(r), NEW k \in Cache
    PROVE  CacheInv(k)'
<1>a. /\ CallInv(r) /\ CacheInv(k) /\ UNCHANGED <<clock, dirVars>> /\ TypeOK
      /\ cache \in [Cache -> Entry] /\ used[r] \in Cache /\ started[r] \in Nat
      /\ newest \in Nat /\ 1 .. newest \subseteq Doc /\ clock \in Nat /\ MaxLatency \in Nat
      /\ \A d \in Doc : retired[d] \in Nat
  BY StepOthers, Documents DEF IInv, TypeOK
<1>c. clock' = clock /\ newest' = newest /\ tombstoned' = tombstoned /\ retired' = retired
  BY <1>a DEF dirVars
<1>1. CASE cache'[k] = cache[k]
  BY <1>a, <1>1, KeepsCache
<1>2. CASE cache'[k] = Tombstone
  BY <1>2, EntryTypes DEF CacheInv
<1>3. CASE StoreDocument(r) /\ k = used[r]
           /\ cache'[k] = Live(got[r], ExpiresAt(used[r]), gotEpoch[r])
  <2>1. /\ cache'[k].doc = got[r] /\ cache'[k].until = clock + TTL(k)
    BY <1>3, EntryTypes DEF ExpiresAt
  <2>2. /\ got[r] \in 1 .. newest /\ (Current(got[r]) \/ started[r] <= retired[got[r]])
        /\ clock <= started[r] + MaxLatency
    BY <1>a, <1>3 DEF CallInv, StoreDocument
  <2>3. TTL(k) \in Nat /\ retired[got[r]] \in Nat
    BY <1>a, <2>2, Ages
  <2>4. Current(got[r]) \/ cache'[k].until <= retired[got[r]] + MaxAge(k)
    BY <1>a, <2>1, <2>2, <2>3 DEF MaxAge
  <2>5. cache'[k].until <= clock + TTL(k)
    BY <1>a, <2>1, <2>3
  <2>6. QED
    BY <1>c, <2>1, <2>2, <2>4, <2>5 DEF CacheInv, Current, TTL, MaxAge
<1>4. QED
  BY <1>a, <1>1, <1>2, <1>3, StepStores

LEMMA StepTyped ==
    ASSUME IInv, NEW r \in Call, Step(r), \A q \in Call : CallInv(q)'
    PROVE  TypeOK'
<1>a. /\ Functional /\ UNCHANGED <<clock, dirVars>> /\ TypeOK /\ CallInv(r)
      /\ \A k \in Cache : CacheInv(k)
      /\ cache \in [Cache -> Entry] /\ used[r] \in Cache
      /\ newest \in Nat /\ newest \in Doc /\ 1 .. newest \subseteq Doc /\ clock \in Nat
      /\ epoch \in Nat /\ operator \in {"idle", "document_removed"}
  BY InvFunctional, StepOthers, Documents DEF IInv, TypeOK
<1> USE DEF Functional
<1>1. operator' = operator /\ epoch' = epoch
  BY DEF Step, Resolve, DirectoryAnswers, FetchFails, StoreTombstone, CompareWithCached,
         StoreDocument, Return, cacheVars
<1>2. cache' \in [Cache -> Entry]
  <2>1. CASE cache' = cache
    BY <1>a, <2>1
  <2>2. CASE cache' = [cache EXCEPT ![used[r]] = Tombstone]
    BY <1>a, <2>2, EntryTypes
  <2>3. CASE StoreDocument(r) /\ cache' = [cache EXCEPT ![used[r]] =
                                     Live(got[r], ExpiresAt(used[r]), gotEpoch[r])]
    <3>1. got[r] \in Doc
      BY <1>a, <2>3 DEF StoreDocument, CallInv
    <3>2. ExpiresAt(used[r]) \in Nat /\ gotEpoch[r] \in Nat
      BY <1>a, Ages DEF ExpiresAt
    <3>3. Live(got[r], ExpiresAt(used[r]), gotEpoch[r]) \in Entry
      BY <3>1, <3>2, EntryTypes
    <3>4. QED
      BY <1>a, <2>3, <3>3
  <2>4. QED
    BY <1>a, <2>1, <2>2, <2>3, StepStores
<1>3. Functional'
  <2>1. ASSUME NEW k \in Cache, Resolve(r, k) PROVE Functional'
    <3>1. cache[k].doc \in Doc \cup {NoDoc}
      BY <1>a DEF Entry
    <3>2. QED
      BY <1>a, <2>1, <3>1 DEF Resolve, Goto, Phases
  <2>2. CASE DirectoryAnswers(r)
    BY <1>a, <2>2 DEF DirectoryAnswers, Goto, AfterAnswer, Phases
  <2>3. CASE FetchFails(r) \/ Return(r)
    <3>1. Forget(r) /\ raced' = [raced EXCEPT ![r] = FALSE]
      BY <2>3 DEF FetchFails, Return, End
    <3>2. QED
      BY <1>a, <3>1, ForgetTyped
  <2>4. CASE StoreTombstone(r)
    <3>1. Forget(r) /\ raced' = [Raced(used[r]) EXCEPT ![r] = FALSE]
      BY <2>4 DEF StoreTombstone
    <3>2. QED
      BY <1>a, <3>1, ForgetTyped, RacedTyped
  <2>5. CASE CompareWithCached(r)
    <3>1. Rotated(used[r], got[r]) \in Doc \cup {NoDoc}
      BY <1>a DEF Rotated, Entry
    <3>2. QED
      BY <1>a, <2>5, <3>1 DEF CompareWithCached, Goto, Phases
  <2>6. CASE StoreDocument(r)
    <3>1. raced' = [Raced(used[r]) EXCEPT ![r] = raced[r]]
      BY <2>6 DEF StoreDocument
    <3>2. raced' \in [Call -> BOOLEAN]
      BY <1>a, <3>1, RacedTyped
    <3>3. QED
      BY <1>a, <2>6, <3>2 DEF StoreDocument, Goto, Phases
  <2>7. QED
    BY <2>1, <2>2, <2>3, <2>4, <2>5, <2>6 DEF Step
<1>4. ASSUME NEW q \in Call, phase'[q] \in {"parsed", "compared", "served"}
      PROVE  got'[q] \in 1 .. newest
  <2>1. newest' = newest
    BY <1>a DEF dirVars
  <2>2. CASE q # r
    <3>1. phase'[q] = phase[q] /\ got'[q] = got[q]
      BY <1>a, <2>2, StepOthers DEF Undisturbed
    <3>2. QED
      BY <1>4, <1>a, <3>1 DEF TypeOK
  <2>3. CASE phase'[q] \in {"parsed", "compared"}
    BY <1>a, <2>1, <2>3 DEF CallInv
  <2>4. CASE q = r /\ phase'[r] = "served"
    <3>1. ASSUME NEW k \in Cache, Resolve(r, k) PROVE got'[r] \in 1 .. newest
      <4>1. Hit(k) /\ got' = [got EXCEPT ![r] = cache[k].doc]
        BY <1>a, <2>4, <3>1 DEF Resolve, Goto
      <4>2. got'[r] = cache[k].doc /\ cache[k].kind = "live"
        BY <1>a, <4>1 DEF Hit
      <4>3. QED
        BY <1>a, <4>2 DEF CacheInv
    <3>2. CASE StoreDocument(r)
      BY <1>a, <2>4, <3>2 DEF StoreDocument, CallInv
    <3>3. ~(DirectoryAnswers(r) \/ CompareWithCached(r))
      BY <1>a, <2>4 DEF DirectoryAnswers, CompareWithCached, Goto, AfterAnswer
    <3>4. ~(FetchFails(r) \/ Return(r) \/ StoreTombstone(r))
      BY <1>a, <2>4, ForgetTyped DEF FetchFails, Return, StoreTombstone, End
    <3>5. QED
      BY <2>4, <3>1, <3>2, <3>3, <3>4 DEF Step
  <2>5. QED
    BY <1>4, <2>2, <2>3, <2>4
<1>5. UNCHANGED <<clock, newest, tombstoned, retired>>
  BY <1>a DEF dirVars
<1>6. QED
  BY <1>1, <1>2, <1>3, <1>4, <1>5 DEF TypeOK, IInv
LEMMA StepInv ==
    ASSUME IInv, NEW r \in Call, Step(r)
    PROVE  IInv'
<1>1. \A q \in Call : CallInv(q)'
  <2>1. ASSUME NEW q \in Call PROVE CallInv(q) /\ raced[q] \in BOOLEAN /\ used[q] \in Cache
    BY <2>1 DEF IInv, TypeOK
  <2>2. ASSUME NEW q \in Call \ {r} PROVE CallInv(q)'
    BY <2>1, <2>2, StepOthers, KeepsCall DEF IInv
  <2>3. QED
    BY <2>2, StepCall
<1>2. \A k \in Cache : CacheInv(k)'
  BY StepCache
<1>3. TypeOK'
  BY <1>1, StepTyped
<1>4. UNCHANGED <<clock, retired>>
  BY StepOthers DEF IInv, dirVars
<1>5. QED
  BY <1>1, <1>2, <1>3, <1>4 DEF IInv

-----------------------------------------------------------------------------
(* The directory, time and the operator. *)

World == Tick \/ Publish \/ Deactivate \/ Restore

(* What the directory and time do: a document that is no longer current was   *)
(* retired just now, and no call outlives its deadline.                       *)
LEMMA WorldMoves ==
    ASSUME IInv, World
    PROVE  /\ UNCHANGED <<cacheVars, callVars>>
           /\ clock' \in Nat /\ clock <= clock'
           /\ newest' \in Doc /\ newest <= newest' /\ tombstoned' \in BOOLEAN
           /\ retired' \in [Doc -> Nat]
           /\ \A d \in Doc : retired[d] <= retired'[d] /\ retired'[d] <= clock'
           /\ \A d \in Doc : Current(d) => Current(d)' \/ clock = retired'[d]
           /\ \A r \in Call : phase[r] # "idle" => clock' <= started[r] + MaxLatency
<1>a. /\ clock \in Nat /\ newest \in Nat /\ newest \in Doc /\ tombstoned \in BOOLEAN
      /\ retired \in [Doc -> Nat] /\ MaxLatency \in Nat /\ MaxDoc \in Nat
      /\ \A r \in Call : started[r] \in Nat
      /\ \A d \in Doc : retired[d] \in Nat /\ retired[d] <= clock
  BY Documents DEF IInv, TypeOK
<1>b. \A r \in Call : phase[r] # "idle" => clock <= started[r] + MaxLatency
  BY DEF IInv, CallInv
<1>1. CASE Tick
  <2>1. /\ clock' = clock + 1 /\ newest' = newest /\ tombstoned' = tombstoned
        /\ retired' = retired /\ UNCHANGED <<cacheVars, callVars>>
    BY <1>1 DEF Tick, dirVars
  <2>2. \A r \in Call : phase[r] # "idle" => clock' <= started[r] + MaxLatency
    BY <1>1, <1>a, <2>1 DEF Tick
  <2>3. \A d \in Doc : retired'[d] <= clock'
    BY <1>a, <2>1
  <2>4. QED
    BY <1>a, <2>1, <2>2, <2>3 DEF Current
<1>2. CASE Publish
  <2>1. newest' \in Doc /\ newest <= newest'
    BY <1>2, <1>a DEF Publish, Doc
  <2>2. retired' \in [Doc -> Nat] /\ clock' = clock /\ tombstoned' = tombstoned
    BY <1>2, <1>a DEF Publish
  <2>3. \A d \in Doc : retired'[d] = IF d = newest THEN clock ELSE retired[d]
    BY <1>2, <1>a DEF Publish
  <2>4. QED
    BY <1>2, <1>a, <1>b, <2>1, <2>2, <2>3 DEF Publish, Current
<1>3. CASE Deactivate
  <2>1. retired' \in [Doc -> Nat] /\ clock' = clock /\ newest' = newest
    BY <1>3, <1>a DEF Deactivate
  <2>2. \A d \in Doc : retired'[d] = IF d = newest THEN clock ELSE retired[d]
    BY <1>3, <1>a DEF Deactivate
  <2>3. QED
    BY <1>3, <1>a, <1>b, <2>1, <2>2 DEF Deactivate, Current
<1>4. CASE Restore
  <2>1. /\ clock' = clock /\ newest' = newest /\ retired' = retired
        /\ tombstoned /\ tombstoned' = FALSE /\ UNCHANGED <<cacheVars, callVars>>
    BY <1>4 DEF Restore
  <2>2. \A d \in Doc : ~Current(d)
    BY <2>1 DEF Current
  <2>3. tombstoned' \in BOOLEAN
    BY <2>1
  <2>4. \A d \in Doc : retired[d] <= retired'[d] /\ retired'[d] <= clock'
    BY <1>a, <2>1
  <2>5. clock <= clock' /\ newest <= newest'
    BY <1>a, <2>1
  <2>6. retired' \in [Doc -> Nat] /\ clock' \in Nat /\ newest' \in Doc
    BY <1>a, <2>1
  <2>7. \A r \in Call : phase[r] # "idle" => clock' <= started[r] + MaxLatency
    BY <1>b, <2>1
  <2>8. QED
    BY <2>1, <2>2, <2>3, <2>4, <2>5, <2>6, <2>7
<1>5. QED
  BY <1>1, <1>2, <1>3, <1>4 DEF World

LEMMA WorldInv ==
    ASSUME IInv, World
    PROVE  IInv'
<1>a. /\ clock \in Nat /\ newest \in Nat /\ newest \in Doc /\ 1 .. newest \subseteq Doc
      /\ MaxLatency \in Nat /\ MaxDoc \in Nat
      /\ \A d \in Doc : retired[d] \in Nat /\ d \in Nat
      /\ \A k \in Cache : cache[k].until \in Nat
      /\ \A r \in Call : started[r] \in Nat
  BY Documents DEF IInv
<1>b. /\ cache' = cache /\ operator' = operator /\ epoch' = epoch
      /\ phase' = phase /\ used' = used /\ started' = started /\ got' = got
      /\ reported' = reported /\ gotEpoch' = gotEpoch /\ raced' = raced
  BY WorldMoves DEF cacheVars, callVars
<1>c. /\ clock' \in Nat /\ clock <= clock'
      /\ newest' \in Doc /\ newest <= newest' /\ newest' \in Nat
      /\ \A d \in Doc : retired'[d] \in Nat /\ retired[d] <= retired'[d]
  BY WorldMoves DEF Doc
<1>d. 1 .. newest \subseteq 1 .. newest'
  BY <1>a, <1>c
<1>1. ASSUME NEW k \in Cache PROVE CacheInv(k)'
  <2> SUFFICES ASSUME cache[k].kind = "live" PROVE CacheInv(k)'
    BY <1>b DEF CacheInv
  <2>0. PICK d, u : d = cache[k].doc /\ u = cache[k].until
    OBVIOUS
  <2>1. /\ d \in 1 .. newest /\ u <= clock + TTL(k)
        /\ Current(d) \/ u <= retired[d] + MaxAge(k)
    BY <2>0 DEF IInv, CacheInv
  <2>2. TTL(k) \in Nat /\ MaxAge(k) \in Nat /\ TTL(k) <= MaxAge(k)
    BY Ages
  <2>3. u \in Nat /\ d \in Doc
    BY <1>a, <2>0, <2>1
  <2>4. Current(d) => Current(d)' \/ clock = retired'[d]
    BY <2>3, WorldMoves
  <2>5. CASE Current(d)'
    <3>1. u <= clock' + TTL(k)
      BY <1>a, <1>c, <2>1, <2>2, <2>3
    <3>2. QED
      BY <1>b, <1>d, <2>0, <2>1, <2>5, <3>1 DEF CacheInv, TTL
  <2>6. CASE ~Current(d)'
    <3>1. u <= clock' + TTL(k)
      BY <1>a, <1>c, <2>1, <2>2, <2>3
    <3>2. u <= retired'[d] + MaxAge(k)
      BY <1>a, <1>c, <2>1, <2>2, <2>3, <2>4, <2>6
    <3>3. QED
      BY <1>b, <1>d, <2>0, <2>1, <3>1, <3>2 DEF CacheInv, TTL, MaxAge
  <2>7. QED
    BY <2>5, <2>6
<1>2. ASSUME NEW r \in Call PROVE CallInv(r)'
  <2>1. started[r] <= clock /\ CallInv(r)
    BY DEF IInv, CallInv
  <2>2. started[r] <= clock'
    BY <1>a, <1>c, <2>1
  <2>3. phase[r] # "idle" => clock' <= started[r] + MaxLatency
    BY WorldMoves
  <2>4. ASSUME phase[r] \in {"parsed", "compared"}
        PROVE  /\ got[r] \in 1 .. newest'
               /\ Current(got[r])' \/ started[r] <= retired'[got[r]]
    <3>1. /\ got[r] \in 1 .. newest /\ got[r] \in Doc
          /\ Current(got[r]) \/ started[r] <= retired[got[r]]
      BY <1>a, <2>1, <2>4 DEF CallInv
    <3>2. Current(got[r]) => Current(got[r])' \/ clock = retired'[got[r]]
      BY <1>b, <3>1, WorldMoves DEF Current
    <3>3. started[r] <= retired[got[r]] => started[r] <= retired'[got[r]]
      BY <1>a, <1>c, <3>1
    <3>4. QED
      BY <1>d, <2>1, <3>1, <3>2, <3>3
  <2>5. QED
    BY <1>b, <2>1, <2>2, <2>3, <2>4 DEF CallInv, InFlight, Rotated
<1>3. TypeOK'
  <2>1. ASSUME NEW r \in Call, phase[r] \in {"parsed", "compared", "served"}
        PROVE  got[r] \in 1 .. newest'
    BY <1>d, <2>1 DEF IInv, TypeOK
  <2>2. QED
    BY <1>b, <2>1, WorldMoves DEF IInv, TypeOK
<1>4. QED
  BY <1>1, <1>2, <1>3, WorldMoves DEF IInv

LEMMA InvalidateInv ==
    ASSUME IInv, Invalidate
    PROVE  IInv'
<1>a. Functional /\ cache \in [Cache -> Entry] /\ TypeOK
  BY InvFunctional DEF IInv, TypeOK
<1>1. PICK j \in Cache : cache' = [cache EXCEPT ![j] = Absent] /\ raced' = Raced(j)
  BY DEF Invalidate, InvalidateDocument, InvalidateTrustRoot, Cache
<1>2. UNCHANGED <<clock, dirVars, phase, used, started, got, reported, gotEpoch>>
  BY DEF Invalidate, InvalidateDocument, InvalidateTrustRoot
<1>3. operator' \in {"idle", "document_removed"} /\ epoch' \in Nat
  BY <1>a DEF TypeOK, Invalidate, InvalidateDocument, InvalidateTrustRoot
<1>4. ASSUME NEW q \in Call PROVE CallInv(q)'
  <2>1. CallInv(q) /\ raced[q] \in BOOLEAN /\ used[q] \in Cache
    BY <1>4 DEF IInv, TypeOK
  <2>2. CASE used[q] = j
    <3>1. InFlight(q) => raced'[q]
      BY <1>1, <1>a, <2>2, RacedTyped
    <3>2. QED
      BY <1>2, <2>1, <3>1, KeepsCall DEF Undisturbed
  <2>3. CASE used[q] # j
    <3>1. raced'[q] = raced[q]
      BY <1>1, <1>a, <2>3, RacedTyped
    <3>2. cache'[used[q]] = cache[used[q]]
      BY <1>1, <1>a, <2>1, <2>3
    <3>3. QED
      BY <1>2, <2>1, <3>1, <3>2, KeepsCall DEF Undisturbed
  <2>4. QED
    BY <2>2, <2>3
<1>5. ASSUME NEW k \in Cache PROVE CacheInv(k)'
  <2>1. CASE k = j
    BY <1>1, <1>a, <2>1, EntryTypes DEF CacheInv
  <2>2. CASE k # j
    <3>1. cache'[k] = cache[k] /\ CacheInv(k)
      BY <1>1, <1>a, <1>5, <2>2 DEF IInv
    <3>2. QED
      BY <1>2, <3>1, KeepsCache
  <2>3. QED
    BY <2>1, <2>2
<1>6. TypeOK'
  <2>1. cache' \in [Cache -> Entry]
    BY <1>1, <1>a, EntryTypes
  <2>2. raced' \in [Call -> BOOLEAN]
    BY <1>1, <1>a, RacedTyped
  <2>3. QED
    BY <1>2, <1>3, <1>a, <2>1, <2>2 DEF TypeOK, dirVars
<1>7. QED
  BY <1>2, <1>4, <1>5, <1>6 DEF IInv, dirVars

LEMMA InitInv == Init => IInv
<1> SUFFICES ASSUME Init PROVE IInv
  OBVIOUS
<1>1. TypeOK
  <2>1. newest \in Doc
    BY ResolverAssumption DEF Init, Doc
  <2>2. cache \in [Cache -> Entry]
    BY EntryTypes DEF Init
  <2>3. phase \in [Call -> Phases] /\ used \in [Call -> Cache]
    BY DEF Init, Phases, Cache
  <2>4. QED
    BY <2>1, <2>2, <2>3 DEF Init, TypeOK
<1>2. ASSUME NEW d \in Doc PROVE retired[d] <= clock
  BY DEF Init
<1>3. ASSUME NEW k \in Cache PROVE CacheInv(k)
  BY EntryTypes DEF Init, CacheInv
<1>4. ASSUME NEW r \in Call PROVE CallInv(r)
  BY DEF Init, CallInv, InFlight
<1>5. QED
  BY <1>1, <1>2, <1>3, <1>4 DEF IInv

LEMMA Inductive == IInv /\ [Next]_vars => IInv'
<1> SUFFICES ASSUME IInv, [Next]_vars PROVE IInv'
  OBVIOUS
<1>1. CASE World
  BY <1>1, WorldInv
<1>2. CASE Invalidate
  BY <1>2, InvalidateInv
<1>3. CASE \E r \in Call : Step(r)
  BY <1>3, StepInv
<1>4. CASE UNCHANGED vars
  BY <1>4 DEF vars, dirVars, cacheVars, callVars, IInv, TypeOK, CacheInv, CallInv, Current,
             TTL, MaxAge, InFlight, Rotated
<1>5. QED
  BY <1>1, <1>2, <1>3, <1>4 DEF Next, World

(* Cached documents expire in time, and what a call has in hand was current   *)
(* at some instant of the call.                                               *)
THEOREM InductiveInvariant == Spec => []IInv
BY InitInv, Inductive, PTL DEF Spec

(* Every variable of the resolver keeps its type; a call that has a document  *)
(* in hand has one that was published.                                        *)
THEOREM TypeCorrect == Spec => []TypeOK
<1>1. IInv => TypeOK
  BY DEF IInv
<1>2. QED
  BY <1>1, InductiveInvariant, PTL

-----------------------------------------------------------------------------
(* What a step may never do. *)

(* Only its own step takes a call to another phase.                           *)
LEMMA OwnStep ==
    ASSUME IInv, Next, NEW r \in Call, phase'[r] # phase[r]
    PROVE  Step(r)
<1>1. TypeOK
  BY DEF IInv
<1>2. CASE World
  BY <1>2, WorldMoves DEF callVars
<1>3. CASE Invalidate
  BY <1>3 DEF Invalidate, InvalidateDocument, InvalidateTrustRoot
<1>4. ASSUME NEW q \in Call, Step(q) PROVE Step(r)
  <2>1. CASE q = r
    BY <1>4, <2>1
  <2>2. CASE q # r
    BY <1>1, <1>4, <2>2, StepOthers DEF Undisturbed
  <2>3. QED
    BY <2>1, <2>2
<1>5. QED
  BY <1>2, <1>3, <1>4 DEF Next, World

(* A call is served by a hit in the cache, or by the document it stores.      *)
LEMMA ServedBy ==
    ASSUME IInv, NEW r \in Call, Step(r), phase[r] # "served", phase'[r] = "served"
    PROVE  \/ /\ Hit(used'[r]) /\ used'[r] \in Cache
              /\ got'[r] = cache[used'[r]].doc
           \/ StoreDocument(r) /\ got'[r] = got[r] /\ used'[r] = used[r]
<1>a. Functional
  BY InvFunctional DEF IInv
<1> USE DEF Functional
<1>1. ASSUME NEW k \in Cache, Resolve(r, k)
      PROVE  Hit(used'[r]) /\ used'[r] \in Cache /\ got'[r] = cache[used'[r]].doc
  <2>1. used'[r] = k /\ Hit(k) /\ got' = [got EXCEPT ![r] = cache[k].doc]
    BY <1>1, <1>a DEF Resolve, Goto
  <2>2. QED
    BY <1>a, <2>1
<1>2. ~(DirectoryAnswers(r) \/ CompareWithCached(r))
  BY <1>a DEF DirectoryAnswers, CompareWithCached, Goto, AfterAnswer
<1>3. ~(FetchFails(r) \/ Return(r) \/ StoreTombstone(r))
  BY <1>a, ForgetTyped DEF FetchFails, Return, StoreTombstone, End
<1>4. StoreDocument(r) => got'[r] = got[r] /\ used'[r] = used[r]
  BY DEF StoreDocument
<1>5. QED
  BY <1>1, <1>2, <1>3, <1>4 DEF Step

(* Every step that serves a document serves the DID's document, or one that   *)
(* was replaced or withdrawn no more than its TTL and one latency ago.        *)
THEOREM ServedFresh == Spec => ServedWithinAge
<1>1. IInv /\ [Next]_vars => [\A r \in Call : ServesInAge(r)]_vars
  <2> SUFFICES ASSUME IInv, Next, NEW r \in Call,
                      phase[r] # "served", phase'[r] = "served"
               PROVE  \/ got'[r] = newest /\ ~tombstoned
                      \/ clock <= retired[got'[r]] + MaxAge(used'[r])
    BY DEF ServesInAge
  <2>a. /\ clock \in Nat /\ MaxLatency \in Nat /\ newest \in Nat /\ 1 .. newest \subseteq Doc
        /\ \A d \in Doc : retired[d] \in Nat
        /\ \A k \in Cache : cache[k].until \in Nat
        /\ started[r] \in Nat /\ used[r] \in Cache
    BY Documents DEF IInv
  <2>1. Step(r)
    BY OwnStep
  <2>2. CASE /\ Hit(used'[r]) /\ used'[r] \in Cache
             /\ got'[r] = cache[used'[r]].doc
    <3>1. PICK k \in Cache : k = used'[r]
      BY <2>2
    <3>2. /\ clock < cache[k].until /\ cache[k].doc \in Doc
          /\ Current(cache[k].doc) \/ cache[k].until <= retired[cache[k].doc] + MaxAge(k)
      BY <2>a, <2>2, <3>1 DEF IInv, CacheInv, Hit
    <3>3. MaxAge(k) \in Nat
      BY Ages
    <3>4. Current(cache[k].doc) \/ clock <= retired[cache[k].doc] + MaxAge(k)
      BY <2>a, <3>2, <3>3
    <3>5. QED
      BY <2>2, <3>1, <3>4 DEF Current
  <2>3. CASE StoreDocument(r) /\ got'[r] = got[r] /\ used'[r] = used[r]
    <3>1. /\ got[r] \in Doc /\ clock <= started[r] + MaxLatency
          /\ Current(got[r]) \/ started[r] <= retired[got[r]]
      BY <2>a, <2>3 DEF IInv, CallInv, StoreDocument
    <3>2. TTL(used[r]) \in Nat
      BY <2>a, Ages
    <3>3. Current(got[r]) \/ clock <= retired[got[r]] + MaxAge(used[r])
      BY <2>a, <3>1, <3>2 DEF MaxAge
    <3>4. QED
      BY <2>3, <3>3 DEF Current
  <2>4. QED
    BY <2>1, <2>2, <2>3, ServedBy
<1>2. QED
  BY <1>1, InductiveInvariant, PTL DEF Spec, ServedWithinAge

(* A document that replaces another in the cache was reported as a rotation   *)
(* from exactly that one, unless another step changed the cache in between.   *)
THEOREM SwapsReported == Spec => SwapsAreAudited
<1>1. IInv /\ [Next]_vars => [\A r \in Call : SwapIsReported(r)]_vars
  <2> SUFFICES ASSUME IInv, Next, NEW r \in Call PROVE SwapIsReported(r)
    OBVIOUS
  <2>1. phase[r] = "compared" /\ ~raced[r] => reported[r] = Rotated(used[r], got[r])
    BY DEF IInv, CallInv
  <2>2. QED
    BY <2>1 DEF SwapIsReported, Rotated
<1>2. QED
  BY <1>1, InductiveInvariant, PTL DEF Spec, SwapsAreAudited

(* No step lifts a cached tombstone but the operator's invalidate and that of *)
(* a call whose cache changed while it was under way.                         *)
THEOREM TombstonesHold == Spec => TombstoneHolds
<1>1. IInv /\ [Next]_vars => [\A k \in Cache : LiftedWithCause(k)]_vars
  <2> SUFFICES ASSUME IInv, Next, NEW k \in Cache,
                      cache[k].kind = "tombstoned", cache'[k].kind # "tombstoned",
                      operator' = operator
               PROVE  \E r \in Call : phase[r] = "compared" /\ used[r] = k /\ raced[r]
    BY DEF LiftedWithCause
  <2>a. TypeOK /\ cache \in [Cache -> Entry]
    BY DEF IInv, TypeOK
  <2>1. ~World
    BY WorldMoves DEF cacheVars
  <2>2. ~Invalidate
    BY DEF Invalidate, InvalidateDocument, InvalidateTrustRoot
  <2>3. PICK r \in Call : Step(r)
    BY <2>1, <2>2 DEF Next, World
  <2>4. used[r] \in Cache /\ raced[r] \in BOOLEAN
    BY <2>a DEF TypeOK
  <2>5. ~StoreTombstone(r)
    BY <2>a, <2>4, EntryTypes DEF StoreTombstone
  <2>6. StoreDocument(r) /\ used[r] = k
    BY <2>a, <2>3, <2>4, <2>5, StepStores
  <2>7. phase[r] = "compared" /\ raced[r]
    BY <2>4, <2>6 DEF StoreDocument, IInv, CallInv, InFlight
  <2>8. QED
    BY <2>6, <2>7
<1>2. QED
  BY <1>1, InductiveInvariant, PTL DEF Spec, TombstoneHolds

-----------------------------------------------------------------------------
(* ServiceJwt: numbers and lists *)

(* A set of numbers that is not empty has a least one.                        *)
LEMMA Least ==
    ASSUME NEW T, T \subseteq Nat, T # {}
    PROVE  \E x \in T : \A y \in T : x <= y
<1>1. PICK x \in T : \A y \in T : ~(<<y, x>> \in {ss \in Nat \X Nat : ss[1] < ss[2]})
  <2>1. IsWellFoundedOn({ss \in Nat \X Nat : ss[1] < ss[2]}, Nat)
    BY NatLessThanWellFounded DEF OpToRel
  <2>2. QED
    BY <2>1, WFMin
<1>2. ASSUME NEW y \in T PROVE x <= y
  <2>1. ~(<<y, x>> \in {ss \in Nat \X Nat : ss[1] < ss[2]})
    BY <1>1
  <2>2. <<y, x>> \in Nat \X Nat
    OBVIOUS
  <2>3. ~(<<y, x>>[1] < <<y, x>>[2])
    BY <2>1, <2>2, Zenon
  <2>4. QED
    BY <2>3
<1>3. QED
  BY <1>2

(* So Min picks one of its members.                                           *)
LEMMA MinOf ==
    ASSUME NEW T, T \subseteq Nat, T # {}
    PROVE  Min(T) \in T
BY Least DEF Min

(* The first of the members of a list that are in S is in S.                  *)
LEMMA FirstFound ==
    ASSUME NEW list, DOMAIN list \subseteq Nat, NEW S, S \subseteq Range(list), S # {}
    PROVE  First(list, S) \in S
<1> DEFINE at == {i \in DOMAIN list : list[i] \in S}
<1>1. at # {}
  BY DEF Range
<1>2. Min(at) \in at
  <2>1. at \subseteq Nat
    OBVIOUS
  <2> HIDE DEF at
  <2>2. QED
    BY <1>1, <2>1, MinOf
<1>3. QED
  BY <1>1, <1>2 DEF First

(* There is no first member of the empty set.                                 *)
LEMMA FirstOfNone ==
    ASSUME NEW list
    PROVE  First(list, {}) = None
BY DEF First

(* The first of some methods is one of them, and the account's own if there   *)
(* is one among them.                                                         *)
LEMMA FirstMethodFound ==
    ASSUME NEW doc \in Document, NEW S, S \subseteq Published(doc), S # {}
    PROVE  /\ FirstMethod(doc, S) \in S
           /\ (\E m \in S : m.fragment = "atproto") =>
                  FirstMethod(doc, S).fragment = "atproto"
<1> DEFINE own == {m \in S : m.fragment = "atproto"}
           T   == IF own # {} THEN own ELSE S
<1>1. T \subseteq S /\ T # {} /\ (own # {} => T = own)
  OBVIOUS
<1>2. DOMAIN doc \subseteq Nat /\ Published(doc) \subseteq Range(doc)
  BY JwtAssumption DEF Published
<1>3. FirstMethod(doc, S) = First(doc, T)
  BY DEF FirstMethod
<1>4. First(doc, T) \in T
  <2> HIDE DEF T
  <2>1. QED
    BY <1>1, <1>2, FirstFound
<1>5. QED
  BY <1>1, <1>3, <1>4

(* Of no methods there is no first.                                           *)
LEMMA NoMethod ==
    ASSUME NEW doc
    PROVE  FirstMethod(doc, {}) = None
BY FirstOfNone DEF FirstMethod

(* A method is never None.                                                    *)
LEMMA PublishedIsSome ==
    ASSUME NEW doc \in Document, NEW m \in Published(doc)
    PROVE  m # None
BY JwtAssumption DEF Published, Range

-----------------------------------------------------------------------------
(* ServiceJwt: select_signing_key *)

(* select_signing_key returns the key of a method that may speak for the      *)
(* issuer: by a rule the key of one with the fragment, if not the very one.   *)
LEMMA Chosen ==
    ASSUME NEW doc \in Document, NEW r, SelectKey(doc, r) # None
    PROVE  \E m \in Speaker(doc, r) : m.key = SelectKey(doc, r).key
<1> DEFINE F == Fitting(doc, r)
           H == Hinted(doc, r)
           P == Pinned(doc, r)
           k == SelectKey(doc, r)
<1>0. F \subseteq Published(doc) /\ H \subseteq Published(doc) /\ P \subseteq Published(doc)
  BY DEF Fitting, Hinted, Pinned
<1>1. CASE r.iss_fragment # None
  <2> DEFINE S == P \cap H \cap F
  <2>1. k = FirstMethod(doc, S)
    BY <1>1 DEF SelectKey
  <2>2. S # {}
    BY <2>1, NoMethod
  <2>3. k \in S
    <3>1. S \subseteq Published(doc)
      BY <1>0
    <3> HIDE DEF S
    <3>2. QED
      BY <2>1, <2>2, <3>1, FirstMethodFound
  <2> DEFINE Same == {m \in Published(doc) : KeyId(m) = KeyId(k)}
             e    == First(doc, Same)
  <2>4. e \in Same
    <3>1. Same # {} /\ Same \subseteq Range(doc)
      BY <2>3, <1>0 DEF Published
    <3>2. DOMAIN doc \subseteq Nat
      BY JwtAssumption
    <3> HIDE DEF Same
    <3>3. QED
      BY <3>1, <3>2, FirstFound
  <2>5. e \in Published(doc) /\ KeyId(e) = KeyId(k)
    BY <2>4
  <2>6. e.key = k.key
    BY <2>5 DEF KeyId
  <2>7. e.fragment = RuleFor(r.iss_fragment)[2]
    <3>1. FragmentOf(doc, KeyId(k)) = e.fragment
      BY DEF FragmentOf
    <3>2. FragmentOf(doc, KeyId(k)) = RuleFor(r.iss_fragment)[2]
      BY <2>3 DEF Pinned
    <3>3. QED
      BY <3>1, <3>2
  <2> HIDE DEF e, k
  <2>8. e \in F
    <3>1. AlgorithmOf[k.key] = r.alg
      BY <2>3 DEF Fitting
    <3>2. QED
      BY <3>1, <2>5, <2>6 DEF Fitting
  <2>9. e \in H
    <3>1. r.kid \in {None, KeyId(k)}
      BY <2>3 DEF Hinted
    <3>2. QED
      BY <3>1, <2>5 DEF Hinted
  <2>10. e \in Speaker(doc, r)
    BY <1>1, <2>7, <2>8, <2>9 DEF Speaker
  <2>11. QED
    BY <2>6, <2>10 DEF k
<1>2. CASE r.iss_fragment = None /\ r.kid # None
  <2>1. k = FirstMethod(doc, H) /\ k \in F
    BY <1>2 DEF SelectKey
  <2>2. H # {}
    BY <2>1, NoMethod
  <2>3. k \in H
    BY <1>0, <2>1, <2>2, FirstMethodFound
  <2>4. k \in Speaker(doc, r)
    BY <1>2, <2>1, <2>3 DEF Speaker
  <2>5. QED
    BY <2>4
<1>3. CASE r.iss_fragment = None /\ r.kid = None
  <2>1. k = FirstMethod(doc, F)
    BY <1>3 DEF SelectKey
  <2>2. F # {}
    BY <2>1, NoMethod
  <2>3. k \in F /\ ((\E m \in F : m.fragment = "atproto") => k.fragment = "atproto")
    <3> HIDE DEF F, k
    <3>1. QED
      BY <1>0, <2>1, <2>2, FirstMethodFound
  <2>4. k \in Speaker(doc, r)
    BY <1>3, <2>3 DEF Speaker
  <2>5. QED
    BY <2>4
<1>4. QED
  BY <1>1, <1>2, <1>3

(* select_signing_key comes back empty only if no method may speak for the    *)
(* issuer, as long as no two methods share a key id.                          *)
LEMMA NoneToChoose ==
    ASSUME NEW doc \in Document, NEW r, SelectKey(doc, r) = None, Distinct(doc)
    PROVE  Speaker(doc, r) = {}
<1> DEFINE F == Fitting(doc, r)
           H == Hinted(doc, r)
           P == Pinned(doc, r)
<1> SUFFICES ASSUME NEW m \in Speaker(doc, r) PROVE FALSE
  OBVIOUS
<1>0. F \subseteq Published(doc) /\ H \subseteq Published(doc) /\ P \subseteq Published(doc)
  BY DEF Fitting, Hinted, Pinned
<1>m. m \in F /\ m \in Published(doc)
  BY <1>0 DEF Speaker
<1>1. CASE r.iss_fragment # None
  <2> DEFINE S == P \cap H \cap F
             Same == {n \in Published(doc) : KeyId(n) = KeyId(m)}
  <2>1. FirstMethod(doc, S) = None
    BY <1>1 DEF SelectKey
  <2>2. m \in H /\ m.fragment = RuleFor(r.iss_fragment)[2]
    BY <1>1 DEF Speaker
  <2>3. Same = {m}
    BY <1>m DEF Distinct
  <2>4. First(doc, Same) = m
    <3>1. Same \subseteq Range(doc) /\ DOMAIN doc \subseteq Nat
      BY JwtAssumption DEF Published
    <3> HIDE DEF Same
    <3>2. First(doc, Same) \in Same
      BY <2>3, <3>1, FirstFound
    <3>3. QED
      BY <2>3, <3>2
  <2>5. m \in P
    <3>1. FragmentOf(doc, KeyId(m)) = m.fragment
      BY <2>4 DEF FragmentOf
    <3>2. QED
      BY <1>m, <2>2, <3>1 DEF Pinned
  <2>6. S # {} /\ S \subseteq Published(doc)
    BY <1>m, <1>0, <2>2, <2>5
  <2> HIDE DEF S
  <2>7. FirstMethod(doc, S) \in Published(doc)
    BY <2>6, FirstMethodFound
  <2>8. QED
    BY <2>1, <2>7, PublishedIsSome
<1>2. CASE r.iss_fragment = None /\ r.kid # None
  <2> DEFINE n == FirstMethod(doc, H)
  <2>1. m \in H /\ r.kid = KeyId(m)
    BY <1>2 DEF Speaker, Hinted
  <2>2. n \in H
    BY <1>0, <2>1, FirstMethodFound
  <2>3. n \in Published(doc) /\ KeyId(n) = KeyId(m)
    BY <1>0, <1>2, <2>1, <2>2 DEF Hinted
  <2>4. n = m
    BY <1>m, <2>3 DEF Distinct
  <2>5. SelectKey(doc, r) = n
    BY <1>2, <1>m, <2>4 DEF SelectKey
  <2>6. QED
    BY <2>3, <2>5, PublishedIsSome
<1>3. CASE r.iss_fragment = None /\ r.kid = None
  <2>1. SelectKey(doc, r) = FirstMethod(doc, F)
    BY <1>3 DEF SelectKey
  <2>2. FirstMethod(doc, F) \in Published(doc)
    <3> HIDE DEF F
    <3>1. QED
      BY <1>0, <1>m, FirstMethodFound
  <2>3. QED
    BY <2>1, <2>2, PublishedIsSome
<1>4. QED
  BY <1>1, <1>2, <1>3

-----------------------------------------------------------------------------
(* ServiceJwt: the checks *)

(* A list of checks has the outcome VerifiedJwt only if none fails.           *)
LEMMA Passed ==
    ASSUME NEW checks, DOMAIN checks \subseteq Nat,
           \A i \in DOMAIN checks : checks[i][2] # "VerifiedJwt",
           Outcome(checks) = "VerifiedJwt"
    PROVE  {i \in DOMAIN checks : ~checks[i][1]} = {}
<1> DEFINE failed == {i \in DOMAIN checks : ~checks[i][1]}
<1>1. failed \subseteq DOMAIN checks /\ failed \subseteq Nat
  OBVIOUS
<1>2. Outcome(checks) = IF failed = {} THEN "VerifiedJwt" ELSE checks[Min(failed)][2]
  BY DEF Outcome
<1>3. failed = {}
  <2> SUFFICES ASSUME failed # {} PROVE FALSE
    OBVIOUS
  <2> HIDE DEF failed
  <2>1. Min(failed) \in failed
    BY <1>1, MinOf
  <2>2. QED
    BY <1>1, <1>2, <2>1
<1>4. QED
  BY <1>3

(* Otherwise its outcome is the error of one of them.                         *)
LEMMA Outcomes ==
    ASSUME NEW checks, DOMAIN checks \subseteq Nat
    PROVE  Outcome(checks) \in {"VerifiedJwt"} \cup {checks[i][2] : i \in DOMAIN checks}
<1> DEFINE failed == {i \in DOMAIN checks : ~checks[i][1]}
<1>1. failed \subseteq DOMAIN checks /\ failed \subseteq Nat
  OBVIOUS
<1>2. Outcome(checks) = IF failed = {} THEN "VerifiedJwt" ELSE checks[Min(failed)][2]
  BY DEF Outcome
<1> HIDE DEF failed
<1>3. failed # {} => Min(failed) \in DOMAIN checks
  BY <1>1, MinOf
<1>4. QED
  BY <1>2, <1>3

(* What verify_signature accepts was signed, as it stands, by that key.       *)
LEMMA SignatureVerdict ==
    ASSUME NEW t, NEW key
    PROVE  /\ SignatureOutcome(t, key) # "IssuerKeyNotInDocument"
           /\ SignatureOutcome(t, key) = "VerifiedJwt" =>
                  t.signer = key /\ t.signed = t.request
<1> DEFINE high == <<t.form = "low", "HighSSignature">>
           bad  == <<t.signer = key /\ t.signed = t.request, "SignatureInvalid">>
           checks == <<high, bad>>
<1>1. SignatureOutcome(t, key) = Outcome(checks)
  BY Zenon DEF SignatureOutcome
<1>2. high[2] = "HighSSignature" /\ bad[2] = "SignatureInvalid"
  BY Zenon
<1>3. ~(t.signer = key /\ t.signed = t.request) => ~bad[1]
  BY Zenon
<1> HIDE DEF high, bad
<1>4. DOMAIN checks = 1 .. 2 /\ checks[1] = high /\ checks[2] = bad
  OBVIOUS
<1> HIDE DEF checks
<1>5. \A i \in DOMAIN checks : checks[i][2] \in {"HighSSignature", "SignatureInvalid"}
  BY <1>2, <1>4
<1>6. SignatureOutcome(t, key) # "IssuerKeyNotInDocument"
  <2>1. Outcome(checks) \in {"VerifiedJwt"} \cup {checks[i][2] : i \in DOMAIN checks}
    BY <1>4, Outcomes
  <2>2. QED
    BY <1>1, <1>5, <2>1
<1>7. ASSUME SignatureOutcome(t, key) = "VerifiedJwt", ~bad[1] PROVE FALSE
  <2>1. DOMAIN checks \subseteq Nat
    BY <1>4
  <2>2. \A i \in DOMAIN checks : checks[i][2] # "VerifiedJwt"
    BY <1>5
  <2>3. Outcome(checks) = "VerifiedJwt"
    BY <1>1, <1>7
  <2>4. {i \in DOMAIN checks : ~checks[i][1]} = {}
    BY <2>1, <2>2, <2>3, Passed, Zenon
  <2>5. ~checks[2][1] /\ 2 \in DOMAIN checks
    BY <1>4, <1>7
  <2>6. QED
    BY <2>4, <2>5, Zenon
<1>8. QED
  BY <1>3, <1>6, <1>7

(* What verify_claims_and_construct accepts is within its lifetime.           *)
LEMMA ClaimsVerdict ==
    ASSUME NEW r, NEW now
    PROVE  /\ ClaimsOutcome(r, now) # "IssuerKeyNotInDocument"
           /\ ClaimsOutcome(r, now) = "VerifiedJwt" =>
                  WithinValidity(r) /\ now <= r.exp + Skew /\ r.iat <= now + Skew
<1> DEFINE c1 == <<r.aud # "notADid" /\ r.aud_fragment # "", "Malformed">>
           c2 == <<r.aud = "local", "WrongAudience">>
           c3 == <<r.iat <= LastSecond /\ r.exp <= LastSecond, "Malformed">>
           c4 == <<r.nbf = None \/ r.nbf <= LastSecond, "Malformed">>
           c5 == <<WithinValidity(r), "ValidityWindowTooLong">>
           c6 == <<r.exp + Skew <= LastSecond, "Malformed">>
           c7 == <<now <= r.exp + Skew, "Expired">>
           c8 == <<r.nbf = None \/ r.nbf <= now + Skew, "NotYetValid">>
           c9 == <<r.iat <= now + Skew, "NotYetValid">>
           c10 == <<r.nonce # None \/ ~RequireNonce, "NonceMissing">>
           c11 == <<r.nonce # "short", "Malformed">>
           c12 == <<r.lxm # "notText", "Malformed">>
           checks == <<c1, c2, c3, c4, c5, c6, c7, c8, c9, c10, c11, c12>>
           Errors == {"Malformed", "WrongAudience", "ValidityWindowTooLong", "Expired",
                      "NotYetValid", "NonceMissing"}
<1>1. ClaimsOutcome(r, now) = Outcome(checks)
  BY Zenon DEF ClaimsOutcome
<1>2. /\ c1[2] = "Malformed" /\ c2[2] = "WrongAudience" /\ c3[2] = "Malformed"
      /\ c4[2] = "Malformed" /\ c5[2] = "ValidityWindowTooLong" /\ c6[2] = "Malformed"
      /\ c7[2] = "Expired" /\ c8[2] = "NotYetValid" /\ c9[2] = "NotYetValid"
      /\ c10[2] = "NonceMissing" /\ c11[2] = "Malformed" /\ c12[2] = "Malformed"
  BY Zenon
<1>3. /\ ~WithinValidity(r) => ~c5[1]
      /\ ~(now <= r.exp + Skew) => ~c7[1]
      /\ ~(r.iat <= now + Skew) => ~c9[1]
  BY Zenon
<1> HIDE DEF c1, c2, c3, c4, c5, c6, c7, c8, c9, c10, c11, c12
<1>4. /\ DOMAIN checks = 1 .. 12
      /\ checks[1] = c1 /\ checks[2] = c2 /\ checks[3] = c3 /\ checks[4] = c4
      /\ checks[5] = c5 /\ checks[6] = c6 /\ checks[7] = c7 /\ checks[8] = c8
      /\ checks[9] = c9 /\ checks[10] = c10 /\ checks[11] = c11 /\ checks[12] = c12
  OBVIOUS
<1> HIDE DEF checks
<1>5. \A i \in DOMAIN checks : checks[i][2] \in Errors
  <2>1. \A i \in 1 .. 12 : i \in {1, 2, 3, 4, 5, 6, 7, 8, 9, 10, 11, 12}
    OBVIOUS
  <2>2. QED
    BY <1>2, <1>4, <2>1
<1>6. ClaimsOutcome(r, now) # "IssuerKeyNotInDocument"
  <2>1. Outcome(checks) \in {"VerifiedJwt"} \cup {checks[i][2] : i \in DOMAIN checks}
    BY <1>4, Outcomes
  <2>2. QED
    BY <1>1, <1>5, <2>1
<1>7. ASSUME ClaimsOutcome(r, now) = "VerifiedJwt", ~c5[1] \/ ~c7[1] \/ ~c9[1] PROVE FALSE
  <2>1. DOMAIN checks \subseteq Nat
    BY <1>4
  <2>2. \A i \in DOMAIN checks : checks[i][2] # "VerifiedJwt"
    BY <1>5
  <2>3. Outcome(checks) = "VerifiedJwt"
    BY <1>1, <1>7
  <2>4. {i \in DOMAIN checks : ~checks[i][1]} = {}
    BY <2>1, <2>2, <2>3, Passed, Zenon
  <2>5. ~checks[5][1] \/ ~checks[7][1] \/ ~checks[9][1]
    BY <1>4, <1>7
  <2>6. 5 \in DOMAIN checks /\ 7 \in DOMAIN checks /\ 9 \in DOMAIN checks
    BY <1>4
  <2>7. QED
    BY <2>4, <2>5, <2>6, Zenon
<1>8. QED
  BY <1>3, <1>6, <1>7

(* What verify_jwt says of a token when the resolver answers with doc.        *)
LEMMA Verdicts ==
    ASSUME NEW c, NEW doc \in Document, doc # None
    PROVE  LET r == c.token.request IN
           /\ Verify(c, doc) = "VerifiedJwt" =>
                 /\ \E m \in Speaker(doc, r) : m.key = c.token.signer
                 /\ c.token.signed = r
                 /\ WithinValidity(r)
                 /\ verifierClock <= r.exp + Skew /\ r.iat <= verifierClock + Skew
           /\ Verify(c, doc) = "IssuerKeyNotInDocument" /\ Distinct(doc) =>
                 Speaker(doc, r) = {}
<1> DEFINE r == c.token.request
           method == SelectKey(doc, r)
           signature == SignatureOutcome(c.token, method.key)
           claims == ClaimsOutcome(r, verifierClock)
<1>1. Verify(c, doc) = IF method = None THEN "IssuerKeyNotInDocument"
                       ELSE IF signature # "VerifiedJwt" THEN signature ELSE claims
  BY Zenon DEF Verify, Now
<1>2. /\ signature # "IssuerKeyNotInDocument"
      /\ signature = "VerifiedJwt" => c.token.signer = method.key /\ c.token.signed = r
  BY SignatureVerdict
<1>3. /\ claims # "IssuerKeyNotInDocument"
      /\ claims = "VerifiedJwt" =>
            /\ WithinValidity(r)
            /\ verifierClock <= r.exp + Skew /\ r.iat <= verifierClock + Skew
  BY ClaimsVerdict
<1>4. method # None => \E m \in Speaker(doc, r) : m.key = method.key
  BY Chosen
<1>5. method = None /\ Distinct(doc) => Speaker(doc, r) = {}
  BY NoneToChoose
<1> HIDE DEF r, method, signature, claims
<1>6. CASE Verify(c, doc) = "VerifiedJwt"
  <2>1. method # None /\ signature = "VerifiedJwt" /\ claims = "VerifiedJwt"
    BY <1>1, <1>6
  <2>2. QED
    BY <1>2, <1>3, <1>4, <1>6, <2>1 DEF r
<1>7. CASE Verify(c, doc) = "IssuerKeyNotInDocument"
  <2>1. method = None
    BY <1>1, <1>2, <1>3, <1>7
  <2>2. QED
    BY <1>5, <1>7, <2>1 DEF r
<1>8. QED
  BY <1>6, <1>7 DEF r

-----------------------------------------------------------------------------
(* The invariant of ServiceJwt *)

(* What is accepted was accepted as signed, and within its own lifetime.      *)
AcceptedInv ==
    \A a \in accepted :
        LET r == a.token.request IN
        /\ a.token.signed = r
        /\ WithinValidity(r)
        /\ a.at <= r.exp + Skew /\ r.iat <= a.at + Skew

JwtInv == JwtTypeOK /\ AcceptedInv /\ SignerSpeaksForIssuer

(* A new token disturbs no type.                                              *)
LEMMA TokensGrow ==
    ASSUME JwtTypeOK, NEW t \in Token,
           tokens' = tokens \cup {t}, UNCHANGED <<verifierClock, document, call, accepted>>
    PROVE  JwtTypeOK'
BY DEF JwtTypeOK

(* Every step keeps the types.                                                *)
LEMMA JwtTypesKept ==
    ASSUME JwtTypeOK, JwtNext
    PROVE  JwtTypeOK'
<1> USE JwtAssumption
<1>1. CASE VerifierTick
  BY <1>1 DEF JwtTypeOK, VerifierTick
<1>2. ASSUME NEW doc \in Document, PublishMethods(doc) PROVE JwtTypeOK'
  BY <1>2 DEF JwtTypeOK, PublishMethods
<1>3. ASSUME NEW r \in Request, NEW k \in Key, Mint(r, k) PROVE JwtTypeOK'
  <2>1. [request |-> r, signed |-> r, signer |-> k, form |-> "low"] \in Token
    BY DEF Token
  <2>2. QED
    BY <1>3, <2>1, TokensGrow DEF Mint
<1>4. ASSUME NEW t \in tokens, NEW r \in Request, Alter(t, r) PROVE JwtTypeOK'
  <2>1. [t EXCEPT !.request = r] \in Token
    BY DEF Token, JwtTypeOK
  <2>2. QED
    BY <1>4, <2>1, TokensGrow DEF Alter
<1>5. ASSUME NEW t \in tokens, Flip(t) PROVE JwtTypeOK'
  <2>1. [t EXCEPT !.form = "high"] \in Token
    BY DEF Token, JwtTypeOK
  <2>2. QED
    BY <1>5, <2>1, TokensGrow DEF Flip
<1>6. ASSUME NEW t \in tokens, Present(t) PROVE JwtTypeOK'
  BY <1>6 DEF JwtTypeOK, Present
<1>7. ASSUME NEW doc, Resolved(doc) PROVE JwtTypeOK'
  <2>1. UNCHANGED <<verifierClock, document, tokens>> /\ call' = None
    BY <1>7 DEF Resolved
  <2>2. [token |-> call.token, at |-> verifierClock] \in [token : tokens, at : 0 .. verifierClock]
    BY <1>7 DEF Resolved, JwtTypeOK
  <2>3. accepted' \subseteq accepted \cup {[token |-> call.token, at |-> verifierClock]}
    BY <1>7 DEF Resolved
  <2>4. QED
    BY <2>1, <2>2, <2>3 DEF JwtTypeOK
<1>8. QED
  BY <1>1, <1>2, <1>3, <1>4, <1>5, <1>6, <1>7 DEF JwtNext

(* The answer of the resolver keeps the rest.                                 *)
LEMMA JwtResolved ==
    ASSUME JwtInv, NEW doc \in Document \cup {None}, Resolved(doc)
    PROVE  AcceptedInv' /\ SignerSpeaksForIssuer'
<1> DEFINE t == call.token
           r == t.request
           is == Verify(call, doc)
<1>1. /\ verdict' = [token |-> t, document |-> doc, is |-> is]
      /\ accepted' = accepted \cup
            (IF verdict'.is = "VerifiedJwt" THEN {[token |-> t, at |-> verifierClock]} ELSE {})
  BY DEF Resolved
<1>2. verdict'.token = t /\ verdict'.document = doc /\ verdict'.is = is
  BY <1>1
<1>3. doc = None => is # "VerifiedJwt"
  BY DEF Verify
<1>4. doc # None =>
          /\ is = "VerifiedJwt" =>
                 /\ \E m \in Speaker(doc, r) : m.key = t.signer
                 /\ t.signed = r
                 /\ WithinValidity(r)
                 /\ verifierClock <= r.exp + Skew /\ r.iat <= verifierClock + Skew
          /\ is = "IssuerKeyNotInDocument" /\ Distinct(doc) => Speaker(doc, r) = {}
  BY Verdicts
<1>5. AcceptedInv'
  <2> SUFFICES ASSUME NEW a \in accepted'
               PROVE  /\ a.token.signed = a.token.request
                      /\ WithinValidity(a.token.request)
                      /\ a.at <= a.token.request.exp + Skew
                      /\ a.token.request.iat <= a.at + Skew
    BY DEF AcceptedInv, WithinValidity
  <2>1. CASE a \in accepted
    BY <2>1 DEF JwtInv, AcceptedInv
  <2>2. CASE a \notin accepted
    <3>1. is = "VerifiedJwt" /\ a = [token |-> t, at |-> verifierClock]
      BY <1>1, <1>2, <2>2
    <3>2. a.token = t /\ a.at = verifierClock
      BY <3>1
    <3>3. QED
      BY <1>3, <1>4, <3>1, <3>2
  <2>3. QED
    BY <2>1, <2>2
<1>6. SignerSpeaksForIssuer'
  <2> HIDE DEF is
  <2>1. QED
    BY <1>2, <1>4 DEF SignerSpeaksForIssuer
<1>7. QED
  BY <1>5, <1>6

(* Every step keeps the invariant.                                            *)
LEMMA JwtInvKept ==
    ASSUME JwtInv, [JwtNext]_jwtVars
    PROVE  JwtInv'
<1>0. CASE UNCHANGED jwtVars
  BY <1>0 DEF JwtInv, JwtTypeOK, AcceptedInv, SignerSpeaksForIssuer, jwtVars
<1>1. CASE JwtNext
  <2>1. JwtTypeOK'
    BY <1>1, JwtTypesKept DEF JwtInv
  <2>2. CASE UNCHANGED <<verdict, accepted>>
    BY <2>1, <2>2 DEF JwtInv, AcceptedInv, SignerSpeaksForIssuer
  <2>3. ASSUME NEW t, Present(t) PROVE AcceptedInv' /\ SignerSpeaksForIssuer'
    <3>1. AcceptedInv'
      BY <2>3 DEF Present, JwtInv, AcceptedInv
    <3>2. verdict' = None \/ verdict'.document = None
      BY <2>3 DEF Present
    <3>3. SignerSpeaksForIssuer'
      BY <3>2 DEF SignerSpeaksForIssuer
    <3>4. QED
      BY <3>1, <3>3
  <2>4. CASE Resolved(document) \/ Resolved(None)
    <3>1. document \in Document
      BY DEF JwtInv, JwtTypeOK
    <3>2. QED
      BY <2>1, <2>4, <3>1, JwtResolved DEF JwtInv
  <2>5. \/ UNCHANGED <<verdict, accepted>>
        \/ \E t \in tokens : Present(t)
        \/ Resolved(document) \/ Resolved(None)
    BY <1>1 DEF JwtNext, VerifierTick, PublishMethods, Mint, Alter, Flip
  <2>6. QED
    BY <2>1, <2>2, <2>3, <2>4, <2>5 DEF JwtInv
<1>2. QED
  BY <1>0, <1>1

(* It holds initially.                                                        *)
LEMMA JwtInitInv == JwtInit => JwtInv
BY JwtAssumption DEF JwtInit, JwtInv, JwtTypeOK, AcceptedInv, SignerSpeaksForIssuer

(* The invariant of verify_jwt: its types, that whatever is accepted was      *)
(* accepted as it was signed and within its lifetime, and whose signature it  *)
(* carries.                                                                   *)
THEOREM JwtInvariant == JwtSpec => []JwtInv
<1>1. JwtInit => JwtInv
  BY JwtInitInv
<1>2. JwtInv /\ [JwtNext]_jwtVars => JwtInv'
  BY JwtInvKept
<1>3. QED
  BY <1>1, <1>2, PTL DEF JwtSpec

(* Two acceptances of one signed request are both within its lifetime.        *)
LEMMA LifetimeFollows ==
    ASSUME JwtInv
    PROVE  LifetimeBounded
<1> SUFFICES ASSUME NEW a \in accepted, NEW b \in accepted,
                    a.token.signed = b.token.signed
             PROVE  b.at - a.at <= MaxValidity + 2 * Skew
  BY DEF LifetimeBounded
<1> DEFINE r == a.token.request
<1>1. a.token.request = r /\ b.token.request = r
  BY DEF JwtInv, AcceptedInv
<1>2. /\ a.token \in Token /\ a.at \in Nat /\ b.at \in Nat
  BY JwtAssumption DEF JwtInv, JwtTypeOK
<1>3. r.iat \in Nat /\ r.exp \in Nat /\ Skew \in Nat /\ MaxValidity \in Nat
  BY <1>2, JwtAssumption DEF Token
<1>4. r.exp - r.iat <= MaxValidity /\ b.at <= r.exp + Skew /\ r.iat <= a.at + Skew
  BY <1>1 DEF JwtInv, AcceptedInv, WithinValidity
<1> HIDE DEF r
<1>5. QED
  BY <1>2, <1>3, <1>4

(* However documents are published and tokens altered, verify_jwt accepts     *)
(* only what a key signed that may speak for the issuer, and refuses for want *)
(* of a key only what no method may sign.                                     *)
THEOREM JwtSignerSpeaksForIssuer == JwtSpec => []SignerSpeaksForIssuer
<1>1. JwtInv => SignerSpeaksForIssuer
  BY DEF JwtInv
<1>2. QED
  BY <1>1, JwtInvariant, PTL

(* Replays of a signed request through verify_jwt are accepted within one     *)
(* span of max_validity_window and twice the skew.                            *)
THEOREM JwtLifetimeBounded == JwtSpec => []LifetimeBounded
<1>1. JwtInv => LifetimeBounded
  BY LifetimeFollows
<1>2. QED
  BY <1>1, JwtInvariant, PTL
=============================================================================
