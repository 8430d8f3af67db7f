-------------------------- MODULE ClaimReplayProofs -------------------------
(***************************************************************************)
(* Proofs about ClaimReplay for any number of concurrent calls, any claims *)
(* and any clock: whatever the tracker's retention, no claim is accepted   *)
(* late and no replay is a false alarm; and a tracker that remembers for   *)
(* two skews, one validity window and one latency accepts each claim at    *)
(* most once.                                                              *)
(***************************************************************************)
EXTENDS ClaimReplayInvariant, TLAPS

-----------------------------------------------------------------------------
LEMMA ClaimFields ==
    ASSUME NEW c \in Claim
    PROVE  /\ c.issuer \in Issuer /\ c.key \in Key /\ c.nonce \in Nonce
           /\ c.iat \in Nat /\ c.exp \in Nat
           /\ PartitionOf(c) \in Partition
BY ClaimAssumption DEF PartitionOf, Partition

(* Expiry before a call's observation time never drops what was recorded      *)
(* less than Retention before it.                                             *)
LEMMA RetainedKeeps ==
    ASSUME NEW p, NEW t \in Nat, NEW e \in seen[p], e.at \in Nat, t <= e.at + Retention
    PROVE  e \in Retained(p, t)
BY DEF Retained

LEMMA InitInv == Init => IInv
<1> SUFFICES ASSUME Init PROVE IInv
  OBVIOUS
<1>1. TypeOK
  BY DEF Init, TypeOK, Phases
<1>2. \A r \in Request : phase[r] = "idle" /\ ~fresh[r] /\ result[r] = None
  BY DEF Init
<1>3. QED
  <2>1. (\A r \in Request : CallInv(r)) /\ ReplayHasWitness /\ FreshAtMostOnce
    BY <1>2 DEF CallInv, PresentedInInterval, InTime, Remembered, FreshFirst,
       FreshAtMostOnce, ReplayHasWitness, InFlight, None
  <2>2. SeenIsRecorded
    BY DEF Init, SeenIsRecorded
  <2>3. QED
    BY <1>1, <2>1, <2>2 DEF IInv, BaseInv

-----------------------------------------------------------------------------
(* What one call does to the others: nothing but time and the partition they  *)
(* share, from which their nonces are dropped only once they are too old.     *)

(* The conjuncts of TypeOK about phase and result. *)
CallsTyped ==
    /\ phase \in [Request -> Phases] /\ result \in [Request -> Results \cup {None}]
    /\ \A r \in Request : phase[r] = "done" <=> result[r] # None

LEMMA ReturnTyped ==
    ASSUME CallsTyped, NEW r \in Request, NEW v \in Results, Return(r, v)
    PROVE  CallsTyped'
<1>1. v # None
  BY DEF Results, None
<1>2. phase' = [phase EXCEPT ![r] = "done"] /\ result' = [result EXCEPT ![r] = v]
  BY DEF Return, Goto
<1>3. phase' \in [Request -> Phases] /\ result' \in [Request -> Results \cup {None}]
  BY <1>2 DEF CallsTyped, Phases
<1>4. QED
  BY <1>1, <1>2, <1>3 DEF CallsTyped

LEMMA GotoTyped ==
    ASSUME CallsTyped, NEW r \in Request, NEW p \in Phases \ {"done"},
           phase[r] # "done", Goto(r, p), UNCHANGED result
    PROVE  CallsTyped'
BY DEF CallsTyped, Goto

LEMMA StepTypeOK == ASSUME TypeOK, [Next]_vars PROVE TypeOK'
<1> USE DEF CallsTyped
<1>a. CallsTyped
  BY DEF TypeOK
<1>1. CASE Tick
  BY <1>1, TimingAssumption DEF Tick, TypeOK, callVars
<1>2. ASSUME NEW r \in Request, VerifyClaim(r) PROVE TypeOK'
  <2>1. EarlyVerdict(claim[r], clock) \in Results \cup {None}
    BY DEF EarlyVerdict, Results, None
  <2>2. CallsTyped'
    <3>1. CASE EarlyVerdict(claim[r], clock) = None
      BY <1>2, <3>1, <1>a, GotoTyped DEF VerifyClaim, Phases
    <3>2. CASE EarlyVerdict(claim[r], clock) # None
      BY <1>2, <3>2, <2>1, <1>a, ReturnTyped DEF VerifyClaim
    <3>3. QED
      BY <3>1, <3>2
  <2>3. QED
    BY <1>2, <2>2 DEF VerifyClaim, TypeOK
<1>3. ASSUME NEW r \in Request, IssuerResolved(r) PROVE TypeOK'
  <2>1. CallsTyped'
    <3>1. CASE claim[r].signed
      BY <1>3, <3>1, <1>a, GotoTyped DEF IssuerResolved, Phases
    <3>2. CASE ~claim[r].signed
      BY <1>3, <3>2, <1>a, ReturnTyped DEF IssuerResolved, Results
    <3>3. QED
      BY <3>1, <3>2
  <2>2. QED
    BY <1>3, <2>1 DEF IssuerResolved, TypeOK
<1>4. ASSUME NEW r \in Request, IssuerNotResolved(r) \/ Cancel(r) \/ WalkChain(r)
      PROVE  TypeOK'
  <2>1. \E v \in Results : Return(r, v)
    BY <1>4 DEF IssuerNotResolved, Cancel, WalkChain, Results
  <2>2. CallsTyped'
    BY <2>1, <1>a, ReturnTyped
  <2>3. QED
    BY <1>4, <2>2 DEF IssuerNotResolved, Cancel, WalkChain, TypeOK
<1>5. ASSUME NEW r \in Request, RecordNonce(r) PROVE TypeOK'
  <2> DEFINE c == claim[r]
             p == PartitionOf(c)
             kept == Retained(p, now[r])
             entry == [nonce |-> c.nonce, at |-> now[r]]
  <2>1. c \in Claim /\ now[r] \in Nat /\ p \in Partition /\ entry \in Seen
    BY ClaimFields DEF TypeOK, Seen
  <2>2. kept \in SUBSET Seen
    BY <2>1 DEF Retained, TypeOK
  <2>3. seen' \in [Partition -> SUBSET Seen]
    <3>1. \/ seen' = [seen EXCEPT ![p] = kept]
          \/ seen' = [seen EXCEPT ![p] = kept \cup {entry}]
      BY <1>5 DEF RecordNonce
    <3>2. QED
      BY <2>1, <2>2, <3>1 DEF TypeOK
  <2>4. fresh' \in [Request -> BOOLEAN] /\ UNCHANGED <<clock, claim, now>>
    BY <1>5 DEF RecordNonce, TypeOK
  <2>5. CallsTyped'
    <3>1. \/ \E v \in Results : Return(r, v)
          \/ Goto(r, "chain") /\ UNCHANGED result
      BY <1>5 DEF RecordNonce, Results
    <3>2. phase[r] # "done" /\ "chain" \in Phases \ {"done"}
      BY <1>5 DEF RecordNonce, Phases
    <3>3. QED
      BY <3>1, <3>2, <1>a, ReturnTyped, GotoTyped
  <2>6. QED
    BY <2>3, <2>4, <2>5 DEF TypeOK
<1>6. CASE UNCHANGED vars
  BY <1>6 DEF vars, callVars, TypeOK
<1>7. QED
  BY <1>1, <1>2, <1>3, <1>4, <1>5, <1>6 DEF Next, Step

-----------------------------------------------------------------------------
(* The inductive step. *)

(* Call q did not move, and neither the clock nor the tracker did. *)
SameCall(q) ==
    /\ phase'[q] = phase[q] /\ claim'[q] = claim[q] /\ now'[q] = now[q]
    /\ fresh'[q] = fresh[q] /\ result'[q] = result[q]

LEMMA Frame ==
    ASSUME NEW q \in Request, CallInv(q), SameCall(q), UNCHANGED <<clock, seen>>
    PROVE  CallInv(q)'
BY DEF CallInv, PresentedInInterval, InTime, Remembered, FreshFirst, SameCall, InFlight,
   NotExpired, Begun, PartitionOf

(* Steps that leave the tracker and the fresh marks alone. *)
LEMMA QuietStep ==
    ASSUME TypeOK, \A r \in Request : CallInv(r),
           NEW r \in Request,
           \/ VerifyClaim(r) \/ IssuerResolved(r) \/ IssuerNotResolved(r)
           \/ Cancel(r) \/ WalkChain(r)
    PROVE  \A q \in Request : CallInv(q)'
<1>1. UNCHANGED <<clock, claim, fresh, seen>>
  BY DEF VerifyClaim, IssuerResolved, IssuerNotResolved, Cancel, WalkChain
<1>2. \A q \in Request \ {r} : SameCall(q)
  BY DEF VerifyClaim, IssuerResolved, IssuerNotResolved, Cancel, WalkChain, Goto, Return,
     SameCall, TypeOK
<1>3. \A q \in Request \ {r} : CallInv(q)'
  BY <1>1, <1>2, Frame
<1>4. CallInv(r)'
  <2>1. CASE VerifyClaim(r)
    <3>1. /\ phase[r] = "idle" /\ ~fresh[r] /\ result[r] = None
      BY <2>1 DEF VerifyClaim, CallInv, FreshFirst
    <3>2. now'[r] = clock /\ clock \in Nat /\ claim[r] \in Claim
      BY <2>1 DEF VerifyClaim, TypeOK
    <3>3. CASE EarlyVerdict(claim[r], clock) # None
      <4>1. EarlyVerdict(claim[r], clock) # "Accepted"
        BY DEF EarlyVerdict, None
      <4>2. phase'[r] = "done" /\ result'[r] # "Accepted"
        BY <2>1, <3>3, <4>1 DEF VerifyClaim, Return, Goto, TypeOK
      <4>3. QED
        BY <1>1, <3>1, <4>2 DEF CallInv, PresentedInInterval, InTime, Remembered,
           FreshFirst, InFlight
    <3>4. CASE EarlyVerdict(claim[r], clock) = None
      <4>1. /\ NotExpired(claim[r], clock) /\ Begun(claim[r], clock)
            /\ ~(Window(claim[r]) > MaxValidity)
        BY <3>4 DEF EarlyVerdict, None
      <4>2. claim[r].exp <= claim[r].iat + MaxValidity
        BY <3>2, <4>1, ClaimFields, TimingAssumption DEF Window
      <4>3. phase'[r] = "resolving" /\ result'[r] = None
        BY <2>1, <3>1, <3>4 DEF VerifyClaim, Goto, TypeOK
      <4>4. PresentedInInterval(r)'
        BY <1>1, <3>2, <4>1, <4>2 DEF PresentedInInterval, NotExpired, Begun
      <4>5. InTime(r)'
        BY <1>1, <3>2, TimingAssumption DEF InTime
      <4>6. QED
        BY <1>1, <3>1, <4>3, <4>4, <4>5 DEF CallInv, Remembered, FreshFirst, None
    <3>5. QED
      BY <3>3, <3>4
  <2>2. CASE ~VerifyClaim(r)
    <3>1. InFlight(r) /\ now'[r] = now[r]
      BY <2>2 DEF IssuerResolved, IssuerNotResolved, Cancel, WalkChain, InFlight
    <3>2. PresentedInInterval(r)' /\ InTime(r)' /\ Remembered(r)'
      BY <1>1, <3>1 DEF CallInv, PresentedInInterval, InTime, Remembered, NotExpired,
         Begun, PartitionOf
    <3>3. FreshFirst(r)'
      BY <2>2, <1>1 DEF IssuerResolved, IssuerNotResolved, Cancel, WalkChain, Goto, Return,
         CallInv, FreshFirst, TypeOK, None
    <3>4. QED
      BY <3>2, <3>3 DEF CallInv
  <2>3. QED
    BY <2>1, <2>2
<1>5. QED
  BY <1>3, <1>4

(* While a call holds a nonce it recorded, every later call that is allowed   *)
(* to present the same claim still finds it: this is where the two skews, the *)
(* validity window and the latency add up to the retention.                   *)
LEMMA StillKnown ==
    ASSUME RetentionCovers, TypeOK,
           NEW q \in Request, NEW r \in Request, CallInv(q), CallInv(r),
           fresh[q], phase[r] = "recording", claim[q] = claim[r]
    PROVE  \E e \in Retained(PartitionOf(claim[r]), now[r]) : e.nonce = claim[r].nonce
<1> DEFINE c == claim[r]
           e == [nonce |-> c.nonce, at |-> now[q]]
<1>1. c \in Claim /\ c.iat \in Nat /\ c.exp \in Nat
  BY ClaimFields DEF TypeOK
<1>2. now[q] \in Nat /\ now[r] \in Nat /\ clock \in Nat
  BY DEF TypeOK
<1>3. c.iat <= now[q] + Skew /\ c.exp <= c.iat + MaxValidity
  BY DEF CallInv, PresentedInInterval, Begun
<1>4. now[r] <= c.exp + Skew /\ now[r] <= clock /\ clock <= now[r] + MaxLatency
  BY DEF CallInv, PresentedInInterval, InTime, InFlight, NotExpired
<1>5. clock <= now[q] + Retention
  BY <1>1, <1>2, <1>3, <1>4, TimingAssumption DEF RetentionCovers
<1>6. e \in seen[PartitionOf(c)]
  BY <1>2, <1>5, TimingAssumption DEF CallInv, Remembered
<1>7. now[r] <= now[q] + Retention
  BY <1>2, <1>4, <1>5, TimingAssumption
<1>8. e \in Retained(PartitionOf(c), now[r])
  BY <1>6, <1>7 DEF Retained
<1>9. QED
  BY <1>8

LEMMA RecordStep ==
    ASSUME TypeOK, \A r \in Request : CallInv(r),
           NEW r \in Request, RecordNonce(r)
    PROVE  \A q \in Request : CallInv(q)'
<1> DEFINE c == claim[r]
           p == PartitionOf(c)
           kept == Retained(p, now[r])
           entry == [nonce |-> c.nonce, at |-> now[r]]
           known == \E e \in kept : e.nonce = c.nonce
<1>1. /\ UNCHANGED <<clock, claim, now>> /\ phase[r] = "recording" /\ InFlight(r)
      /\ c \in Claim /\ p \in Partition /\ now[r] \in Nat /\ clock \in Nat
  BY ClaimFields DEF RecordNonce, InFlight, TypeOK
<1>2. \/ /\ seen' = [seen EXCEPT ![p] = kept] /\ fresh' = fresh
         /\ phase'[r] = "done" /\ result'[r] \in {"NonceReplay", "NonceTrackerFailed"}
      \/ /\ seen' = [seen EXCEPT ![p] = kept \cup {entry}] /\ ~known
         /\ fresh' = [fresh EXCEPT ![r] = TRUE]
         /\ \/ phase'[r] = "done"
            \/ phase'[r] = "chain" /\ result'[r] = result[r]
  BY DEF RecordNonce, Goto, Return, TypeOK
<1>3. \A q \in Request \ {r} : /\ phase'[q] = phase[q] /\ result'[q] = result[q]
                               /\ fresh'[q] = fresh[q]
  BY DEF RecordNonce, Goto, Return, TypeOK
<1>4. /\ \A b \in Partition \ {p} : seen'[b] = seen[b]
      /\ kept \subseteq seen'[p]
  BY <1>1, <1>2 DEF TypeOK
<1>5. ~fresh[r] /\ result[r] = None
  BY <1>1 DEF CallInv, FreshFirst
<1>6. ASSUME NEW q \in Request, fresh[q] PROVE Remembered(q)'
  <2> DEFINE d == [nonce |-> claim[q].nonce, at |-> now[q]]
  <2>1. PartitionOf(claim[q]) \in Partition /\ now[q] \in Nat
    BY ClaimFields DEF TypeOK
  <2>2. d \in seen[PartitionOf(claim[q])] \/ now[q] + Retention < clock
    BY <1>6 DEF CallInv, Remembered
  <2>3. CASE now[q] + Retention < clock
    BY <2>3, <1>1 DEF Remembered
  <2>4. CASE d \in seen[PartitionOf(claim[q])]
    <3>1. CASE PartitionOf(claim[q]) # p
      BY <3>1, <2>1, <2>4, <1>1, <1>4 DEF Remembered, PartitionOf
    <3>2. CASE PartitionOf(claim[q]) = p /\ now[r] <= now[q] + Retention
      <4>1. d \in kept
        BY <3>2, <2>4 DEF Retained
      <4>2. QED
        BY <4>1, <3>2, <1>1, <1>4 DEF Remembered, PartitionOf
    <3>3. CASE ~(now[r] <= now[q] + Retention)
      <4>1. now[r] <= clock
        BY <1>1 DEF CallInv, PresentedInInterval
      <4>2. now[q] + Retention < clock
        BY <3>3, <4>1, <2>1, <1>1, TimingAssumption
      <4>3. QED
        BY <4>2, <1>1 DEF Remembered
    <3>4. QED
      BY <3>1, <3>2, <3>3
  <2>5. QED
    BY <2>2, <2>3, <2>4
<1>7. ASSUME NEW q \in Request \ {r} PROVE CallInv(q)'
  <2>1. PresentedInInterval(q)' /\ InTime(q)' /\ FreshFirst(q)'
    BY <1>1, <1>3 DEF CallInv, PresentedInInterval, InTime, FreshFirst, InFlight,
       NotExpired, Begun
  <2>2. Remembered(q)'
    <3>1. CASE fresh[q]
      BY <3>1, <1>6
    <3>2. CASE ~fresh[q]
      BY <3>2, <1>3 DEF Remembered
    <3>3. QED
      BY <3>1, <3>2
  <2>3. QED
    BY <2>1, <2>2 DEF CallInv
<1>8. CallInv(r)'
  <2>1. PresentedInInterval(r)' /\ InTime(r)'
    BY <1>1 DEF CallInv, PresentedInInterval, InTime, NotExpired, Begun
  <2>2. CASE fresh' = fresh /\ phase'[r] = "done"
               /\ result'[r] \in {"NonceReplay", "NonceTrackerFailed"}
    BY <2>1, <2>2, <1>5 DEF CallInv, Remembered, FreshFirst
  <2>3. CASE /\ seen' = [seen EXCEPT ![p] = kept \cup {entry}]
             /\ fresh' = [fresh EXCEPT ![r] = TRUE]
             /\ \/ phase'[r] = "done"
                \/ phase'[r] = "chain" /\ result'[r] = result[r]
    <3>1. fresh'[r] = TRUE /\ entry \in seen'[p]
      BY <2>3, <1>1 DEF TypeOK
    <3>2. Remembered(r)'
      BY <3>1, <1>1 DEF Remembered, PartitionOf
    <3>3. FreshFirst(r)'
      BY <3>1, <2>3, <1>5 DEF FreshFirst
    <3>4. QED
      BY <2>1, <3>2, <3>3 DEF CallInv
  <2>4. QED
    BY <1>2, <2>2, <2>3
<1>9. QED
  BY <1>7, <1>8

LEMMA TickStep ==
    ASSUME TypeOK, \A r \in Request : CallInv(r), Tick
    PROVE  \A r \in Request : CallInv(r)'
<1> SUFFICES ASSUME NEW r \in Request PROVE CallInv(r)'
  OBVIOUS
<1>1. /\ UNCHANGED <<phase, claim, now, fresh, result, seen>>
      /\ clock' = clock + 1 /\ clock \in Nat /\ now[r] \in Nat
      /\ InFlight(r) => clock < now[r] + MaxLatency
  BY DEF Tick, callVars, TypeOK
<1>2. PresentedInInterval(r)'
  BY <1>1 DEF CallInv, PresentedInInterval, InFlight, NotExpired, Begun
<1>3. InTime(r)'
  BY <1>1, TimingAssumption DEF InTime, InFlight
<1>4. Remembered(r)'
  BY <1>1, TimingAssumption DEF CallInv, Remembered, PartitionOf
<1>5. FreshFirst(r)'
  BY <1>1 DEF CallInv, FreshFirst
<1>6. QED
  BY <1>2, <1>3, <1>4, <1>5 DEF CallInv

LEMMA CallStep ==
    ASSUME TypeOK, \A r \in Request : CallInv(r), [Next]_vars
    PROVE  \A r \in Request : CallInv(r)'
<1>1. CASE Tick
  BY <1>1, TickStep
<1>2. CASE \E r \in Request : Step(r)
  BY <1>2, QuietStep, RecordStep DEF Step
<1>3. CASE UNCHANGED vars
  <2>1. UNCHANGED <<clock, seen>> /\ \A r \in Request : SameCall(r)
    BY <1>3 DEF vars, callVars, SameCall
  <2>2. QED
    BY <2>1, Frame
<1>4. QED
  BY <1>1, <1>2, <1>3 DEF Next

-----------------------------------------------------------------------------
(* The fresh marks and the entries of the tracker come and go together: a     *)
(* call that found its nonce fresh stays so, and only it adds an entry.       *)

LEMMA RecordedStep ==
    ASSUME TypeOK, SeenIsRecorded, [Next]_vars PROVE SeenIsRecorded'
<1>1. CASE UNCHANGED <<claim, fresh, seen>>
  BY <1>1 DEF SeenIsRecorded, PartitionOf
<1>2. ASSUME NEW r \in Request, RecordNonce(r) PROVE SeenIsRecorded'
  <2> DEFINE p == PartitionOf(claim[r])
             kept == Retained(p, now[r])
             entry == [nonce |-> claim[r].nonce, at |-> now[r]]
  <2>1. p \in Partition /\ claim' = claim /\ kept \subseteq seen[p]
    BY <1>2, ClaimFields DEF RecordNonce, TypeOK, Retained
  <2>2. \A q \in Request : fresh[q] => fresh'[q]
    BY <1>2 DEF RecordNonce, TypeOK
  <2>3. \/ seen' = [seen EXCEPT ![p] = kept]
        \/ seen' = [seen EXCEPT ![p] = kept \cup {entry}] /\ fresh'[r]
    BY <1>2 DEF RecordNonce, TypeOK
  <2>4. ASSUME NEW b \in Partition, NEW e \in seen'[b]
        PROVE  e \in seen[b] \/ (b = p /\ e = entry /\ fresh'[r])
    BY <2>1, <2>3 DEF TypeOK
  <2>5. ASSUME NEW b \in Partition, NEW e \in seen'[b]
        PROVE  \E q \in Request :
                  fresh'[q] /\ PartitionOf(claim[q]) = b /\ claim[q].nonce = e.nonce
    <3>1. CASE e \in seen[b]
      BY <3>1, <2>2 DEF SeenIsRecorded
    <3>2. CASE b = p /\ e = entry /\ fresh'[r]
      BY <3>2
    <3>3. QED
      BY <2>4, <2>5, <3>1, <3>2
  <2>6. QED
    BY <2>1, <2>5 DEF SeenIsRecorded, PartitionOf
<1>3. QED
  BY <1>1, <1>2 DEF Next, Step, Tick, VerifyClaim, IssuerResolved, IssuerNotResolved, Cancel,
     WalkChain, callVars, vars

LEMMA WitnessStep ==
    ASSUME TypeOK, \A r \in Request : CallInv(r), SeenIsRecorded, ReplayHasWitness,
           [Next]_vars
    PROVE  ReplayHasWitness'
<1> DEFINE Witness(r, q) == /\ claim[q].issuer = claim[r].issuer
                            /\ claim[q].key = claim[r].key
                            /\ claim[q].nonce = claim[r].nonce
<1>1. claim' = claim
  BY DEF Next, Step, Tick, VerifyClaim, IssuerResolved, IssuerNotResolved, Cancel,
     RecordNonce, WalkChain, callVars, vars
<1>2. ASSUME NEW q \in Request, fresh[q] PROVE fresh'[q]
  BY <1>2 DEF Next, Step, Tick, VerifyClaim, IssuerResolved, IssuerNotResolved, Cancel,
     RecordNonce, WalkChain, callVars, vars, TypeOK
<1>3. ASSUME NEW r \in Request, result'[r] = "NonceReplay", result[r] # "NonceReplay"
      PROVE  /\ phase[r] = "recording"
             /\ \E e \in seen[PartitionOf(claim[r])] : e.nonce = claim[r].nonce
  <2>1. PICK q \in Request : Step(q)
    BY <1>3 DEF Next, Tick, callVars, vars
  <2>2. q = r
    BY <2>1, <1>3 DEF Step, VerifyClaim, IssuerResolved, IssuerNotResolved, Cancel,
       RecordNonce, WalkChain, Return, TypeOK
  <2>3. RecordNonce(r)
    <3>1. EarlyVerdict(claim[r], clock) # "NonceReplay"
      BY DEF EarlyVerdict, None
    <3>2. QED
      BY <2>1, <2>2, <3>1, <1>3 DEF Step, VerifyClaim, IssuerResolved, IssuerNotResolved,
         Cancel, WalkChain, Return, TypeOK
  <2>4. \E e \in Retained(PartitionOf(claim[r]), now[r]) : e.nonce = claim[r].nonce
    BY <2>3, <1>3 DEF RecordNonce, Return, TypeOK
  <2>5. QED
    BY <2>3, <2>4 DEF RecordNonce, Retained
<1>4. ASSUME NEW r \in Request, result'[r] = "NonceReplay"
      PROVE  \E q \in Request \ {r} : fresh[q] /\ Witness(r, q)
  <2>1. CASE result[r] = "NonceReplay"
    BY <2>1 DEF ReplayHasWitness
  <2>2. CASE result[r] # "NonceReplay"
    <3>1. PICK e \in seen[PartitionOf(claim[r])] : e.nonce = claim[r].nonce
      BY <2>2, <1>3, <1>4
    <3>2. PartitionOf(claim[r]) \in Partition
      BY ClaimFields DEF TypeOK
    <3>3. PICK q \in Request : /\ fresh[q] /\ claim[q].nonce = e.nonce
                               /\ PartitionOf(claim[q]) = PartitionOf(claim[r])
      BY <3>1, <3>2 DEF SeenIsRecorded
    <3>4. ~fresh[r]
      BY <2>2, <1>3, <1>4 DEF CallInv, FreshFirst
    <3>5. Witness(r, q)
      BY <3>1, <3>3 DEF PartitionOf
    <3>6. QED
      BY <3>3, <3>4, <3>5
  <2>3. QED
    BY <2>1, <2>2
<1>5. QED
  BY <1>1, <1>2, <1>4 DEF ReplayHasWitness

-----------------------------------------------------------------------------
(* What the verifier keeps whatever the retention of its tracker.             *)
THEOREM BaseInvariant == Spec => []BaseInv
<1>1. Init => BaseInv
  BY InitInv DEF IInv
<1>2. BaseInv /\ [Next]_vars => BaseInv'
  BY StepTypeOK, CallStep, RecordedStep, WitnessStep DEF BaseInv
<1>3. QED
  BY <1>1, <1>2, PTL DEF Spec

(* The variables of concurrent verifications and of the tracker they share    *)
(* stay in their types, and a call has a result exactly when it is over.      *)
THEOREM TypeCorrect == Spec => []TypeOK
<1>1. BaseInv => TypeOK
  BY DEF BaseInv
<1>2. QED
  BY <1>1, BaseInvariant, PTL

(* A replay the tracker reports is never a false alarm, for any number of     *)
(* concurrent calls and however expiry and capacity empty the tracker: another *)
(* call presented the nonce under the same issuer and key and found it fresh. *)
THEOREM NoFalseReplay == Spec => []ReplayHasWitness
<1>1. BaseInv => ReplayHasWitness
  BY DEF BaseInv
<1>2. QED
  BY <1>1, BaseInvariant, PTL

(* Expiry is checked once, before the awaits, and yet no claim is accepted    *)
(* later than its expiry plus the skew plus the latency of a call.            *)
THEOREM NoLateAcceptance == Spec => AcceptedInTime
<1> DEFINE A == \A r \in Request :
                   result'[r] = "Accepted" /\ result[r] # "Accepted" =>
                       clock <= claim[r].exp + Skew + MaxLatency
<1>1. BaseInv /\ [Next]_vars => [A]_vars
  <2> SUFFICES ASSUME BaseInv, Next, NEW r \in Request,
                      result'[r] = "Accepted", result[r] # "Accepted"
               PROVE  clock <= claim[r].exp + Skew + MaxLatency
    OBVIOUS
  <2>1. PICK q \in Request : Step(q)
    BY DEF Next, Tick, callVars
  <2>2. q = r
    BY <2>1 DEF Step, VerifyClaim, IssuerResolved, IssuerNotResolved, Cancel, RecordNonce,
       WalkChain, Return, BaseInv, TypeOK
  <2>3. InFlight(r)
    <3>1. EarlyVerdict(claim[r], clock) # "Accepted"
      BY DEF EarlyVerdict, None
    <3>2. ~VerifyClaim(r)
      BY <3>1 DEF VerifyClaim, Return, BaseInv, TypeOK
    <3>3. QED
      BY <2>1, <2>2, <3>2 DEF Step, IssuerResolved, IssuerNotResolved, Cancel, RecordNonce,
         WalkChain, InFlight
  <2>4. /\ now[r] <= claim[r].exp + Skew /\ clock <= now[r] + MaxLatency
    BY <2>3 DEF BaseInv, CallInv, PresentedInInterval, InTime, NotExpired
  <2>5. clock \in Nat /\ now[r] \in Nat /\ claim[r].exp \in Nat
    BY ClaimFields DEF BaseInv, TypeOK
  <2>6. QED
    BY <2>4, <2>5, TimingAssumption
<1>2. QED
  BY <1>1, BaseInvariant, PTL DEF Spec, AcceptedInTime

-----------------------------------------------------------------------------
(* With a retention that covers, a nonce is not called fresh a second time.   *)
LEMMA FreshStep ==
    ASSUME RetentionCovers, BaseInv, FreshAtMostOnce, [Next]_vars
    PROVE  FreshAtMostOnce'
<1>1. CASE UNCHANGED <<claim, fresh>>
  BY <1>1 DEF FreshAtMostOnce
<1>2. ASSUME NEW r \in Request, RecordNonce(r), fresh' # fresh PROVE FreshAtMostOnce'
  <2>1. /\ claim' = claim /\ fresh' = [fresh EXCEPT ![r] = TRUE]
        /\ phase[r] = "recording"
        /\ ~ \E e \in Retained(PartitionOf(claim[r]), now[r]) : e.nonce = claim[r].nonce
    BY <1>2 DEF RecordNonce
  <2>2. \A q \in Request : fresh[q] => claim[q] # claim[r]
    BY <2>1, StillKnown DEF BaseInv
  <2>3. \A q \in Request : fresh'[q] => q = r \/ fresh[q]
    BY <2>1 DEF BaseInv, TypeOK
  <2>4. QED
    BY <2>1, <2>2, <2>3 DEF FreshAtMostOnce
<1>3. CASE UNCHANGED claim /\ \E r \in Request : RecordNonce(r)
  BY <1>1, <1>2, <1>3
<1>4. QED
  BY <1>1, <1>3 DEF Next, Step, Tick, VerifyClaim, IssuerResolved, IssuerNotResolved, Cancel,
     RecordNonce, WalkChain, callVars, vars

(* Every call that found its nonce fresh is remembered until no copy of its   *)
(* claim can pass the interval check any more.                                *)
THEOREM InductiveInvariant == ASSUME RetentionCovers PROVE Spec => []IInv
<1>1. Init => IInv
  BY InitInv
<1>2. IInv /\ [Next]_vars => IInv'
  <2>1. BaseInv /\ [Next]_vars => BaseInv'
    BY StepTypeOK, CallStep, RecordedStep, WitnessStep DEF BaseInv
  <2>2. QED
    BY <2>1, FreshStep DEF IInv
<1>3. QED
  BY <1>1, <1>2, PTL DEF Spec

(* verify_capability_claim accepts each claim at most once, for any number of *)
(* concurrent verifications, provided the tracker's retention covers the      *)
(* validity window, the skew on both sides and the latency of a call.         *)
THEOREM AtMostOnce == ASSUME RetentionCovers PROVE Spec => []AcceptedAtMostOnce
<1>1. IInv => AcceptedAtMostOnce
  BY DEF IInv, BaseInv, CallInv, FreshFirst, FreshAtMostOnce, AcceptedAtMostOnce
<1>2. QED
  BY <1>1, InductiveInvariant, PTL
=============================================================================
