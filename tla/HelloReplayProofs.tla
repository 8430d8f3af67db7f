-------------------------- MODULE HelloReplayProofs -------------------------
(***************************************************************************)
(* Proofs about HelloReplay for any number of concurrent calls, any hellos *)
(* and any cap: the tracker's map and deque never part, a reported replay  *)
(* is one, and a tracker that remembers for two skews and one latency      *)
(* accepts each hello at most once unless it evicted it.                   *)
(***************************************************************************)
EXTENDS HelloReplay, FiniteSetTheorems, SequenceTheorems, WellFoundedInduction, TLAPS

-----------------------------------------------------------------------------
(* The inductive invariant, in parts. *)

Accepted(q) == result[q] = "Accepted"

InTime(h, t) == NotAhead(h, t) /\ RecentEnough(h, t)

(* A call in flight read the clock at most one latency ago; past its early    *)
(* checks, the hello was within the skew of that reading.                     *)
CallInv(q) ==
    /\ now[q] <= clock
    /\ InFlight(q) => clock <= now[q] + MaxLatency
    /\ InFlight(q) \/ Accepted(q) => InTime(hello[q], now[q])

(* The deque holds the pairs of the map, each once, and is almost sorted.     *)
Distinct(s) == \A i, j \in DOMAIN s : s[i] = s[j] => i = j

AlmostSorted ==
    \A i, j \in DOMAIN order : i < j => seen[order[i]] <= seen[order[j]] + MaxLatency

QueueInv ==
    /\ DOMAIN seen = Front(order, Len(order))
    /\ Distinct(order)
    /\ Len(order) <= Cap \/ Len(order) <= 1
    /\ AlmostSorted
    /\ \A k \in DOMAIN seen : seen[k] <= clock

(* What the map holds was accepted at that instant. *)
Witnessed ==
    \A k \in DOMAIN seen :
        \E q \in Request : Accepted(q) /\ PairOf(hello[q]) = k /\ now[q] = seen[k]

(* What was accepted is in the map, unless it was evicted or is past the      *)
(* window.                                                                    *)
Remembered(q) ==
    Accepted(q) /\ PairOf(hello[q]) \notin dropped =>
        \/ PairOf(hello[q]) \in DOMAIN seen /\ seen[PairOf(hello[q])] = now[q]
        \/ now[q] + Window < clock

IInv ==
    /\ TypeOK
    /\ \A q \in Request : CallInv(q)
    /\ QueueInv
    /\ Witnessed
    /\ \A q \in Request : Remembered(q)

(* The tracker remembers a pair for as long as a hello with it may arrive.    *)
FreshAtMostOnce == WindowCovers => AcceptedAtMostOnce

-----------------------------------------------------------------------------
(* The deque. *)

LEMMA Least ==
    ASSUME NEW T, T \subseteq Nat, T # {}
    PROVE  \E x \in T : \A y \in T : x <= y
<1>1. PICK x \in T : \A y \in T : ~(<<y, x>> \in {ss \in Nat \X Nat : ss[1] < ss[2]})
  <2>1. IsWellFoundedOn({ss \in Nat \X Nat : ss[1] < ss[2]}, Nat)
    BY NatLessThanWellFounded DEF OpToRel
  <2>2. QED
    BY <2>1, WFMin
<1>2. ASSUME NEW y \in T PROVE x <= y
  <2>1. ~(<<y, x>> \in {ss \in Nat \X Nat : ss[1] < ss[2]})
    BY <1>1
  <2>2. <<y, x>> \in Nat \X Nat
    OBVIOUS
  <2>3. ~(<<y, x>>[1] < <<y, x>>[2])
    BY <2>1, <2>2, Zenon
  <2>4. QED
    BY <2>3
<1>3. QED
  BY <1>2

(* The lazy sweep pops the expired pairs in front of the first live one.      *)
LEMMA Swept ==
    ASSUME order \in Seq(Pair), NEW t
    PROVE  /\ SweptCount(t) \in 0 .. Len(order)
           /\ \A i \in 1 .. SweptCount(t) : Stale(order[i], t)
           /\ SweptCount(t) < Len(order) => ~Stale(order[SweptCount(t) + 1], t)
<1> DEFINE P(n) == /\ \A i \in 1 .. n : Stale(order[i], t)
                   /\ n < Len(order) => ~Stale(order[n + 1], t)
           T == {n \in 0 .. Len(order) : n < Len(order) => ~Stale(order[n + 1], t)}
<1>1. Len(order) \in Nat
  OBVIOUS
<1>2. T \subseteq Nat /\ Len(order) \in T
  BY <1>1
<1>3. PICK n \in T : \A m \in T : n <= m
  <2> HIDE DEF T
  <2>1. QED
    BY <1>2, Least
<1>4. ASSUME NEW i \in 1 .. n PROVE Stale(order[i], t)
  <2>1. i - 1 \in 0 .. Len(order) /\ i - 1 < n /\ i - 1 < Len(order) /\ (i - 1) + 1 = i
    BY <1>1, <1>3
  <2>2. i - 1 \notin T
    BY <1>2, <1>3, <2>1
  <2>3. QED
    BY <2>1, <2>2
<1>5. n \in 0 .. Len(order) /\ P(n)
  BY <1>3, <1>4
<1>6. SweptCount(t) = CHOOSE m \in 0 .. Len(order) : P(m)
  BY DEF SweptCount
<1>7. QED
  <2> HIDE DEF P
  <2>1. SweptCount(t) \in 0 .. Len(order) /\ P(SweptCount(t))
    BY <1>5, <1>6, Zenon
  <2>2. QED
    BY <2>1 DEF P

(* What is left of the deque and of the map when n pairs are popped. *)
Rest(n) == SubSeq(order, n + 1, Len(order))

LEMMA Popped ==
    ASSUME order \in Seq(Pair), QueueInv, NEW n \in 0 .. Len(order)
    PROVE  /\ Rest(n) \in Seq(Pair) /\ Len(Rest(n)) = Len(order) - n
           /\ \A i \in 1 .. Len(Rest(n)) : Rest(n)[i] = order[n + i] /\ n + i \in DOMAIN order
           /\ Front(Rest(n), Len(Rest(n))) = DOMAIN seen \ Front(order, n)
           /\ Distinct(Rest(n))
<1> DEFINE s == Rest(n)
<1>1. Len(order) \in Nat /\ n \in Nat /\ n <= Len(order) /\ DOMAIN order = 1 .. Len(order)
      /\ \A i \in 1 .. Len(order) : order[i] \in Pair
  OBVIOUS
<1>2. /\ s \in Seq(Pair)
      /\ Len(s) = IF n + 1 <= Len(order) THEN Len(order) - (n + 1) + 1 ELSE 0
      /\ \A i \in 1 .. Len(order) - (n + 1) + 1 : s[i] = order[n + 1 + i - 1]
  <2>1. \A i \in n + 1 .. Len(order) : order[i] \in Pair
    BY <1>1
  <2>2. n + 1 \in Int /\ Len(order) \in Int
    BY <1>1
  <2>3. QED
    BY <2>1, <2>2, SubSeqProperties DEF Rest
<1> HIDE DEF s
<1> DEFINE N == Len(order)
           M == Len(s)
<1>b. N \in Nat /\ n \in Nat /\ n <= N /\ DOMAIN order = 1 .. N
  BY <1>1
<1>3. M = N - n
  <2>1. M = IF n + 1 <= N THEN N - (n + 1) + 1 ELSE 0
    BY <1>2
  <2> HIDE DEF M, N
  <2>2. QED
    BY <1>b, <2>1
<1>4. \A i \in 1 .. M : s[i] = order[n + i] /\ n + i \in DOMAIN order
  <2>1. ASSUME NEW i \in 1 .. M PROVE s[i] = order[n + i] /\ n + i \in DOMAIN order
    <3>1. i \in 1 .. N - (n + 1) + 1 /\ n + 1 + i - 1 = n + i /\ n + i \in 1 .. N
      <4> HIDE DEF M, N
      <4>1. QED
        BY <1>b, <1>3, <2>1
    <3>2. QED
      BY <1>1, <1>2, <3>1
  <2>2. QED
    BY <2>1
<1>5. Distinct(s)
  <2>1. DOMAIN s = 1 .. Len(s)
    BY <1>2
  <2>2. ASSUME NEW i \in 1 .. Len(s), NEW j \in 1 .. Len(s), s[i] = s[j] PROVE i = j
    <3>1. n + i = n + j
      BY <1>4, <2>2 DEF QueueInv, Distinct
    <3>2. QED
      BY <1>1, <1>3, <3>1
  <2>3. QED
    BY <2>1, <2>2 DEF Distinct
<1>6. Front(s, Len(s)) = DOMAIN seen \ Front(order, n)
  <2>1. ASSUME NEW k \in Front(s, Len(s)) PROVE k \in DOMAIN seen \ Front(order, n)
    <3>1. PICK i \in 1 .. Len(s) : k = order[n + i] /\ n + i \in DOMAIN order
      BY <1>4, <2>1 DEF Front
    <3>2. k \in DOMAIN seen
      BY <1>1, <3>1 DEF QueueInv, Front
    <3>3. ASSUME NEW j \in 1 .. n, order[j] = k PROVE FALSE
      <4>1. j \in DOMAIN order
        BY <1>1
      <4>2. j = n + i
        BY <3>1, <3>3, <4>1 DEF QueueInv, Distinct
      <4>3. QED
        BY <1>1, <1>3, <4>2
    <3>4. QED
      BY <3>2, <3>3 DEF Front
  <2>2. ASSUME NEW k \in DOMAIN seen \ Front(order, n) PROVE k \in Front(s, Len(s))
    <3>1. PICK j \in 1 .. Len(order) : order[j] = k
      BY DEF QueueInv, Front
    <3>2. j \notin 1 .. n
      BY <3>1 DEF Front
    <3>3. j - n \in 1 .. Len(s) /\ n + (j - n) = j
      BY <1>1, <1>3, <3>2
    <3>4. s[j - n] = k
      BY <1>4, <3>1, <3>3
    <3>5. QED
      BY <3>3, <3>4 DEF Front
  <2>3. QED
    BY <2>1, <2>2
<1>7. QED
  BY <1>2, <1>3, <1>4, <1>5, <1>6 DEF s

(* How many pairs check_and_record pops: what it sweeps, and one more if the  *)
(* tracker is still full.                                                     *)
PoppedCount(t) == SweptCount(t) + EvictedCount(SweptCount(t))

LEMMA PoppedBound ==
    ASSUME order \in Seq(Pair), QueueInv, NEW t
    PROVE  /\ PoppedCount(t) \in 0 .. Len(order)
           /\ SweptCount(t) <= PoppedCount(t)
           /\ Len(order) - PoppedCount(t) + 1 <= Cap \/ Len(order) - PoppedCount(t) + 1 <= 1
<1>1. Len(order) \in Nat /\ Cap \in Nat
  BY HelloTimingAssumption
<1>2. SweptCount(t) \in 0 .. Len(order)
  BY Swept
<1>3. Len(order) <= Cap \/ Len(order) <= 1
  BY DEF QueueInv
<1>4. QED
  BY <1>1, <1>2, <1>3 DEF PoppedCount, EvictedCount, Full

-----------------------------------------------------------------------------
(* check_and_record, in its two outcomes. *)

LEMMA HelloFields ==
    ASSUME TypeOK, NEW q \in Request
    PROVE  hello[q].at \in Nat /\ PairOf(hello[q]) \in Pair /\ now[q] \in Nat
<1>1. hello[q] \in [initiator : Initiator, nonce : Nonce, at : Nat,
                    wellFormed : BOOLEAN, sameMajor : BOOLEAN, signed : BOOLEAN]
  BY HelloAssumption DEF TypeOK
<1>2. QED
  BY <1>1 DEF PairOf, Pair, TypeOK

(* The pair is known: a replay. *)
KnownPair(r) ==
    LET n == SweptCount(now[r])
    IN  /\ PairOf(hello[r]) \in DOMAIN seen \ Front(order, n)
        /\ seen' = [k \in DOMAIN seen \ Front(order, n) |-> seen[k]]
        /\ order' = Rest(n)
        /\ dropped' = dropped
        /\ Return(r, "HandshakeNonceReplay")

(* The pair is new, and is recorded. *)
NewPair(r) ==
    LET n == PoppedCount(now[r])
        pair == PairOf(hello[r])
    IN  /\ pair \notin DOMAIN seen \ Front(order, SweptCount(now[r]))
        /\ pair \notin DOMAIN seen \ Front(order, n)
        /\ seen' = [k \in (DOMAIN seen \ Front(order, n)) \cup {pair} |->
                       IF k = pair THEN now[r] ELSE seen[k]]
        /\ order' = Append(Rest(n), pair)
        /\ dropped' = dropped \cup (Front(order, n) \ Front(order, SweptCount(now[r])))
        /\ Return(r, "Accepted")

LEMMA RecordCases ==
    ASSUME TypeOK, QueueInv, NEW r \in Request, CheckAndRecord(r)
    PROVE  /\ phase[r] = "recording" /\ UNCHANGED <<clock, hello, now>>
           /\ KnownPair(r) \/ NewPair(r)
<1>1. \A n : DOMAIN Without(n) = DOMAIN seen \ Front(order, n)
  BY DEF Without
<1>2. Front(order, SweptCount(now[r])) \subseteq Front(order, PoppedCount(now[r]))
  <2>1. order \in Seq(Pair)
    BY DEF TypeOK
  <2>2. PoppedCount(now[r]) \in Nat /\ SweptCount(now[r]) \in Nat
        /\ SweptCount(now[r]) <= PoppedCount(now[r])
    BY <2>1, Swept, PoppedBound
  <2>3. QED
    BY <2>2 DEF Front
<1>3. KnownPair(r) \/ NewPair(r)
  BY <1>1, <1>2 DEF CheckAndRecord, KnownPair, NewPair, Without, Rest, PoppedCount
<1>4. QED
  BY <1>3 DEF CheckAndRecord

-----------------------------------------------------------------------------
(* Types *)

(* The conjuncts of TypeOK about phase and result. *)
CallsTyped ==
    /\ phase \in [Request -> Phases] /\ result \in [Request -> Results \cup {None}]
    /\ \A r \in Request : phase[r] = "done" <=> result[r] # None

LEMMA ReturnTyped ==
    ASSUME CallsTyped, NEW r \in Request, NEW v \in Results, Return(r, v)
    PROVE  CallsTyped'
<1>1. v # None
  BY DEF Results, None
<1>2. phase' = [phase EXCEPT ![r] = "done"] /\ result' = [result EXCEPT ![r] = v]
  BY DEF Return, Goto
<1>3. phase' \in [Request -> Phases] /\ result' \in [Request -> Results \cup {None}]
  BY <1>2 DEF CallsTyped, Phases
<1>4. QED
  BY <1>1, <1>2, <1>3 DEF CallsTyped

LEMMA GotoTyped ==
    ASSUME CallsTyped, NEW r \in Request, NEW p \in Phases \ {"done"},
           phase[r] # "done", Goto(r, p), UNCHANGED result
    PROVE  CallsTyped'
BY DEF CallsTyped, Goto

(* The conjuncts of TypeOK about the tracker. *)
TrackerTyped ==
    /\ DOMAIN seen \subseteq Pair /\ \A k \in DOMAIN seen : seen[k] \in Nat
    /\ order \in Seq(Pair)
    /\ dropped \subseteq Pair

LEMMA FrontTyped ==
    ASSUME order \in Seq(Pair), NEW n \in 0 .. Len(order)
    PROVE  Front(order, n) \subseteq Pair
BY DEF Front

LEMMA RecordTyped ==
    ASSUME TypeOK, QueueInv, NEW r \in Request, CheckAndRecord(r)
    PROVE  TrackerTyped' /\ CallsTyped'
<1> DEFINE t == now[r]
           pair == PairOf(hello[r])
<1>1. order \in Seq(Pair) /\ pair \in Pair /\ t \in Nat /\ CallsTyped
  BY HelloFields DEF TypeOK, CallsTyped
<1>2. SweptCount(t) \in 0 .. Len(order) /\ PoppedCount(t) \in 0 .. Len(order)
  BY <1>1, Swept, PoppedBound
<1>3. Rest(SweptCount(t)) \in Seq(Pair) /\ Rest(PoppedCount(t)) \in Seq(Pair)
  BY <1>1, <1>2, Popped
<1>4. Front(order, PoppedCount(t)) \subseteq Pair
  BY <1>1, <1>2, FrontTyped
<1> HIDE DEF t, pair
<1>5. CASE KnownPair(r)
  <2>1. TrackerTyped'
    BY <1>3, <1>5 DEF KnownPair, TypeOK, TrackerTyped, t
  <2>2. CallsTyped'
    <3>1. "HandshakeNonceReplay" \in Results
      BY DEF Results
    <3>2. QED
      BY <1>1, <1>5, <3>1, ReturnTyped DEF KnownPair
  <2>3. QED
    BY <2>1, <2>2
<1>6. CASE NewPair(r)
  <2>1. /\ seen' = [k \in (DOMAIN seen \ Front(order, PoppedCount(t))) \cup {pair} |->
                       IF k = pair THEN t ELSE seen[k]]
        /\ order' = Append(Rest(PoppedCount(t)), pair)
        /\ dropped' = dropped \cup (Front(order, PoppedCount(t)) \ Front(order, SweptCount(t)))
    BY <1>6 DEF NewPair, t, pair
  <2>2. order' \in Seq(Pair)
    <3> HIDE DEF Rest
    <3>1. QED
      BY <1>1, <1>3, <2>1
  <2>3. DOMAIN seen' \subseteq Pair /\ \A k \in DOMAIN seen' : seen'[k] \in Nat
    BY <1>1, <2>1 DEF TypeOK
  <2>4. dropped' \subseteq Pair
    BY <1>4, <2>1 DEF TypeOK
  <2>5. CallsTyped'
    <3>1. "Accepted" \in Results
      BY DEF Results
    <3>2. QED
      BY <1>1, <1>6, <3>1, ReturnTyped DEF NewPair
  <2>6. QED
    BY <2>2, <2>3, <2>4, <2>5 DEF TrackerTyped
<1>7. QED
  BY <1>5, <1>6, RecordCases

LEMMA StepTypeOK == ASSUME TypeOK, QueueInv, [Next]_vars PROVE TypeOK'
<1>a. CallsTyped
  BY DEF TypeOK, CallsTyped
<1>1. CASE Tick
  BY <1>1 DEF Tick, TypeOK, callVars, trackerVars
<1>2. ASSUME NEW r \in Request, VerifyHello(r) PROVE TypeOK'
  <2>1. EarlyVerdict(hello[r], clock) \in Results \cup {None}
    BY DEF EarlyVerdict, Results
  <2>2. CallsTyped'
    <3>1. CASE EarlyVerdict(hello[r], clock) = None
      BY <1>2, <3>1, <1>a, GotoTyped DEF VerifyHello, Phases
    <3>2. CASE EarlyVerdict(hello[r], clock) # None
      BY <1>2, <3>2, <2>1, <1>a, ReturnTyped DEF VerifyHello
    <3>3. QED
      BY <3>1, <3>2
  <2>3. QED
    BY <1>2, <2>2 DEF VerifyHello, TypeOK, CallsTyped, trackerVars
<1>3. ASSUME NEW r \in Request, InitiatorResolved(r) PROVE TypeOK'
  <2>1. CallsTyped'
    <3>1. CASE hello[r].signed
      BY <1>3, <3>1, <1>a, GotoTyped DEF InitiatorResolved, Phases
    <3>2. CASE ~hello[r].signed
      BY <1>3, <3>2, <1>a, ReturnTyped DEF InitiatorResolved, Results
    <3>3. QED
      BY <3>1, <3>2
  <2>2. QED
    BY <1>3, <2>1 DEF InitiatorResolved, TypeOK, CallsTyped, trackerVars
<1>4. ASSUME NEW r \in Request, InitiatorNotResolved(r) PROVE TypeOK'
  <2>1. \E v \in Results : Return(r, v)
    BY <1>4 DEF InitiatorNotResolved, Results
  <2>2. CallsTyped'
    BY <2>1, <1>a, ReturnTyped
  <2>3. QED
    BY <1>4, <2>2 DEF InitiatorNotResolved, TypeOK, CallsTyped, trackerVars
<1>5. ASSUME NEW r \in Request, CheckAndRecord(r) PROVE TypeOK'
  BY <1>5, RecordTyped, RecordCases DEF TypeOK, CallsTyped, TrackerTyped
<1>6. CASE UNCHANGED vars
  BY <1>6 DEF vars, callVars, trackerVars, TypeOK
<1>7. QED
  BY <1>1, <1>2, <1>3, <1>4, <1>5, <1>6 DEF Next, Step

-----------------------------------------------------------------------------
(* The calls: readings of the clock and the window of the hello. *)

(* Call q did not move. *)
SameCall(q) ==
    phase'[q] = phase[q] /\ hello'[q] = hello[q] /\ now'[q] = now[q] /\ result'[q] = result[q]

(* Which step is taken: the tracker is only touched by check_and_record.      *)
LEMMA StepKinds ==
    ASSUME TypeOK, [Next]_vars
    PROVE  /\ hello' = hello
           /\ \/ UNCHANGED vars
              \/ Tick
              \/ \E r \in Request :
                    /\ \A q \in Request \ {r} : SameCall(q)
                    /\ clock' = clock
                    /\ \/ CheckAndRecord(r)
                       \/ /\ UNCHANGED <<seen, order, dropped>>
                          /\ result'[r] \notin {"Accepted", "HandshakeNonceReplay"}
                          /\ VerifyHello(r) \/ InitiatorResolved(r) \/ InitiatorNotResolved(r)
<1>1. ASSUME NEW r \in Request, Step(r)
      PROVE  /\ \A q \in Request \ {r} : SameCall(q)
             /\ clock' = clock /\ hello' = hello
             /\ \/ CheckAndRecord(r)
                \/ /\ UNCHANGED <<seen, order, dropped>>
                   /\ result'[r] \notin {"Accepted", "HandshakeNonceReplay"}
                   /\ VerifyHello(r) \/ InitiatorResolved(r) \/ InitiatorNotResolved(r)
  <2> DEFINE Others == \A q \in Request \ {r} : SameCall(q)
  <2>a. /\ phase \in [Request -> Phases] /\ now \in [Request -> Nat]
        /\ result \in [Request -> Results \cup {None}]
        /\ phase[r] # "done" => result[r] = None
    BY DEF TypeOK
  <2>1. CASE VerifyHello(r)
    <3>1. Others
      BY <2>a, <2>1 DEF VerifyHello, Return, Goto, SameCall
    <3>2. result'[r] \notin {"Accepted", "HandshakeNonceReplay"}
      <4>1. EarlyVerdict(hello[r], clock) \notin {"Accepted", "HandshakeNonceReplay"}
        BY DEF EarlyVerdict, None
      <4>2. phase[r] # "done"
        BY <2>1 DEF VerifyHello
      <4>3. result'[r] \in {None, EarlyVerdict(hello[r], clock)}
        BY <2>a, <2>1, <4>2 DEF VerifyHello, Return
      <4>4. QED
        BY <4>1, <4>3 DEF None
    <3>3. QED
      BY <2>1, <3>1, <3>2 DEF VerifyHello, trackerVars
  <2>2. CASE InitiatorResolved(r)
    <3>1. Others
      BY <2>a, <2>2 DEF InitiatorResolved, Return, Goto, SameCall
    <3>2. result'[r] \in {None, "SignatureInvalid"}
      BY <2>a, <2>2 DEF InitiatorResolved, Return
    <3>3. QED
      BY <2>2, <3>1, <3>2 DEF InitiatorResolved, trackerVars, None
  <2>3. CASE InitiatorNotResolved(r)
    <3>1. Others
      BY <2>a, <2>3 DEF InitiatorNotResolved, Return, Goto, SameCall
    <3>2. result'[r] \in {"CounterpartyUnresolved", "Cancelled"}
      BY <2>a, <2>3 DEF InitiatorNotResolved, Return
    <3>3. QED
      BY <2>3, <3>1, <3>2 DEF InitiatorNotResolved, trackerVars
  <2>4. CASE CheckAndRecord(r)
    <3>1. UNCHANGED <<clock, hello, now>>
      BY <2>4 DEF CheckAndRecord
    <3>2. \E v : Return(r, v)
      BY <2>4 DEF CheckAndRecord
    <3>3. Others
      BY <2>a, <3>1, <3>2 DEF Return, Goto, SameCall
    <3>4. QED
      BY <2>4, <3>1, <3>3
  <2>5. QED
    BY <1>1, <2>1, <2>2, <2>3, <2>4 DEF Step
<1>2. CASE Tick
  BY <1>2 DEF Tick, callVars
<1>3. CASE UNCHANGED vars
  BY <1>3 DEF vars, callVars
<1>4. QED
  BY <1>1, <1>2, <1>3 DEF Next

LEMMA StepCallInv ==
    ASSUME IInv, [Next]_vars, NEW q \in Request
    PROVE  CallInv(q)'
<1>a. /\ clock \in Nat /\ MaxLatency \in Nat
      /\ now \in [Request -> Nat] /\ phase \in [Request -> Phases]
      /\ result \in [Request -> Results \cup {None}] /\ CallInv(q)
      /\ hello[q].at \in Nat
      /\ phase[q] # "done" => result[q] # "Accepted"
  BY HelloFields, HelloTimingAssumption DEF IInv, TypeOK, None
<1>1. CASE Tick
  BY <1>1, <1>a DEF Tick, CallInv, InFlight, Accepted, InTime, NotAhead, RecentEnough, callVars
<1>2. ASSUME clock' = clock, SameCall(q) PROVE CallInv(q)'
  BY <1>2, <1>a DEF SameCall, CallInv, InFlight, Accepted, InTime, NotAhead, RecentEnough
<1>3. CASE CheckAndRecord(q)
  <2>1. phase[q] = "recording" /\ UNCHANGED <<clock, hello, now>> /\ phase'[q] = "done"
    BY <1>3, <1>a DEF CheckAndRecord, Return, Goto
  <2>2. QED
    BY <1>a, <2>1 DEF CallInv, InFlight, Accepted, InTime, NotAhead, RecentEnough
<1>4. CASE VerifyHello(q) /\ result'[q] # "Accepted"
  <2>1. UNCHANGED <<clock, hello>> /\ now'[q] = clock
    BY <1>4, <1>a DEF VerifyHello
  <2>2. InFlight(q)' => InTime(hello[q], clock)
    <3>1. CASE EarlyVerdict(hello[q], clock) = None
      BY <3>1 DEF EarlyVerdict, InTime, None
    <3>2. CASE EarlyVerdict(hello[q], clock) # None
      BY <1>4, <1>a, <3>2 DEF VerifyHello, Return, Goto, InFlight
    <3>3. QED
      BY <3>1, <3>2
  <2>3. QED
    BY <1>4, <1>a, <2>1, <2>2 DEF CallInv, Accepted, InTime, NotAhead, RecentEnough
<1>5. CASE (InitiatorResolved(q) \/ InitiatorNotResolved(q)) /\ result'[q] # "Accepted"
  <2>1. UNCHANGED <<clock, hello, now>> /\ InFlight(q)
    BY <1>5 DEF InitiatorResolved, InitiatorNotResolved, InFlight
  <2>2. QED
    BY <1>5, <1>a, <2>1 DEF CallInv, Accepted, InTime, NotAhead, RecentEnough
<1>6. UNCHANGED vars => clock' = clock /\ SameCall(q)
  BY DEF vars, callVars, SameCall
<1>7. QED
  BY <1>1, <1>2, <1>3, <1>4, <1>5, <1>6, StepKinds DEF IInv

-----------------------------------------------------------------------------
(* The tracker. *)

(* What is left of the deque, and that it is the deque of what is left of the *)
(* map, D.                                                                    *)
Remains(s, D) ==
    /\ s \in Seq(Pair) /\ Len(s) \in Nat /\ DOMAIN s = 1 .. Len(s)
    /\ Distinct(s) /\ Front(s, Len(s)) = D
    /\ \A i \in 1 .. Len(s) : s[i] \in D
    /\ \A i, j \in 1 .. Len(s) : i < j => seen[s[i]] <= seen[s[j]] + MaxLatency

LEMMA RecordQueue ==
    ASSUME IInv, NEW r \in Request, CheckAndRecord(r)
    PROVE  QueueInv'
<1> DEFINE t == now[r]
           pair == PairOf(hello[r])
<1>1. /\ order \in Seq(Pair) /\ pair \in Pair /\ t \in Nat /\ clock \in Nat
      /\ \A k \in DOMAIN seen : seen[k] \in Nat /\ seen[k] <= clock
      /\ MaxLatency \in Nat /\ QueueInv /\ clock' = clock
      /\ t <= clock /\ clock <= t + MaxLatency
  BY HelloFields, HelloTimingAssumption DEF IInv, TypeOK, QueueInv, CheckAndRecord, CallInv, InFlight
<1>2. SweptCount(t) \in 0 .. Len(order) /\ PoppedCount(t) \in 0 .. Len(order)
      /\ (Len(order) - PoppedCount(t) + 1 <= Cap \/ Len(order) - PoppedCount(t) + 1 <= 1)
  BY <1>1, Swept, PoppedBound
<1>3. ASSUME NEW n \in 0 .. Len(order)
      PROVE  /\ Len(Rest(n)) = Len(order) - n
             /\ Remains(Rest(n), DOMAIN seen \ Front(order, n))
  <2>1. /\ Rest(n) \in Seq(Pair) /\ Len(Rest(n)) = Len(order) - n
        /\ \A i \in 1 .. Len(Rest(n)) : Rest(n)[i] = order[n + i] /\ n + i \in DOMAIN order
        /\ Front(Rest(n), Len(Rest(n))) = DOMAIN seen \ Front(order, n)
        /\ Distinct(Rest(n))
    BY <1>1, Popped
  <2>2. DOMAIN Rest(n) = 1 .. Len(Rest(n))
    BY <2>1
  <2>3. \A i \in 1 .. Len(Rest(n)) : Rest(n)[i] \in DOMAIN seen \ Front(order, n)
    BY <2>1 DEF Front
  <2>4. ASSUME NEW i \in 1 .. Len(Rest(n)), NEW j \in 1 .. Len(Rest(n)), i < j
        PROVE  seen[Rest(n)[i]] <= seen[Rest(n)[j]] + MaxLatency
    <3>1. n + i < n + j
      BY <2>4
    <3>2. seen[order[n + i]] <= seen[order[n + j]] + MaxLatency
      BY <1>1, <2>1, <3>1 DEF QueueInv, AlmostSorted
    <3>3. QED
      BY <2>1, <3>2
  <2>5. QED
    BY <2>1, <2>2, <2>3, <2>4 DEF Remains
<1> HIDE DEF t, pair
<1>4. CASE KnownPair(r)
  <2> DEFINE n == SweptCount(t)
             s == Rest(n)
  <2>1. /\ DOMAIN seen' = DOMAIN seen \ Front(order, n)
        /\ \A k \in DOMAIN seen' : seen'[k] = seen[k]
        /\ order' = s
    BY <1>4 DEF KnownPair, t
  <2>n. n \in 0 .. Len(order)
    BY <1>2
  <2> HIDE DEF n
  <2>2. /\ DOMAIN s = 1 .. Len(s) /\ Distinct(s) /\ Front(s, Len(s)) = DOMAIN seen'
        /\ \A i \in 1 .. Len(s) : s[i] \in DOMAIN seen'
        /\ \A i, j \in 1 .. Len(s) : i < j => seen[s[i]] <= seen[s[j]] + MaxLatency
        /\ Len(s) <= Len(order) /\ Len(s) \in Nat /\ Len(order) \in Nat
    <3>1. Remains(s, DOMAIN seen')
      BY <1>3, <2>n, <2>1
    <3>2. Len(s) = Len(order) - n
      BY <1>3, <2>n
    <3>3. Len(order) \in Nat
      BY <1>1
    <3> HIDE DEF s
    <3>4. /\ DOMAIN s = 1 .. Len(s) /\ Distinct(s) /\ Front(s, Len(s)) = DOMAIN seen'
          /\ \A i \in 1 .. Len(s) : s[i] \in DOMAIN seen'
          /\ \A i, j \in 1 .. Len(s) : i < j => seen[s[i]] <= seen[s[j]] + MaxLatency
          /\ Len(s) \in Nat
      BY <3>1 DEF Remains
    <3>5. Len(s) <= Len(order)
      BY <2>n, <3>2, <3>3
    <3>6. QED
      BY <3>3, <3>4, <3>5
  <2> HIDE DEF s
  <2>3. Front(order', Len(order')) = DOMAIN seen' /\ Distinct(order')
    BY <2>1, <2>2
  <2>4. Len(order') <= Cap \/ Len(order') <= 1
    BY <1>1, <2>1, <2>2, HelloTimingAssumption DEF QueueInv
  <2>5. AlmostSorted'
    BY <2>1, <2>2 DEF AlmostSorted
  <2>6. \A k \in DOMAIN seen' : seen'[k] <= clock'
    BY <1>1, <2>1
  <2>7. QED
    BY <2>3, <2>4, <2>5, <2>6 DEF QueueInv, Front, Distinct
<1>5. CASE NewPair(r)
  <2> DEFINE n == PoppedCount(t)
             s == Rest(n)
             D == DOMAIN seen \ Front(order, n)
  <2>1. /\ pair \notin D
        /\ seen' = [k \in D \cup {pair} |-> IF k = pair THEN t ELSE seen[k]]
        /\ order' = Append(s, pair)
    BY <1>5 DEF NewPair, t, pair
  <2>n. n \in 0 .. Len(order)
    BY <1>2
  <2> HIDE DEF n
  <2>2. /\ s \in Seq(Pair) /\ DOMAIN s = 1 .. Len(s) /\ Distinct(s) /\ Front(s, Len(s)) = D
        /\ \A i \in 1 .. Len(s) : s[i] \in D
        /\ \A i, j \in 1 .. Len(s) : i < j => seen[s[i]] <= seen[s[j]] + MaxLatency
        /\ Len(s) \in Nat
    <3>1. Remains(s, D)
      BY <1>3, <2>n
    <3> HIDE DEF s, D
    <3>2. QED
      BY <3>1 DEF Remains
  <2>c. Len(s) + 1 <= Cap \/ Len(s) + 1 <= 1
    <3>1. Len(s) = Len(order) - n
      BY <1>3, <2>n
    <3>2. Len(order) - n + 1 <= Cap \/ Len(order) - n + 1 <= 1
      BY <1>2 DEF n
    <3> HIDE DEF s
    <3>3. QED
      BY <3>1, <3>2
  <2>3. D \subseteq DOMAIN seen
    OBVIOUS
  <2> HIDE DEF n, s, D
  <2>4. /\ Len(order') = Len(s) + 1 /\ order'[Len(s) + 1] = pair
        /\ \A i \in 1 .. Len(s) : order'[i] = s[i]
        /\ DOMAIN order' = 1 .. Len(s) + 1
    BY <1>1, <2>1, <2>2
  <2>5. /\ DOMAIN seen' = D \cup {pair} /\ seen'[pair] = t
        /\ \A k \in D : seen'[k] = seen[k]
    BY <2>1
  <2>6. Distinct(order')
    BY <2>1, <2>2, <2>4 DEF Distinct
  <2>7. Front(order', Len(order')) = DOMAIN seen'
    BY <2>2, <2>4, <2>5 DEF Front
  <2>8. Len(order') <= Cap \/ Len(order') <= 1
    BY <2>c, <2>4
  <2>9. AlmostSorted'
    <3>1. ASSUME NEW i \in 1 .. Len(s) + 1, NEW j \in 1 .. Len(s) + 1, i < j
          PROVE  seen'[order'[i]] <= seen'[order'[j]] + MaxLatency
      <4>1. i \in 1 .. Len(s) /\ order'[i] = s[i] /\ s[i] \in D /\ seen'[s[i]] = seen[s[i]]
        BY <2>2, <2>4, <2>5, <3>1
      <4>2. CASE j \in 1 .. Len(s)
        BY <2>2, <2>4, <2>5, <3>1, <4>1, <4>2
      <4>3. CASE j = Len(s) + 1
        <5>1. seen'[order'[j]] = t
          BY <2>4, <2>5, <4>3
        <5>2. seen[s[i]] <= clock /\ seen[s[i]] \in Nat
          BY <1>1, <2>3, <4>1
        <5>3. QED
          BY <1>1, <4>1, <5>1, <5>2
      <4>4. QED
        BY <2>2, <4>2, <4>3
    <3>2. QED
      BY <2>4, <3>1 DEF AlmostSorted
  <2>10. \A k \in DOMAIN seen' : seen'[k] <= clock'
    BY <1>1, <2>3, <2>5
  <2>11. QED
    BY <2>6, <2>7, <2>8, <2>9, <2>10 DEF QueueInv, Front, Distinct
<1>6. QED
  BY <1>4, <1>5, RecordCases DEF IInv

LEMMA StepQueue == ASSUME IInv, [Next]_vars PROVE QueueInv'
<1>1. CASE \E r \in Request : CheckAndRecord(r)
  BY <1>1, RecordQueue
<1>2. CASE UNCHANGED <<seen, order>> /\ (clock' = clock \/ clock' = clock + 1)
  <2>1. clock \in Nat /\ \A k \in DOMAIN seen : seen[k] \in Nat
    BY DEF IInv, TypeOK
  <2>2. QED
    BY <1>2, <2>1 DEF IInv, QueueInv, Front, Distinct, AlmostSorted
<1>3. QED
  BY <1>1, <1>2, StepKinds DEF IInv, Tick, vars, trackerVars

-----------------------------------------------------------------------------
(* What the map says of the calls, and the calls of the map. *)

(* An accepted call is over: no step touches it. *)
LEMMA AcceptedStays ==
    ASSUME TypeOK, [Next]_vars, NEW q \in Request, Accepted(q)
    PROVE  Accepted(q)' /\ hello'[q] = hello[q] /\ now'[q] = now[q]
<1>1. phase[q] = "done"
  BY DEF TypeOK, Accepted, None
<1>2. ASSUME NEW r \in Request, \A p \in Request \ {r} : SameCall(p),
             \/ CheckAndRecord(r)
             \/ VerifyHello(r) \/ InitiatorResolved(r) \/ InitiatorNotResolved(r)
      PROVE  SameCall(q)
  BY <1>1, <1>2 DEF CheckAndRecord, VerifyHello, InitiatorResolved, InitiatorNotResolved
<1>3. SameCall(q)
  BY <1>2, StepKinds DEF Tick, vars, callVars, SameCall
<1>4. QED
  BY <1>3 DEF SameCall, Accepted

(* NewPair makes its own call accepted. *)
LEMMA NewPairAccepted ==
    ASSUME TypeOK, NEW r \in Request, NewPair(r)
    PROVE  Accepted(r)'
BY DEF TypeOK, NewPair, Return, Accepted

LEMMA StepWitnessed == ASSUME IInv, [Next]_vars PROVE Witnessed'
<1>1. ASSUME NEW k \in DOMAIN seen, k \in DOMAIN seen', seen'[k] = seen[k]
      PROVE  \E q \in Request : Accepted(q)' /\ PairOf(hello'[q]) = k /\ now'[q] = seen'[k]
  <2>1. PICK q \in Request : Accepted(q) /\ PairOf(hello[q]) = k /\ now[q] = seen[k]
    BY DEF IInv, Witnessed
  <2>2. Accepted(q)' /\ hello'[q] = hello[q] /\ now'[q] = now[q]
    BY <2>1, AcceptedStays DEF IInv
  <2>3. QED
    BY <1>1, <2>1, <2>2
<1>2. CASE UNCHANGED seen
  BY <1>1, <1>2 DEF Witnessed, PairOf, Accepted
<1>3. ASSUME NEW r \in Request, CheckAndRecord(r) PROVE Witnessed'
  <2>1. UNCHANGED <<hello, now>> /\ TypeOK
    BY <1>3 DEF CheckAndRecord, IInv
  <2>2. CASE KnownPair(r)
    BY <1>1, <2>2 DEF KnownPair, Witnessed, PairOf, Accepted
  <2>3. CASE NewPair(r)
    <3>1. ASSUME NEW k \in DOMAIN seen'
          PROVE  \E q \in Request : Accepted(q)' /\ PairOf(hello'[q]) = k /\ now'[q] = seen'[k]
      <4>1. CASE k = PairOf(hello[r])
        <5>1. seen'[k] = now[r]
          BY <2>3, <4>1 DEF NewPair
        <5>2. QED
          BY <2>1, <2>3, <4>1, <5>1, NewPairAccepted
      <4>2. CASE k # PairOf(hello[r])
        <5>1. k \in DOMAIN seen /\ seen'[k] = seen[k]
          BY <2>3, <3>1, <4>2 DEF NewPair
        <5>2. QED
          BY <1>1, <3>1, <5>1
      <4>3. QED
        BY <4>1, <4>2
    <3>2. QED
      BY <3>1 DEF Witnessed, PairOf, Accepted
  <2>4. QED
    BY <1>3, <2>1, <2>2, <2>3, RecordCases DEF IInv
<1>4. QED
  BY <1>2, <1>3, StepKinds DEF IInv, Tick, vars, trackerVars

(* What the sweep takes is past the window. *)
LEMMA SweptIsOld ==
    ASSUME order \in Seq(Pair), NEW t, NEW k \in Front(order, SweptCount(t))
    PROVE  seen[k] + Window < t
BY Swept DEF Front, Stale

LEMMA StepRemembered ==
    ASSUME IInv, [Next]_vars, NEW q \in Request
    PROVE  Remembered(q)'
<1> DEFINE pair == PairOf(hello[q])
<1>a. /\ clock \in Nat /\ Window \in Nat /\ now[q] \in Nat /\ TypeOK /\ order \in Seq(Pair)
      /\ Remembered(q) /\ clock' \in Nat /\ clock <= clock' /\ hello' = hello
      /\ now' \in [Request -> Nat]
  <2>1. clock' = clock \/ clock' = clock + 1
    BY StepKinds DEF Tick, vars, IInv
  <2>2. TypeOK' /\ TypeOK /\ Remembered(q) /\ hello' = hello
    BY StepTypeOK, StepKinds DEF IInv
  <2>3. QED
    BY <2>1, <2>2, HelloTimingAssumption DEF TypeOK
<1>1. CASE ~Accepted(q)'
  BY <1>1 DEF Remembered, Accepted
<1>2. CASE UNCHANGED <<seen, dropped>> /\ Accepted(q)
  <2>1. now'[q] = now[q] /\ Accepted(q)'
    BY <1>2, AcceptedStays, <1>a
  <2>2. QED
    BY <1>2, <1>a, <2>1 DEF Remembered, Accepted, PairOf
<1>3. ASSUME NEW r \in Request, CheckAndRecord(r), Accepted(q) PROVE Remembered(q)'
  <2>1. now'[q] = now[q] /\ now[r] \in Nat /\ now[r] <= clock
    BY <1>3, <1>a, AcceptedStays DEF IInv, CallInv, TypeOK
  <2>2. CASE now[q] + Window < clock
    BY <1>a, <2>1, <2>2 DEF Remembered, PairOf
  <2>3. CASE PairOf(hello[q]) \in dropped
    <3>1. dropped \subseteq dropped'
      BY <1>3, <1>a, RecordCases DEF KnownPair, NewPair, IInv
    <3>2. QED
      BY <1>a, <2>3, <3>1 DEF Remembered, PairOf
  <2>4. CASE pair \in DOMAIN seen /\ seen[pair] = now[q] /\ pair \notin dropped
    <3>1. CASE pair \in Front(order, SweptCount(now[r]))
      <4>1. now[q] + Window < now[r]
        BY <1>a, <2>4, <3>1, SweptIsOld
      <4>2. now[q] + Window < clock'
        BY <1>a, <2>1, <4>1
      <4>3. QED
        BY <2>1, <4>2 DEF Remembered
    <3>2. CASE pair \notin Front(order, SweptCount(now[r])) /\ KnownPair(r)
      <4>1. pair \in DOMAIN seen' /\ seen'[pair] = now[q]
        BY <2>4, <3>2 DEF KnownPair
      <4>2. QED
        BY <1>a, <2>1, <4>1 DEF Remembered, PairOf
    <3>3. CASE pair \notin Front(order, SweptCount(now[r])) /\ NewPair(r)
      <4>1. pair # PairOf(hello[r])
        BY <2>4, <3>3 DEF NewPair
      <4>2. CASE pair \in Front(order, PoppedCount(now[r]))
        <5>1. pair \in dropped'
          BY <3>3, <4>2 DEF NewPair
        <5>2. QED
          BY <1>a, <5>1 DEF Remembered, PairOf
      <4>3. CASE pair \notin Front(order, PoppedCount(now[r]))
        <5>1. pair \in DOMAIN seen' /\ seen'[pair] = now[q]
          BY <2>4, <3>3, <4>1, <4>3 DEF NewPair
        <5>2. QED
          BY <1>a, <2>1, <5>1 DEF Remembered, PairOf
      <4>4. QED
        BY <4>2, <4>3
    <3>4. QED
      BY <1>3, <1>a, <3>1, <3>2, <3>3, RecordCases DEF IInv
  <2>5. QED
    BY <1>3, <1>a, <2>2, <2>3, <2>4 DEF Remembered
<1>4. ASSUME ~Accepted(q), Accepted(q)' PROVE Remembered(q)'
  <2>1. CheckAndRecord(q)
    BY <1>4, <1>a, StepKinds DEF Accepted, Tick, vars, callVars, SameCall
  <2>2. NewPair(q)
    <3>1. ~KnownPair(q)
      BY <1>4, <1>a DEF KnownPair, Return, Accepted, TypeOK
    <3>2. QED
      BY <2>1, <3>1, <1>a, RecordCases DEF IInv
  <2>3. now'[q] = now[q]
    BY <2>1 DEF CheckAndRecord
  <2>4. pair \in DOMAIN seen' /\ seen'[pair] = now[q]
    BY <2>2 DEF NewPair
  <2>5. QED
    BY <1>a, <2>3, <2>4 DEF Remembered, PairOf
<1>5. QED
  <2>1. \/ UNCHANGED <<seen, dropped>>
        \/ \E r \in Request : CheckAndRecord(r)
    BY <1>a, StepKinds DEF Tick, vars, trackerVars
  <2>2. QED
    BY <2>1, <1>1, <1>2, <1>3, <1>4

(* A second call with a hello that was accepted finds its pair in the map.    *)
LEMMA StepAtMostOnce ==
    ASSUME IInv, FreshAtMostOnce, [Next]_vars
    PROVE  FreshAtMostOnce'
<1>1. ASSUME NEW r \in Request, NEW q \in Request, r # q, hello[r] = hello[q],
             ~Accepted(r), Accepted(r)', Accepted(q),
             PairOf(hello[r]) \notin dropped', WindowCovers
      PROVE  FALSE
  <2> DEFINE pair == PairOf(hello[r])
  <2>1. CheckAndRecord(r)
    BY <1>1, StepKinds DEF Accepted, Tick, vars, callVars, SameCall, IInv
  <2>2. NewPair(r)
    <3>1. ~KnownPair(r)
      BY <1>1 DEF KnownPair, Return, Accepted, TypeOK, IInv
    <3>2. QED
      BY <2>1, <3>1, RecordCases DEF IInv
  <2>3. pair \notin dropped
    BY <1>1, <2>2 DEF NewPair
  <2>4. \/ pair \in Front(order, SweptCount(now[r])) /\ seen[pair] = now[q]
        \/ now[q] + Window < clock
    BY <1>1, <2>2, <2>3 DEF NewPair, IInv, Remembered
  <2>5. /\ now[r] <= clock /\ clock <= now[r] + MaxLatency
        /\ InTime(hello[r], now[r]) /\ InTime(hello[r], now[q])
    BY <1>1, <2>1 DEF IInv, CallInv, InFlight, CheckAndRecord
  <2>6. /\ now[r] \in Nat /\ now[q] \in Nat /\ clock \in Nat /\ hello[r].at \in Nat
        /\ Skew \in Nat /\ Window \in Nat /\ MaxLatency \in Nat
    BY HelloFields, HelloTimingAssumption DEF IInv, TypeOK
  <2>7. now[q] + Window < clock
    <3>1. CASE pair \in Front(order, SweptCount(now[r])) /\ seen[pair] = now[q]
      <4>1. now[q] + Window < now[r]
        BY <3>1, SweptIsOld DEF IInv, TypeOK
      <4>2. QED
        BY <2>5, <2>6, <4>1
    <3>2. QED
      BY <2>4, <3>1
  <2>8. now[r] <= now[q] + 2 * Skew
    BY <2>5, <2>6 DEF InTime, NotAhead, RecentEnough
  <2>9. QED
    BY <1>1, <2>5, <2>6, <2>7, <2>8 DEF WindowCovers
<1>2. dropped \subseteq dropped' /\ hello' = hello
  <2>1. hello' = hello
    BY StepKinds DEF IInv
  <2>2. \/ dropped' = dropped
        \/ \E r \in Request : KnownPair(r) \/ NewPair(r)
    BY StepKinds, RecordCases DEF IInv, Tick, vars, trackerVars
  <2>3. QED
    BY <2>1, <2>2 DEF KnownPair, NewPair
<1>3. ASSUME NEW r \in Request, NEW q \in Request, Accepted(r)', Accepted(q)', r # q,
             ~Accepted(r), ~Accepted(q)
      PROVE  FALSE
  BY <1>3, StepKinds DEF Accepted, SameCall, Tick, vars, callVars, IInv
<1>4. ASSUME NEW r \in Request, NEW q \in Request, WindowCovers, r # q,
             Accepted(r)', Accepted(q)', hello[r] = hello[q], PairOf(hello[r]) \notin dropped'
      PROVE  FALSE
  <2>1. CASE Accepted(r) /\ Accepted(q)
    BY <1>2, <1>4, <2>1 DEF FreshAtMostOnce, AcceptedAtMostOnce, Accepted
  <2>2. CASE ~Accepted(r) /\ Accepted(q)
    BY <1>1, <1>4, <2>2
  <2>3. CASE Accepted(r) /\ ~Accepted(q)
    BY <1>1, <1>4, <2>3
  <2>4. QED
    BY <1>3, <1>4, <2>1, <2>2, <2>3
<1>5. QED
  BY <1>2, <1>4 DEF FreshAtMostOnce, AcceptedAtMostOnce, Accepted, WindowCovers, PairOf

LEMMA InitInv == Init => IInv /\ FreshAtMostOnce
<1> SUFFICES ASSUME Init PROVE IInv /\ FreshAtMostOnce
  OBVIOUS
<1>1. \A q \in Request : phase[q] = "idle" /\ result[q] = None /\ now[q] = 0
  BY DEF Init
<1>2. order = <<>> /\ Len(order) = 0 /\ DOMAIN seen = {} /\ clock = 0
  BY DEF Init
<1>3. TypeOK
  <2>1. order \in Seq(Pair)
    BY <1>2
  <2>2. QED
    BY <2>1 DEF Init, TypeOK, Phases
<1>4. \A q \in Request : CallInv(q) /\ Remembered(q)
  BY <1>1, <1>2 DEF CallInv, Remembered, InFlight, Accepted, None
<1>5. QueueInv
  BY <1>2, HelloTimingAssumption DEF QueueInv, Front, Distinct, AlmostSorted
<1>6. Witnessed /\ FreshAtMostOnce
  BY <1>1, <1>2 DEF Witnessed, FreshAtMostOnce, AcceptedAtMostOnce, None
<1>7. QED
  BY <1>3, <1>4, <1>5, <1>6 DEF IInv

(* The tracker's map and deque, and the calls it answered, agree at every     *)
(* step of check_and_record's callers, for any cap, window and latency.       *)
THEOREM InductiveInvariant == Spec => []IInv
<1>1. IInv /\ [Next]_vars => IInv'
  <2> SUFFICES ASSUME IInv, [Next]_vars PROVE IInv'
    OBVIOUS
  <2>1. TypeOK' /\ QueueInv' /\ Witnessed'
    BY StepTypeOK, StepQueue, StepWitnessed DEF IInv
  <2>2. \A q \in Request : CallInv(q)' /\ Remembered(q)'
    BY StepCallInv, StepRemembered
  <2>3. QED
    BY <2>1, <2>2 DEF IInv
<1>2. QED
  BY <1>1, InitInv, PTL DEF Spec

(* Every variable of the responder keeps its type. *)
THEOREM TypeCorrect == Spec => []TypeOK
<1>1. IInv => TypeOK
  BY DEF IInv
<1>2. QED
  BY <1>1, InductiveInvariant, PTL

(* The map and the deque stay in lockstep within the cap: pop_front and       *)
(* remove always hit the same pair, whatever the calls do.                    *)
THEOREM InLockStep == Spec => []LockStep
<1>1. ASSUME IInv PROVE LockStep
  <2> DEFINE N == Len(order)
  <2>1. order \in Seq(Pair) /\ N \in Nat /\ DOMAIN order = 1 .. N
    BY <1>1 DEF IInv, TypeOK
  <2>2. DOMAIN seen = Front(order, N) /\ Distinct(order)
    BY <1>1 DEF IInv, QueueInv
  <2>3. ExistsBijection(1 .. N, DOMAIN seen)
    <3>1. order \in Bijection(1 .. N, DOMAIN seen)
      <4>1. order \in [1 .. N -> DOMAIN seen]
        BY <2>1, <2>2 DEF Front
      <4>2. QED
        BY <2>1, <2>2, <4>1 DEF Front, Distinct, Bijection, Injection, Surjection, IsInjective
    <3>2. QED
      BY <3>1 DEF ExistsBijection
  <2>4. Cardinality(DOMAIN seen) = N
    BY <2>1, <2>3, FS_CountingElements
  <2>5. QED
    BY <1>1, <2>2, <2>4 DEF LockStep, IInv, QueueInv
<1>2. QED
  BY <1>1, InductiveInvariant, PTL

(* With a replay window of at least two skews and one latency, no two calls   *)
(* accept one hello, unless the tracker was full and evicted it.              *)
THEOREM AtMostOnce == ASSUME WindowCovers PROVE Spec => []AcceptedAtMostOnce
<1>1. IInv /\ FreshAtMostOnce /\ [Next]_vars => FreshAtMostOnce'
  BY StepAtMostOnce
<1>2. FreshAtMostOnce => AcceptedAtMostOnce
  BY DEF FreshAtMostOnce
<1>3. QED
  BY <1>1, <1>2, InitInv, InductiveInvariant, PTL DEF Spec

(* HandshakeNonceReplay is never a false alarm: another call accepted the     *)
(* nonce at the reported instant, at most a window and a latency ago.         *)
THEOREM TruthfulReplay == Spec => ReplayIsTruthful
<1> DEFINE Reported(r) == result'[r] = "HandshakeNonceReplay" /\ result[r] # "HandshakeNonceReplay"
           Truthful(r) ==
               LET firstSeenAt == seen[PairOf(hello[r])]
               IN  /\ now[r] <= firstSeenAt + Window + MaxLatency
                   /\ \E q \in Request \ {r} :
                         /\ result[q] = "Accepted"
                         /\ PairOf(hello[q]) = PairOf(hello[r])
                         /\ now[q] = firstSeenAt
<1>1. ASSUME IInv, [Next]_vars, NEW r \in Request, Reported(r) PROVE Truthful(r)
  <2> DEFINE pair == PairOf(hello[r])
             t == now[r]
             n == SweptCount(t)
  <2>1. CheckAndRecord(r)
    BY <1>1, StepKinds DEF SameCall, Tick, vars, callVars, IInv
  <2>2. KnownPair(r) /\ phase[r] = "recording"
    <3>1. ~NewPair(r)
      BY <1>1 DEF NewPair, Return, TypeOK, IInv
    <3>2. QED
      BY <1>1, <2>1, <3>1, RecordCases DEF IInv
  <2>3. pair \in DOMAIN seen \ Front(order, n)
    BY <2>2 DEF KnownPair
  <2>4. /\ order \in Seq(Pair) /\ DOMAIN order = 1 .. Len(order) /\ Len(order) \in Nat
        /\ n \in 0 .. Len(order)
        /\ n < Len(order) => ~Stale(order[n + 1], t)
    BY <1>1, Swept DEF IInv, TypeOK
  <2>5. PICK j \in 1 .. Len(order) : order[j] = pair
    BY <1>1, <2>3 DEF IInv, QueueInv, Front
  <2>6. j \notin 1 .. n
    BY <2>3, <2>5 DEF Front
  <2>7. /\ seen[order[n + 1]] \in Nat /\ seen[pair] \in Nat /\ t \in Nat
        /\ Window \in Nat /\ MaxLatency \in Nat
    <3>1. n + 1 \in 1 .. Len(order)
      BY <2>4, <2>5, <2>6
    <3>2. order[n + 1] \in DOMAIN seen
      BY <1>1, <2>4, <3>1 DEF IInv, QueueInv, Front
    <3>3. QED
      BY <1>1, <2>3, <3>2, HelloTimingAssumption DEF IInv, TypeOK
  <2>8. t <= seen[order[n + 1]] + Window
    BY <2>4, <2>5, <2>6, <2>7 DEF Stale
  <2>9. seen[order[n + 1]] <= seen[pair] + MaxLatency
    <3>1. CASE j = n + 1
      BY <2>5, <2>7, <3>1
    <3>2. CASE j # n + 1
      <4>1. n + 1 \in 1 .. Len(order) /\ n + 1 < j
        BY <2>4, <2>5, <2>6, <3>2
      <4>2. QED
        BY <1>1, <2>4, <2>5, <4>1 DEF IInv, QueueInv, AlmostSorted
    <3>3. QED
      BY <3>1, <3>2
  <2>10. t <= seen[pair] + Window + MaxLatency
    BY <2>7, <2>8, <2>9
  <2>11. PICK q \in Request : Accepted(q) /\ PairOf(hello[q]) = pair /\ now[q] = seen[pair]
    BY <1>1, <2>3 DEF IInv, Witnessed
  <2>12. q # r
    BY <1>1, <2>2, <2>11 DEF IInv, TypeOK, Accepted, None
  <2>13. QED
    BY <2>10, <2>11, <2>12 DEF Accepted
<1>2. IInv /\ [Next]_vars => [\A r \in Request : Reported(r) => Truthful(r)]_vars
  BY <1>1
<1>3. QED
  BY <1>2, InductiveInvariant, PTL DEF Spec, ReplayIsTruthful
=============================================================================
