----------------------------- MODULE HelloReplay ----------------------------
(***************************************************************************)
(* Receipt of sync-channel hellos by the responder: verify_sync_hello of   *)
(* src/verification.rs with the DefaultHandshakeNonceTracker of            *)
(* src/wire/handshake_tracker.rs behind it.  The tracker holds a map from  *)
(* (initiator, nonce) to the instant it was first seen and a deque of the  *)
(* same pairs in the order they were inserted, under one mutex.  A call    *)
(* reads the clock before it awaits the initiator's DID document and hands *)
(* that reading to the tracker afterwards, so the deque is not sorted.     *)
(***************************************************************************)
EXTENDS Naturals, Sequences, FiniteSets

CONSTANTS
    Request,     \* the verification calls of the run
    Hello,       \* the hellos that may reach the responder
    Initiator, Nonce,
    Skew,        \* SyncHandshakeVerificationConfig::max_clock_skew
    Window,      \* replay_window of the tracker
    Cap,         \* cap of the tracker
    MaxLatency,  \* what a call may take, from reading the clock to its end
    MaxTime      \* bound on the clock

ASSUME HelloTimingAssumption ==
    /\ Skew \in Nat /\ Window \in Nat /\ Cap \in Nat
    /\ MaxLatency \in Nat /\ MaxTime \in Nat

ASSUME HelloAssumption ==
    Hello \subseteq [initiator : Initiator, nonce : Nonce, at : Nat,
                     wellFormed : BOOLEAN, sameMajor : BOOLEAN, signed : BOOLEAN]

VARIABLES
    clock,    \* SystemTime::now() of the responder
    phase,    \* where the call stands
    hello,    \* the hello the call is handed; any hello, any number of times
    now,      \* the call's clock reading
    result,   \* what the call returned
    seen,     \* the tracker's map
    order,    \* the tracker's deque
    dropped   \* history: pairs evicted because the tracker was full

callVars    == <<phase, hello, now, result>>
trackerVars == <<seen, order, dropped>>
vars        == <<clock, callVars, trackerVars>>

None    == "None"
Phases  == {"idle", "resolving", "recording", "done"}
Results == {"Malformed", "NotYetValid", "TooOld", "LexiconSetMajorVersionMismatch",
            "CounterpartyUnresolved", "SignatureInvalid", "Cancelled",
            "HandshakeNonceReplay", "Accepted"}

Pair == Initiator \X Nonce

(* Every variable stays in its type; a call has a result once it is over.     *)
TypeOK ==
    /\ clock \in Nat
    /\ phase \in [Request -> Phases]
    /\ hello \in [Request -> Hello]
    /\ now \in [Request -> Nat]
    /\ result \in [Request -> Results \cup {None}]
    /\ \A r \in Request : phase[r] = "done" <=> result[r] # None
    /\ DOMAIN seen \subseteq Pair /\ \A k \in DOMAIN seen : seen[k] \in Nat
    /\ order \in Seq(Pair)
    /\ dropped \subseteq Pair

Init ==
    /\ clock = 0
    /\ phase = [r \in Request |-> "idle"]
    /\ hello \in [Request -> Hello]
    /\ now = [r \in Request |-> 0]
    /\ result = [r \in Request |-> None]
    /\ seen = [k \in {} |-> 0]
    /\ order = <<>>
    /\ dropped = {}

InFlight(r) == phase[r] \in {"resolving", "recording"}

Goto(r, p) == phase' = [phase EXCEPT ![r] = p]

Return(r, v) ==
    /\ Goto(r, "done")
    /\ result' = [result EXCEPT ![r] = v]

(* Time passes.  The await ends by the caller's deadline, so no call is in    *)
(* flight for longer than MaxLatency.                                         *)
Tick ==
    /\ clock < MaxTime
    /\ \A r \in Request : InFlight(r) => clock < now[r] + MaxLatency
    /\ clock' = clock + 1
    /\ UNCHANGED <<callVars, trackerVars>>

-----------------------------------------------------------------------------
(* Steps 1 to 5: size, form and algorithm, check_at_window, major version.    *)

RecentEnough(h, t) == t <= h.at + Skew
NotAhead(h, t)     == h.at <= t + Skew

(* The checks that end a call before it awaits anything, in their order. *)
EarlyVerdict(h, t) ==
    IF ~h.wellFormed THEN "Malformed"
    ELSE IF ~NotAhead(h, t) THEN "NotYetValid"
    ELSE IF ~RecentEnough(h, t) THEN "TooOld"
    ELSE IF ~h.sameMajor THEN "LexiconSetMajorVersionMismatch"
    ELSE None

VerifyHello(r) ==
    LET verdict == EarlyVerdict(hello[r], clock)
    IN  /\ phase[r] = "idle"
        /\ now' = [now EXCEPT ![r] = clock]
        /\ \/ verdict # None /\ Return(r, verdict)
           \/ verdict = None /\ Goto(r, "resolving") /\ UNCHANGED result
        /\ UNCHANGED <<clock, hello, trackerVars>>

-----------------------------------------------------------------------------
(* Steps 6 and 7: the initiator's document arrives and the signature is       *)
(* checked; or there is no document, or no such key; or the caller drops the  *)
(* future at its await.                                                       *)

InitiatorResolved(r) ==
    /\ phase[r] = "resolving"
    /\ \/ hello[r].signed /\ Goto(r, "recording") /\ UNCHANGED result
       \/ ~hello[r].signed /\ Return(r, "SignatureInvalid")
    /\ UNCHANGED <<clock, hello, now, trackerVars>>

InitiatorNotResolved(r) ==
    /\ phase[r] = "resolving"
    /\ \E v \in {"CounterpartyUnresolved", "Cancelled"} : Return(r, v)
    /\ UNCHANGED <<clock, hello, now, trackerVars>>

-----------------------------------------------------------------------------
(* Step 8: DefaultHandshakeNonceTracker::check_and_record, atomic under the   *)
(* tracker's mutex.                                                           *)

PairOf(h) == <<h.initiator, h.nonce>>

Front(s, n) == {s[i] : i \in 1 .. n}

(* Mutation of Stale: an entry exactly Window old is swept. *)
StaleAtWindow(k, t) == seen[k] + Window <= t

Stale(k, t) == seen[k] + Window < t

(* Mutation of SweptCount: nothing is swept. *)
SweptCountZero(t) == 0

(* How many entries the lazy sweep pops: it stops at the first live one.      *)
SweptCount(t) ==
    CHOOSE n \in 0 .. Len(order) :
        /\ \A i \in 1 .. n : Stale(order[i], t)
        /\ n < Len(order) => ~Stale(order[n + 1], t)

Full(n) == n >= Cap

(* How many entries an insertion pops besides, with n entries swept. *)
EvictedCount(n) ==
    IF Full(Len(order) - n) /\ n < Len(order) THEN 1 ELSE 0

(* Mutation of Without: only the deque is popped. *)
WithoutNothing(n) == seen

(* The map without the first n pairs of the deque. *)
Without(n) == [k \in DOMAIN seen \ Front(order, n) |-> seen[k]]

CheckAndRecord(r) ==
    LET pair  == PairOf(hello[r])
        swept == SweptCount(now[r])
        known == pair \in DOMAIN Without(swept)
        popped == swept + EvictedCount(swept)
    IN  /\ phase[r] = "recording"
        /\ \/ /\ known
              /\ seen' = Without(swept)
              /\ order' = SubSeq(order, swept + 1, Len(order))
              /\ Return(r, "HandshakeNonceReplay")
              /\ UNCHANGED dropped
           \/ /\ ~known
              /\ seen' = [k \in DOMAIN Without(popped) \cup {pair} |->
                             IF k = pair THEN now[r] ELSE seen[k]]
              /\ order' = Append(SubSeq(order, popped + 1, Len(order)), pair)
              /\ dropped' = dropped \cup (Front(order, popped) \ Front(order, swept))
              /\ Return(r, "Accepted")
        /\ UNCHANGED <<clock, hello, now>>

-----------------------------------------------------------------------------
Step(r) ==
    VerifyHello(r) \/ InitiatorResolved(r) \/ InitiatorNotResolved(r) \/ CheckAndRecord(r)

Next == Tick \/ \E r \in Request : Step(r)

Spec == Init /\ [][Next]_vars

-----------------------------------------------------------------------------
(* Properties *)

(* How long the tracker must remember a pair: a hello is acceptable from one  *)
(* skew before its `at` to one skew after it, and a call lags by its latency. *)
WindowCovers == Window >= 2 * Skew + MaxLatency

(* A hello is accepted at most once, however many copies of it arrive and     *)
(* however their verifications interleave, unless the tracker was full and    *)
(* evicted it (the degradation the tracker documents).                        *)
AcceptedAtMostOnce ==
    \A r, q \in Request :
        /\ result[r] = "Accepted" /\ result[q] = "Accepted"
        /\ hello[r] = hello[q]
        /\ PairOf(hello[r]) \notin dropped
        => r = q

(* The map and the deque stay in lockstep: the same pairs, each once, and no  *)
(* more than the cap; a cap of zero is a cap of one.                          *)
LockStep ==
    /\ DOMAIN seen = Front(order, Len(order))
    /\ Len(order) = Cardinality(DOMAIN seen)
    /\ Len(order) <= Cap \/ Len(order) <= 1

(* A reported replay is one: another call accepted a hello with that nonce    *)
(* from that initiator at the instant reported as first_seen_at, and that is  *)
(* within the replay window, give or take the latency of a call.  (An expired *)
(* pair behind a live front outlives the sweep, but not for long.)            *)
ReplayIsTruthful ==
    [][\A r \in Request :
          result'[r] = "HandshakeNonceReplay" /\ result[r] # "HandshakeNonceReplay" =>
              LET firstSeenAt == seen[PairOf(hello[r])]
              IN  /\ now[r] <= firstSeenAt + Window + MaxLatency
                  /\ \E q \in Request \ {r} :
                        /\ result[q] = "Accepted"
                        /\ PairOf(hello[q]) = PairOf(hello[r])
                        /\ now[q] = firstSeenAt]_vars
=============================================================================
