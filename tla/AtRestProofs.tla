---------------------------- MODULE AtRestProofs ----------------------------
(***************************************************************************)
(* Proofs about private content at rest, in two parts that share no        *)
(* variable:                                                               *)
(*                                                                         *)
(*  - RotationOracle, for any number of threads, any cadence and any       *)
(*    latency: no call is given a generation past its cadence, the         *)
(*    generation in force never goes back further than one call's latency  *)
(*    and not at all unless a rotation was overtaken, over restarts        *)
(*    included, and what is being persisted is always heading for the      *)
(*    generation in force;                                                 *)
(*  - PrivatePost, for any posts, places, hooks, audiences and number of   *)
(*    overlapping calls: readers get what was posted where they read,      *)
(*    clear fields agree with the content beside them, stamps are fresh    *)
(*    and masks unused.                                                    *)
(***************************************************************************)
EXTENDS RotationOracle, PrivatePost, WellFoundedInduction, TLAPS

-----------------------------------------------------------------------------
(* RotationOracle: the inductive invariant, in parts. *)

(* No generation is dated in the future, and a thread that has read the clock *)
(* acts on the reading within MaxLatency.                                     *)
TimeInv ==
    /\ state.at <= clock
    /\ \A t \in Thread : phase[t] \in {"asking", "stale"} =>
          inner[t] <= clock /\ clock <= inner[t] + MaxLatency

(* A process that is down has neither calls, nor a channel, nor a write under *)
(* way.                                                                       *)
DownInv ==
    ~up => queue = <<>> /\ writing = <<>> /\ \A t \in Thread : phase[t] = "idle"

(* A generation that g overtook would be past its cadence by now: what is     *)
(* sent, being written or in the file is in force or was rotated for its age. *)
Overtaken(g) == g = state \/ g.at + Cadence <= state.at

DiskInv ==
    ~late => /\ \A i \in DOMAIN queue : Overtaken(queue[i])
             /\ \A i \in DOMAIN writing : Overtaken(writing[i])
             /\ file # Torn => Overtaken(file)

IInv == TypeOK /\ TimeInv /\ ServedWithinCadence /\ DownInv /\ PersistsInOrder /\ DiskInv

LEMMA EmptySeq == <<>> \in Seq(Generation) /\ Len(<<>>) <= 1
OBVIOUS

LEMMA InitIInv == Init => IInv
<1> SUFFICES ASSUME Init PROVE IInv
  OBVIOUS
<1>1. state \in Generation /\ state.at = 0
  BY DEF Init, Generation
<1>2. TypeOK
  <2>1. queue \in Seq(Generation) /\ writing \in Seq(Generation) /\ Len(writing) <= 1
    BY EmptySeq DEF Init
  <2>2. mark \in [Thread -> Generation] /\ file \in Generation
    BY <1>1 DEF Init
  <2>3. /\ phase \in [Thread -> Phases] /\ result \in [Thread -> Results]
        /\ outer \in [Thread -> Nat] /\ inner \in [Thread -> Nat]
    BY DEF Init, Phases, Results
  <2>4. QED
    BY <1>1, <2>1, <2>2, <2>3 DEF Init, TypeOK
<1>3. TimeInv /\ ServedWithinCadence
  BY <1>1 DEF Init, TimeInv, ServedWithinCadence
<1>4. DownInv /\ PersistsInOrder /\ DiskInv
  BY DEF Init, DownInv, PersistsInOrder, DiskInv, Overtaken
<1>5. QED
  BY <1>2, <1>3, <1>4 DEF IInv

-----------------------------------------------------------------------------
(* Type correctness. *)
LEMMA StepTypeOK == ASSUME TypeOK, [Next]_vars PROVE TypeOK'
<1>1. CASE Tick
  BY <1>1 DEF Tick, diskVars, threadVars, TypeOK
<1>2. ASSUME NEW t \in Thread, ThreadStep(t) PROVE TypeOK'
  <2>1. CASE Encode(t) \/ AskGeneration(t)
    BY <2>1 DEF Encode, AskGeneration, Goto, diskVars, TypeOK, Phases
  <2>2. CASE CheckFreshness(t) \/ FastPath(t)
    BY <2>2 DEF CheckFreshness, FastPath, Goto, Return, diskVars, TypeOK, Phases, Results
  <2>3. CASE SlowPath(t)
    <3> DEFINE next == [slug |-> drawn, at |-> inner[t]]
    <3>1. next \in Generation
      BY DEF TypeOK, Generation
    <3>2. /\ state' \in Generation /\ drawn' \in Nat /\ queue' \in Seq(Generation)
          /\ mark' \in [Thread -> Generation]
      <4> HIDE DEF next
      <4>1. /\ state' = state \/ state' = next
            /\ drawn' = drawn \/ drawn' = drawn + 1
            /\ queue' = queue \/ queue' = Append(queue, next)
            /\ \/ mark' = [mark EXCEPT ![t] = state]
               \/ mark' = [mark EXCEPT ![t] = next]
        BY <2>3 DEF SlowPath, Dispatch, RotatedAt, Return, next
      <4>2. state' \in Generation /\ drawn' \in Nat
        BY <3>1, <4>1 DEF TypeOK
      <4>3. queue' \in Seq(Generation)
        <5>1. queue \in Seq(Generation)
          BY DEF TypeOK
        <5>2. Append(queue, next) \in Seq(Generation)
          BY <3>1, <5>1
        <5>3. QED
          BY <4>1, <5>1, <5>2
      <4>4. mark' \in [Thread -> Generation]
        BY <3>1, <4>1 DEF TypeOK
      <4>5. QED
        BY <4>2, <4>3, <4>4
    <3>3. phase' \in [Thread -> Phases] /\ result' \in [Thread -> Results]
      BY <2>3 DEF SlowPath, Return, Goto, TypeOK, Phases, Results
    <3>4. QED
      BY <2>3, <3>2, <3>3 DEF SlowPath, TypeOK
  <2>4. QED
    BY <1>2, <2>1, <2>2, <2>3 DEF ThreadStep
<1>3. CASE Worker
  <2>1. queue # <<>> => Head(queue) \in Generation /\ Tail(queue) \in Seq(Generation)
    BY DEF TypeOK
  <2>2. writing # <<>> => Head(writing) \in Generation
    BY DEF TypeOK
  <2>3. CASE WorkerOpens
    <3>1. writing' \in Seq(Generation) /\ Len(writing') <= 1
      BY <2>1, <2>3 DEF WorkerOpens
    <3>2. QED
      BY <2>1, <2>3, <3>1 DEF WorkerOpens, threadVars, TypeOK
  <2>4. CASE WorkerCannotOpen
    BY <2>1, <2>4 DEF WorkerCannotOpen, threadVars, TypeOK
  <2>5. CASE WorkerWrites \/ WorkerWriteFails
    <3>1. writing' \in Seq(Generation) /\ Len(writing') <= 1
      <4>1. writing' = <<>>
        BY <2>5 DEF WorkerWrites, WorkerWriteFails
      <4>2. QED
        BY <4>1, EmptySeq
    <3>2. file' \in Generation \cup {Torn} /\ writeFailed' \in BOOLEAN
      BY <2>2, <2>5 DEF WorkerWrites, WorkerWriteFails, TypeOK
    <3>3. QED
      BY <2>5, <3>1, <3>2 DEF WorkerWrites, WorkerWriteFails, threadVars, TypeOK
  <2>6. QED
    BY <1>3, <2>3, <2>4, <2>5 DEF Worker
<1>4. CASE Crash
  <2>1. /\ queue' \in Seq(Generation) /\ writing' \in Seq(Generation)
        /\ Len(writing') <= 1
    BY <1>4, EmptySeq DEF Crash
  <2>2. phase' \in [Thread -> Phases] /\ result' \in [Thread -> Results]
    BY <1>4 DEF Crash, Phases, Results
  <2>3. QED
    BY <1>4, <2>1, <2>2 DEF Crash, TypeOK
<1>5. CASE Restart
  <2>1. state' \in Generation
    BY <1>5 DEF Restart, Loaded, TypeOK, Generation
  <2>2. drawn' \in Nat
    BY <1>5 DEF Restart, TypeOK
  <2>3. QED
    BY <1>5, <2>1, <2>2 DEF Restart, threadVars, TypeOK
<1>6. CASE RestartFails
  BY <1>6 DEF RestartFails, threadVars, TypeOK
<1>7. CASE UNCHANGED vars
  BY <1>7 DEF vars, diskVars, threadVars, TypeOK
<1>8. QED
  BY <1>1, <1>2, <1>3, <1>4, <1>5, <1>6, <1>7 DEF Next

-----------------------------------------------------------------------------
(* The readings. *)
LEMMA StepTimeInv == ASSUME TypeOK, TimeInv, [Next]_vars PROVE TimeInv'
<1>1. CASE Tick
  BY <1>1, RotationAssumption DEF Tick, diskVars, threadVars, TypeOK, TimeInv, Generation
<1>2. ASSUME NEW t \in Thread, ThreadStep(t) PROVE TimeInv'
  <2>1. clock' = clock /\ clock \in Nat
    BY <1>2 DEF ThreadStep, Encode, CheckFreshness, AskGeneration, FastPath, SlowPath, TypeOK
  <2>2. \A u \in Thread : phase'[u] \in {"asking", "stale"} =>
            inner'[u] <= clock' /\ clock' <= inner'[u] + MaxLatency
    <3>1. CASE AskGeneration(t)
      BY <3>1, <2>1, RotationAssumption DEF AskGeneration, Goto, TypeOK, TimeInv
    <3>2. CASE ~AskGeneration(t)
      <4>1. inner' = inner /\ \A u \in Thread \ {t} : phase'[u] = phase[u]
        BY <1>2, <3>2 DEF ThreadStep, Encode, CheckFreshness, FastPath, SlowPath, Goto,
           Return, TypeOK
      <4>2. phase'[t] \in {"asking", "stale"} => phase[t] \in {"asking", "stale"}
        BY <1>2, <3>2 DEF ThreadStep, Encode, CheckFreshness, FastPath, SlowPath, Goto,
           Return, TypeOK
      <4>3. QED
        BY <4>1, <4>2, <2>1 DEF TimeInv
    <3>3. QED
      BY <3>1, <3>2
  <2>3. state'.at <= clock'
    <3>1. CASE SlowPath(t)
      <4>1. inner[t] <= clock
        BY <3>1 DEF SlowPath, TimeInv
      <4>2. QED
        BY <4>1, <3>1, <2>1 DEF SlowPath, RotatedAt, TimeInv
    <3>2. CASE ~SlowPath(t)
      BY <1>2, <3>2, <2>1 DEF ThreadStep, Encode, CheckFreshness, AskGeneration, FastPath,
         TimeInv
    <3>3. QED
      BY <3>1, <3>2
  <2>4. QED
    BY <2>2, <2>3 DEF TimeInv
<1>3. CASE Worker \/ RestartFails
  BY <1>3 DEF Worker, WorkerOpens, WorkerCannotOpen, WorkerWrites, WorkerWriteFails,
     RestartFails, threadVars, TimeInv
<1>4. CASE Crash
  BY <1>4 DEF Crash, TimeInv
<1>5. CASE Restart
  <2>1. state'.at <= clock
    BY <1>5 DEF Restart, Loaded, WithinCadence, TypeOK
  <2>2. QED
    BY <1>5, <2>1 DEF Restart, threadVars, TimeInv
<1>6. CASE UNCHANGED vars
  BY <1>6 DEF vars, threadVars, TimeInv
<1>7. QED
  BY <1>1, <1>2, <1>3, <1>4, <1>5, <1>6 DEF Next

(* What a call returns with. *)
LEMMA StepServed ==
    ASSUME TypeOK, ServedWithinCadence, [Next]_vars PROVE ServedWithinCadence'
<1>1. ASSUME NEW t \in Thread, ThreadStep(t) PROVE ServedWithinCadence'
  <2>1. \A u \in Thread \ {t} :
            /\ phase'[u] = phase[u] /\ result'[u] = result[u]
            /\ mark'[u] = mark[u] /\ inner'[u] = inner[u]
    BY <1>1 DEF ThreadStep, Encode, CheckFreshness, AskGeneration, FastPath, SlowPath, Goto,
       Return, TypeOK
  <2>2. phase'[t] = "idle" /\ result'[t] \in {"Current", "Rotated"} =>
            WithinCadence(mark'[t], inner'[t])
    <3>1. CASE Encode(t) \/ AskGeneration(t)
      BY <3>1 DEF Encode, AskGeneration, Goto, TypeOK
    <3>2. CASE CheckFreshness(t)
      BY <3>2 DEF CheckFreshness, Goto, Return, TypeOK
    <3>3. CASE FastPath(t)
      BY <3>3 DEF FastPath, Goto, Return, TypeOK
    <3>4. CASE SlowPath(t)
      <4> DEFINE next == [slug |-> drawn, at |-> inner[t]]
      <4>1. inner[t] \in Nat /\ WithinCadence(next, inner[t])
        BY RotationAssumption DEF TypeOK, WithinCadence
      <4>2. QED
        BY <3>4, <4>1 DEF SlowPath, RotatedAt, Return, TypeOK
    <3>5. QED
      BY <1>1, <3>1, <3>2, <3>3, <3>4 DEF ThreadStep
  <2>3. QED
    BY <2>1, <2>2 DEF ServedWithinCadence
<1>2. CASE Crash
  BY <1>2 DEF Crash, ServedWithinCadence
<1>3. CASE Tick \/ Worker \/ Restart \/ RestartFails \/ UNCHANGED vars
  <2>1. UNCHANGED threadVars
    BY <1>3 DEF Tick, Worker, WorkerOpens, WorkerCannotOpen, WorkerWrites,
       WorkerWriteFails, Restart, RestartFails, vars
  <2>2. QED
    BY <2>1 DEF threadVars, ServedWithinCadence
<1>4. QED
  BY <1>1, <1>2, <1>3 DEF Next

-----------------------------------------------------------------------------
(* The channel to the worker is a queue: sending puts a request last, and     *)
(* taking one leaves the last one last.                                       *)
LEMMA SendLast ==
    ASSUME NEW q \in Seq(Generation), NEW g \in Generation
    PROVE  /\ Append(q, g) # <<>> /\ Last(Append(q, g)) = g
           /\ \A i \in DOMAIN Append(q, g) :
                 Append(q, g)[i] = g \/ (i \in DOMAIN q /\ Append(q, g)[i] = q[i])
BY DEF Last

LEMMA TakeFirst ==
    ASSUME NEW q \in Seq(Generation), q # <<>>
    PROVE  /\ Tail(q) = <<>> => Head(q) = Last(q)
           /\ Tail(q) # <<>> => Last(Tail(q)) = Last(q)
           /\ 1 \in DOMAIN q /\ Head(q) = q[1]
           /\ \A i \in DOMAIN Tail(q) : i + 1 \in DOMAIN q /\ Tail(q)[i] = q[i + 1]
<1>1. Len(q) \in Nat /\ Len(q) >= 1 /\ q \in [1 .. Len(q) -> Generation]
  OBVIOUS
<1>2. Len(Tail(q)) = Len(q) - 1 /\ Tail(q) \in Seq(Generation)
  BY <1>1
<1>3. \A i \in 1 .. Len(q) - 1 : Tail(q)[i] = q[i + 1]
  OBVIOUS
<1>4. DOMAIN q = 1 .. Len(q) /\ DOMAIN Tail(q) = 1 .. Len(q) - 1 /\ Head(q) = q[1]
  BY <1>2
<1>5. Tail(q) = <<>> => Len(q) = 1
  <2>1. Tail(q) = <<>> => Len(Tail(q)) = 0
    <3>1. Len(<<>>) = 0
      OBVIOUS
    <3>2. QED
      BY <3>1, Zenon
  <2>2. QED
    BY <1>1, <1>2, <2>1
<1>6. Tail(q) # <<>> => Len(q) > 1
  BY <1>1, <1>2
<1>7. QED
  BY <1>1, <1>2, <1>3, <1>4, <1>5, <1>6 DEF Last

LEMMA OneElement == ASSUME NEW g PROVE Head(<<g>>) = g /\ <<g>> # <<>> /\ DOMAIN <<g>> = {1}
OBVIOUS

LEMMA StepDown == ASSUME TypeOK, DownInv, [Next]_vars PROVE DownInv'
<1>1. CASE Tick \/ RestartFails \/ UNCHANGED vars
  BY <1>1 DEF Tick, RestartFails, diskVars, threadVars, vars, DownInv
<1>2. CASE Worker
  BY <1>2 DEF Worker, WorkerOpens, WorkerCannotOpen, WorkerWrites, WorkerWriteFails, DownInv
<1>3. CASE Crash \/ Restart
  BY <1>3 DEF Crash, Restart, DownInv
<1>4. ASSUME NEW t \in Thread, ThreadStep(t) PROVE DownInv'
  <2>1. up' = up
    BY <1>4 DEF ThreadStep, Encode, CheckFreshness, AskGeneration, FastPath, SlowPath
  <2>2. up \/ phase[t] # "idle"
    BY <1>4 DEF ThreadStep, Encode, CheckFreshness, AskGeneration, FastPath, SlowPath
  <2>3. QED
    BY <2>1, <2>2 DEF DownInv
<1>5. QED
  BY <1>1, <1>2, <1>3, <1>4 DEF Next

(* What the worker is heading for. *)
LEMMA StepPersists ==
    ASSUME TypeOK, DownInv, PersistsInOrder, [Next]_vars PROVE PersistsInOrder'
<1>0. queue \in Seq(Generation)
  BY DEF TypeOK
<1>1. CASE UNCHANGED <<up, state, diskVars>>
  BY <1>1 DEF diskVars, PersistsInOrder
<1>2. ASSUME NEW t \in Thread, SlowPath(t) PROVE PersistsInOrder'
  <2> DEFINE next == [slug |-> drawn, at |-> inner[t]]
  <2>1. next \in Generation
    BY DEF TypeOK, Generation
  <2> HIDE DEF next
  <2>2. \/ state' = state /\ queue' = queue
        \/ state' = next /\ queue' = Append(queue, next)
    BY <1>2 DEF SlowPath, RotatedAt, Dispatch, next
  <2>3. UNCHANGED <<up, writing, file, writeFailed>>
    BY <1>2 DEF SlowPath
  <2>4. CASE state' = state /\ queue' = queue
    BY <2>3, <2>4, <1>1 DEF diskVars
  <2>5. CASE state' = next /\ queue' = Append(queue, next)
    <3>1. queue' # <<>> /\ Last(queue') = state'
      BY <2>1, <2>5, <1>0, SendLast
    <3>2. QED
      BY <3>1 DEF PersistsInOrder
  <2>6. QED
    BY <2>2, <2>4, <2>5
<1>3. CASE WorkerOpens
  <2>1. /\ up /\ queue # <<>> /\ writing' = <<Head(queue)>> /\ queue' = Tail(queue)
        /\ state' = state
    BY <1>3 DEF WorkerOpens
  <2>2. Last(queue) = state
    BY <2>1 DEF PersistsInOrder
  <2>3. /\ queue' # <<>> => Last(queue') = state'
        /\ queue' = <<>> => Head(queue) = state'
    BY <2>1, <2>2, <1>0, TakeFirst
  <2>4. Head(writing') = Head(queue) /\ writing' # <<>>
    BY <2>1, OneElement
  <2>5. QED
    BY <2>3, <2>4 DEF PersistsInOrder
<1>4. CASE WorkerCannotOpen
  <2>1. /\ up /\ queue # <<>> /\ queue' = Tail(queue) /\ writeFailed' = TRUE
        /\ writing = <<>> /\ writing' = writing /\ state' = state
    BY <1>4 DEF WorkerCannotOpen
  <2>2. queue' # <<>> => Last(queue') = state'
    BY <2>1, <1>0, TakeFirst DEF PersistsInOrder
  <2>3. QED
    BY <2>1, <2>2 DEF PersistsInOrder
<1>5. CASE WorkerWrites
  BY <1>5 DEF WorkerWrites, PersistsInOrder
<1>6. CASE WorkerWriteFails
  BY <1>6 DEF WorkerWriteFails, PersistsInOrder
<1>7. CASE Crash \/ RestartFails
  BY <1>7 DEF Crash, RestartFails, PersistsInOrder
<1>8. CASE Restart
  <2>1. queue' = <<>> /\ writing' = <<>> /\ file' = state'
    BY <1>8 DEF Restart, DownInv
  <2>2. QED
    BY <2>1 DEF PersistsInOrder
<1>9. QED
  BY <1>1, <1>2, <1>3, <1>4, <1>5, <1>6, <1>7, <1>8 DEF Next, ThreadStep, Worker, Tick,
     Encode, CheckFreshness, AskGeneration, FastPath, vars

-----------------------------------------------------------------------------
(* A step that changes the generation in force, with nothing overtaken, moves *)
(* it on by at least a cadence or is a restart that found no file to load.    *)
LEMMA MovesOn ==
    ASSUME TypeOK, TimeInv, DiskInv, [Next]_vars, ~late', state' # state
    PROVE  /\ state.at <= state'.at
           /\ \/ /\ state.at + Cadence <= state'.at
                 /\ \E t \in Thread : SlowPath(t)
              \/ Restart
<1> USE RotationAssumption
<1>1. state.at \in Nat /\ clock \in Nat /\ Cadence \in Nat
  BY DEF TypeOK, Generation
<1>2. Restart \/ \E t \in Thread : SlowPath(t)
  BY DEF Next, Tick, ThreadStep, Encode, CheckFreshness, AskGeneration, FastPath, Worker,
     WorkerOpens, WorkerCannotOpen, WorkerWrites, WorkerWriteFails, Crash, RestartFails, vars
<1>3. ASSUME NEW t \in Thread, SlowPath(t)
      PROVE  state.at <= state'.at /\ state.at + Cadence <= state'.at
  <2>1. /\ state' = [slug |-> drawn, at |-> inner[t]] /\ ~WithinCadence(state, inner[t])
        /\ late' = (late \/ inner[t] < state.at)
    BY <1>3 DEF SlowPath, RotatedAt
  <2>2. inner[t] \in Nat
    BY DEF TypeOK
  <2>3. state'.at = inner[t] /\ ~(inner[t] < state.at)
    BY <2>1
  <2>4. QED
    BY <2>1, <2>2, <2>3, <1>1 DEF WithinCadence
<1>4. CASE Restart
  <2>1. CASE Loaded(clock) # <<>>
    <3>1. file # Torn /\ WithinCadence(file, clock) /\ state' = file /\ late' = late
      BY <1>4, <2>1 DEF Restart, Loaded
    <3>2. file \in Generation /\ file.at \in Nat
      BY <3>1 DEF TypeOK, Generation
    <3>3. file.at + Cadence <= state.at
      BY <3>1 DEF DiskInv, Overtaken
    <3>4. state.at <= clock /\ clock - file.at < Cadence
      BY <3>1 DEF TimeInv, WithinCadence
    <3>5. QED
      BY <1>1, <3>2, <3>3, <3>4
  <2>2. CASE Loaded(clock) = <<>>
    BY <1>4, <2>2, <1>1 DEF Restart, TimeInv
  <2>3. QED
    BY <1>4, <2>1, <2>2
<1>5. QED
  BY <1>2, <1>3, <1>4

LEMMA StepDisk ==
    ASSUME TypeOK, TimeInv, DownInv, DiskInv, [Next]_vars PROVE DiskInv'
<1> USE RotationAssumption
<1>0. queue \in Seq(Generation) /\ writing \in Seq(Generation) /\ state \in Generation
  BY DEF TypeOK
<1>1. CASE UNCHANGED <<late, state, diskVars>>
  BY <1>1 DEF diskVars, DiskInv, Overtaken
<1>2. ASSUME NEW t \in Thread, SlowPath(t), ~late' PROVE DiskInv'
  <2> DEFINE next == [slug |-> drawn, at |-> inner[t]]
  <2>1. next \in Generation
    BY DEF TypeOK, Generation
  <2> HIDE DEF next
  <2>2. \/ state' = state /\ queue' = queue
        \/ state' = next /\ queue' = Append(queue, next)
    BY <1>2 DEF SlowPath, RotatedAt, Dispatch, next
  <2>3. UNCHANGED <<writing, file>> /\ ~late
    <3>1. late' = late \/ late' = (late \/ inner[t] < state.at)
      BY <1>2 DEF SlowPath
    <3>2. late \in BOOLEAN
      BY DEF TypeOK
    <3>3. QED
      BY <1>2, <3>1, <3>2 DEF SlowPath
  <2>4. ASSUME NEW g \in Generation, Overtaken(g) PROVE Overtaken(g)'
    <3>1. g.at \in Nat /\ state.at \in Nat /\ state'.at \in Nat /\ Cadence \in Nat
      BY <1>0, <2>1, <2>2 DEF Generation
    <3>2. CASE state' = state
      BY <2>4, <3>2 DEF Overtaken
    <3>3. CASE state' # state
      <4>1. state.at + Cadence <= state'.at
        <5>1. ~Restart
          BY <1>2, <3>3 DEF SlowPath, Restart, Goto, Return, TypeOK, DownInv, threadVars
        <5>2. QED
          BY <1>2, <3>3, <5>1, MovesOn
      <4>2. QED
        BY <2>4, <4>1, <3>1 DEF Overtaken
    <3>4. QED
      BY <3>2, <3>3
  <2>5. \A i \in DOMAIN queue' : Overtaken(queue[i])'
    <3>1. \A i \in DOMAIN queue : queue[i] \in Generation /\ Overtaken(queue[i])
      BY <1>0, <2>3 DEF DiskInv
    <3>2. CASE queue' = queue
      BY <3>1, <3>2, <2>4
    <3>3. CASE state' = next /\ queue' = Append(queue, next)
      <4>1. ASSUME NEW i \in DOMAIN queue'
            PROVE  queue'[i] = state' \/ (i \in DOMAIN queue /\ queue'[i] = queue[i])
        BY <4>1, <3>3, <1>0, <2>1, SendLast
      <4>2. QED
        BY <4>1, <3>1, <2>4 DEF Overtaken
    <3>4. QED
      BY <2>2, <3>2, <3>3
  <2>6. \A i \in DOMAIN writing' : Overtaken(writing[i])'
    <3>1. \A i \in DOMAIN writing : writing[i] \in Generation /\ Overtaken(writing[i])
      BY <1>0, <2>3 DEF DiskInv
    <3>2. QED
      BY <3>1, <2>3, <2>4
  <2>7. file' # Torn => Overtaken(file)'
    BY <2>3, <2>4 DEF DiskInv, TypeOK
  <2>8. QED
    BY <2>5, <2>6, <2>7 DEF DiskInv
<1>3. CASE Worker
  <2>1. late' = late /\ state' = state
    BY <1>3 DEF Worker, WorkerOpens, WorkerCannotOpen, WorkerWrites, WorkerWriteFails
  <2>2. \A g : Overtaken(g)' <=> Overtaken(g)
    BY <2>1 DEF Overtaken
  <2>3. ASSUME ~late PROVE \A i \in DOMAIN queue' : Overtaken(queue'[i])
    <3>1. queue' = queue \/ (queue # <<>> /\ queue' = Tail(queue))
      BY <1>3 DEF Worker, WorkerOpens, WorkerCannotOpen, WorkerWrites, WorkerWriteFails
    <3>2. QED
      BY <2>3, <3>1, <1>0, TakeFirst DEF DiskInv
  <2>4. ASSUME ~late PROVE \A i \in DOMAIN writing' : Overtaken(writing'[i])
    <3>1. CASE WorkerOpens
      <4>1. queue # <<>> /\ writing' = <<Head(queue)>>
        BY <3>1 DEF WorkerOpens
      <4>2. Overtaken(Head(queue))
        BY <4>1, <2>4, <1>0, TakeFirst DEF DiskInv
      <4>3. \A i \in DOMAIN writing' : writing'[i] = Head(queue)
        BY <4>1
      <4>4. QED
        BY <4>2, <4>3
    <3>2. CASE ~WorkerOpens
      <4>1. writing' = writing \/ writing' = <<>>
        BY <1>3, <3>2 DEF Worker, WorkerCannotOpen, WorkerWrites, WorkerWriteFails
      <4>2. QED
        BY <4>1, <2>4 DEF DiskInv
    <3>3. QED
      BY <3>1, <3>2
  <2>5. ASSUME ~late, file' # Torn PROVE Overtaken(file')
    <3>1. CASE WorkerWrites
      <4>1. writing # <<>> /\ file' = Head(writing)
        BY <3>1 DEF WorkerWrites
      <4>2. QED
        BY <4>1, <2>5, <1>0, TakeFirst DEF DiskInv
    <3>2. CASE ~WorkerWrites
      BY <1>3, <3>2, <2>5 DEF Worker, WorkerOpens, WorkerCannotOpen, WorkerWriteFails, DiskInv
    <3>3. QED
      BY <3>1, <3>2
  <2>6. QED
    BY <2>1, <2>2, <2>3, <2>4, <2>5 DEF DiskInv
<1>4. CASE Crash
  BY <1>4 DEF Crash, DiskInv, Overtaken
<1>5. CASE Restart
  <2>1. queue' = <<>> /\ writing' = <<>> /\ file' = state'
    BY <1>5 DEF Restart, DownInv
  <2>2. QED
    BY <2>1 DEF DiskInv, Overtaken
<1>6. CASE RestartFails
  BY <1>6 DEF RestartFails, DiskInv, Overtaken
<1>7. QED
  <2>1. late' => DiskInv'
    BY DEF DiskInv
  <2>2. QED
    BY <2>1, <1>1, <1>2, <1>3, <1>4, <1>5, <1>6 DEF Next, ThreadStep, Tick, Encode,
       CheckFreshness, AskGeneration, FastPath, vars, diskVars

-----------------------------------------------------------------------------
THEOREM InductiveInvariant == Spec => []IInv
<1>1. IInv /\ [Next]_vars => IInv'
  BY StepTypeOK, StepTimeInv, StepServed, StepDown, StepPersists, StepDisk DEF IInv
<1>2. QED
  BY <1>1, InitIInv, PTL DEF Spec

(* No call is given a generation past its cadence or from its future, however *)
(* many threads rotate at once, and over crashes and restarts.                *)
THEOREM ServedFresh == Spec => []ServedWithinCadence
<1>1. IInv => ServedWithinCadence
  BY DEF IInv
<1>2. QED
  BY <1>1, InductiveInvariant, PTL

(* A rotation by a thread with an old reading may move the generation back,   *)
(* but by no more than the latency of a call.                                 *)
THEOREM BoundedRewind == Spec => RewindBounded
<1>1. IInv /\ [Next]_vars => [up /\ up' => state.at <= state'.at + MaxLatency]_vars
  <2> SUFFICES ASSUME IInv, Next, up, up' PROVE state.at <= state'.at + MaxLatency
    OBVIOUS
  <2>1. state.at \in Nat /\ state'.at \in Nat /\ clock \in Nat
    <3>1. state \in Generation /\ state' \in Generation
      BY StepTypeOK DEF IInv, TypeOK
    <3>2. QED
      BY <3>1 DEF Generation, IInv, TypeOK
  <2>2. CASE state' = state
    BY <2>1, <2>2, RotationAssumption
  <2>3. ASSUME NEW t \in Thread, SlowPath(t), state' # state
        PROVE  state.at <= state'.at + MaxLatency
    <3>1. state'.at = inner[t] /\ phase[t] = "stale" /\ inner[t] \in Nat
      BY <2>3 DEF SlowPath, RotatedAt, IInv, TypeOK
    <3>2. clock <= inner[t] + MaxLatency /\ state.at <= clock
      BY <3>1 DEF IInv, TimeInv
    <3>3. QED
      BY <3>1, <3>2, <2>1, RotationAssumption
  <2>4. state' # state => \E t \in Thread : SlowPath(t)
    BY DEF Next, Tick, ThreadStep, Encode, CheckFreshness, AskGeneration, FastPath, Worker,
       WorkerOpens, WorkerCannotOpen, WorkerWrites, WorkerWriteFails, Crash, Restart,
       RestartFails
  <2>5. QED
    BY <2>2, <2>3, <2>4
<1>2. QED
  BY <1>1, InductiveInvariant, PTL DEF Spec, RewindBounded

(* Threads, worker and file stay in their types, and the worker never holds   *)
(* more than one request.                                                     *)
THEOREM TypeCorrect == Spec => []TypeOK
<1>1. IInv => TypeOK
  BY DEF IInv
<1>2. QED
  BY <1>1, InductiveInvariant, PTL

(* However rotations, failed writes and restarts interleave, what is being    *)
(* persisted ends at the generation in force, or the last write failed.       *)
THEOREM PersistsTheLast == Spec => []PersistsInOrder
<1>1. IInv => PersistsInOrder
  BY DEF IInv
<1>2. QED
  BY <1>1, InductiveInvariant, PTL

(* As long as no rotation was overtaken, the generation in force never goes   *)
(* back, over crashes and restarts too: a file that lags behind it holds a    *)
(* generation past its cadence, which a restart does not take up.             *)
THEOREM NeverBack == Spec => MarksNeverGoBack
<1>1. IInv /\ [Next]_vars => [~late' => state.at <= state'.at]_vars
  <2> SUFFICES ASSUME IInv, Next, ~late' PROVE state.at <= state'.at
    OBVIOUS
  <2>1. state.at \in Nat
    BY DEF IInv, TypeOK, Generation
  <2>2. QED
    BY <2>1, MovesOn DEF IInv
<1>2. QED
  BY <1>1, InductiveInvariant, PTL DEF Spec, MarksNeverGoBack

-----------------------------------------------------------------------------
(* PrivatePost: the inductive invariant, in parts. *)

(* The calls and the records are functions.                                   *)
Functional ==
    /\ call = [c \in Call |-> call[c]]
    /\ store = [p \in Place |-> store[p]]

(* By the rotations R up to t: a call at now may be stamped with g.           *)
Stamp(g, now, R, t) ==
    /\ now \in 0 .. t
    /\ g # None => ~\E later \in R : g < later /\ later + Freshness < now

(* The content holds what was posted, under a seed of the place it was posted *)
(* at and, if of any audience, of the one it was posted for.                  *)
Seals(content, w) ==
    /\ FromPayload(content.payload) = w.post
    /\ content.seed \in {<<w.place>>, <<w.place, w.list>>}

(* A record with encoded content is stamped with the codec that made it, its  *)
(* clear fields are the content's and the content was posted, by the posts W. *)
RecordOk(r, W) ==
    r.content # None =>
        /\ r.codec = r.content.codec /\ r.text = None
        /\ r.clear = ClearFields(FromPayload(r.content.payload))
        /\ \E w \in W : Seals(r.content, w)

(* What an answered call got was posted where it reads.                       *)
Posted(k, W) ==
    k.got # None =>
        \E w \in W :
            /\ w.place = k.read.place /\ w.post = k.got
            /\ w.list = k.read.list \/ k.read.hooks.policy = "DidNsidRkey"

(* A call, wherever it stands, by the rotations R up to t, an oracle synced   *)
(* at y, and the posts W.                                                     *)
CallOk(k, R, t, y, W) ==
    /\ k.phase = "asking" =>
          /\ k = [f \in DOMAIN k |-> k[f]] /\ {"phase", "generation"} \subseteq DOMAIN k
          /\ FromPayload(k.payload) = k.post
          /\ k.now \in 0 .. t /\ k.now <= y + Freshness
    /\ k.phase = "encoding" =>
          FromPayload(k.payload) = k.post /\ Stamp(k.generation, k.now, R, t)
    /\ k.phase = "encoded" =>
          /\ Seals(k.encoded.content, [place |-> k.place, list |-> k.list, post |-> k.post])
          /\ k.encoded.codec = k.encoded.content.codec
          /\ Stamp(k.encoded.generation, k.now, R, t)
    /\ k.phase = "decoding" =>
          RecordOk(k.record, W) /\ k.record.content # None /\ k.record.codec = k.hooks.id
    /\ k.phase = "answered" => Posted(k, W)

CallsOk == \A c \in Call : CallOk(call[c], rotations, hostClock, replica.synced, posted)

(* The rotations lie in the past; the replica holds one that was in force     *)
(* when it was last synced.                                                   *)
ReplicaInv ==
    /\ hostClock \in Nat
    /\ rotations \subseteq 0 .. hostClock /\ rotations # {}
    /\ replica.synced \in 0 .. hostClock
    /\ replica.generation # None =>
          /\ replica.generation \in 0 .. replica.synced
          /\ ~\E later \in rotations : replica.generation < later /\ later < replica.synced

StoreInv == \A p \in Place : RecordOk(store[p], posted)

(* Every mask has a slug that was drawn.                                      *)
MaskInv == slugs \in Nat /\ \A m \in masks : m[2] \in Nat /\ m[2] < slugs

PostInv ==
    /\ Functional /\ ReplicaInv /\ StoreInv /\ MaskInv /\ CallsOk

-----------------------------------------------------------------------------
(* PrivatePost: numbers *)

(* A set of numbers that is not empty has a least one.                        *)
LEMMA Least ==
    ASSUME NEW T, T \subseteq Nat, T # {}
    PROVE  \E x \in T : \A y \in T : x <= y
<1>1. PICK x \in T : \A y \in T : ~(<<y, x>> \in {ss \in Nat \X Nat : ss[1] < ss[2]})
  <2>1. IsWellFoundedOn({ss \in Nat \X Nat : ss[1] < ss[2]}, Nat)
    BY NatLessThanWellFounded DEF OpToRel
  <2>2. QED
    BY <2>1, WFMin
<1>2. ASSUME NEW y \in T PROVE x <= y
  <2>1. ~(<<y, x>> \in {ss \in Nat \X Nat : ss[1] < ss[2]})
    BY <1>1
  <2>2. <<y, x>> \in Nat \X Nat
    OBVIOUS
  <2>3. ~(<<y, x>>[1] < <<y, x>>[2])
    BY <2>1, <2>2, Zenon
  <2>4. QED
    BY <2>3
<1>3. QED
  BY <1>2

(* And if it is bounded, Max is its greatest.                                 *)
LEMMA MaxOf ==
    ASSUME NEW n \in Nat, NEW T, T \subseteq 0 .. n, T # {}
    PROVE  Max(T) \in T /\ \A y \in T : y <= Max(T)
<1> DEFINE U == {n - y : y \in T}
<1>1. U \subseteq Nat /\ U # {}
  <2>1. \A y \in T : n - y \in Nat
    OBVIOUS
  <2>2. U \subseteq Nat
    BY <2>1
  <2>3. U # {}
    OBVIOUS
  <2>4. QED
    BY <2>2, <2>3
<1>2. PICK u \in U : \A w \in U : u <= w
  <2> HIDE DEF U
  <2>1. QED
    BY <1>1, Least
<1>3. PICK x \in T : u = n - x
  OBVIOUS
<1>4. \A y \in T : y <= x
  <2> SUFFICES ASSUME NEW y \in T PROVE y <= x
    OBVIOUS
  <2>1. n - y \in U
    OBVIOUS
  <2>2. u <= n - y
    BY <1>2, <2>1
  <2>3. QED
    BY <1>3, <2>2
<1>5. QED
  BY <1>4 DEF Max

-----------------------------------------------------------------------------
(* PrivatePost: payloads *)

(* Whatever form a post takes as a payload, the post comes back.              *)
LEMMA PayloadCarries ==
    ASSUME NEW post \in Post, NEW form \in Forms(post)
    PROVE  FromPayload(Payload(post, form)) = post
<1>1. CASE form = "text"
  <2>1. post.mentions = {} /\ post.embed = "none"
    BY <1>1 DEF Forms
  <2>2. FromPayload(Payload(post, form)) = [text |-> post.text, mentions |-> {}, embed |-> "none"]
    BY <1>1 DEF Payload, FromPayload
  <2>3. post = [text |-> post.text, mentions |-> post.mentions, embed |-> post.embed]
    BY ContentAssumption
  <2>4. QED
    BY <2>1, <2>2, <2>3
<1>2. CASE form # "text"
  BY <1>2 DEF Payload, FromPayload
<1>3. QED
  BY <1>1, <1>2

(* The seed of one place, or of one place and audience, is that of no other.  *)
LEMMA SeedsDiffer ==
    ASSUME NEW p, NEW q, NEW l, NEW m
    PROVE  /\ <<p>> = <<q>> => p = q
           /\ <<p, l>> = <<q, m>> => p = q /\ l = m
           /\ <<p>> # <<q, m>>
<1>1. <<p>> = <<q>> => p = q
  BY ONLY Zenon
<1>2. <<p, l>> = <<q, m>> => p = q /\ l = m
  BY ONLY Zenon
<1>3. <<p>> # <<q, m>>
  <2>1. Len(<<p>>) = 1 /\ Len(<<q, m>>) = 2
    OBVIOUS
  <2>2. QED
    BY <2>1
<1>4. QED
  BY <1>1, <1>2, <1>3

-----------------------------------------------------------------------------
(* PrivatePost: what a step of one call does to the others. *)

(* A stamp stays good: a later rotation comes after the call.                 *)
LEMMA StampKept ==
    ASSUME NEW t \in Nat, NEW R, R \subseteq 0 .. t, NEW g, NEW now, Stamp(g, now, R, t),
           NEW S, S \subseteq R \cup {t}, NEW u \in Nat, t <= u
    PROVE  Stamp(g, now, S, u)
<1>1. now \in 0 .. u
  BY DEF Stamp
<1>2. Freshness \in Nat
  BY PrivatePostAssumption
<1>3. ~(t + Freshness < now)
  BY <1>2 DEF Stamp
<1>4. ASSUME g # None, NEW later \in S, g < later, later + Freshness < now
      PROVE  FALSE
  BY <1>3, <1>4 DEF Stamp
<1>5. QED
  BY <1>1, <1>4 DEF Stamp

(* What a record or an answer owes to the posts it owes to more of them.      *)
LEMMA PostedKept ==
    ASSUME NEW V, NEW W, V \subseteq W
    PROVE  /\ \A r : RecordOk(r, V) => RecordOk(r, W)
           /\ \A k : Posted(k, V) => Posted(k, W)
BY DEF RecordOk, Posted

(* So with whatever a call holds, as time, rotations and posts go on.         *)
LEMMA CallOkKept ==
    ASSUME NEW t \in Nat, NEW R, R \subseteq 0 .. t, NEW y \in 0 .. t, NEW V,
           NEW k, CallOk(k, R, t, y, V),
           NEW S, S \subseteq R \cup {t}, NEW u \in Nat, t <= u,
           NEW z \in Nat, y <= z, NEW W, V \subseteq W
    PROVE  CallOk(k, S, u, z, W)
<1>1. Stamp(k.generation, k.now, R, t) => Stamp(k.generation, k.now, S, u)
  BY StampKept
<1>2. Stamp(k.encoded.generation, k.now, R, t) => Stamp(k.encoded.generation, k.now, S, u)
  BY StampKept
<1>3. /\ RecordOk(k.record, V) => RecordOk(k.record, W)
      /\ Posted(k, V) => Posted(k, W)
  BY PostedKept
<1>4. k.now \in 0 .. t /\ k.now <= y + Freshness => k.now \in 0 .. u /\ k.now <= z + Freshness
  BY PrivatePostAssumption
<1>5. QED
  BY <1>1, <1>2, <1>3, <1>4 DEF CallOk

(* A step that moves one call only, to somewhere it may be.                   *)
LEMMA OneCall ==
    ASSUME PostInv, NEW c \in Call, NEW k, call' = [call EXCEPT ![c] = k],
           CallOk(k, rotations, hostClock, replica.synced, posted),
           UNCHANGED <<hostClock, rotations, replica>>, posted \subseteq posted'
    PROVE  /\ call' = [d \in Call |-> call'[d]] /\ CallsOk'
           /\ call'[c] = k /\ \A d \in Call \ {c} : call'[d] = call[d]
<1>1. call = [d \in Call |-> call[d]]
  BY DEF PostInv, Functional
<1>2. call' = [d \in Call |-> IF d = c THEN k ELSE call[d]]
  BY <1>1, Zenon
<1>3. call'[c] = k /\ \A d \in Call \ {c} : call'[d] = call[d]
  BY <1>2
<1>4. call' = [d \in Call |-> call'[d]]
  BY <1>2
<1>5. ASSUME NEW d \in Call
      PROVE  CallOk(call'[d], rotations', hostClock', replica'.synced, posted')
  <2>1. rotations' = rotations /\ hostClock' = hostClock /\ replica'.synced = replica.synced
    OBVIOUS
  <2>2. CallOk(call'[d], rotations, hostClock, replica.synced, posted)
    BY <1>3 DEF PostInv, CallsOk
  <2>3. /\ hostClock \in Nat /\ rotations \subseteq 0 .. hostClock
        /\ replica.synced \in 0 .. hostClock
    BY DEF PostInv, ReplicaInv
  <2>4. CallOk(call'[d], rotations, hostClock, replica.synced, posted')
    <3>1. /\ rotations \subseteq rotations \cup {hostClock} /\ hostClock <= hostClock
          /\ replica.synced \in Nat /\ replica.synced <= replica.synced
      BY <2>3
    <3>2. QED
      BY <2>2, <2>3, <3>1, CallOkKept, Zenon
  <2>5. QED
    BY <2>1, <2>4
<1>6. CallsOk'
  BY <1>5 DEF CallsOk
<1>7. QED
  BY <1>3, <1>4, <1>6

(* An idle call holds nothing.                                                *)
LEMMA IdleOk ==
    \A R, t, y, W : CallOk(Idle, R, t, y, W)
BY DEF CallOk, Idle

(* A step that leaves the host, the oracle, the records and the masks alone.  *)
LEMMA CallStep ==
    ASSUME PostInv, NEW c \in Call, NEW k, call' = [call EXCEPT ![c] = k],
           CallOk(k, rotations, hostClock, replica.synced, posted),
           UNCHANGED <<hostClock, oracleVars, hostVars, store, posted, slugs, masks>>
    PROVE  PostInv'
<1>1. call' = [d \in Call |-> call'[d]] /\ CallsOk'
  BY OneCall DEF oracleVars
<1>2. QED
  BY <1>1 DEF PostInv, Functional, ReplicaInv, StoreInv, MaskInv, oracleVars, hostVars

-----------------------------------------------------------------------------
(* PrivatePost: the calls. *)

(* encode_record_content: a call goes on to ask for the generation only of an *)
(* oracle that synced within the freshness bound.                             *)
LEMMA StepWrite ==
    ASSUME PostInv, NEW c \in Call, NEW place \in Place, NEW post \in Post,
           NEW form \in Forms(post), NEW now \in {hostClock, hostClock - 1} \cap Nat,
           Write(c, place, post, form, now)
    PROVE  PostInv'
<1> DEFINE k == [phase |-> IF hooks.oracle THEN "asking" ELSE "encoding",
                 place |-> place, list |-> audience[place], post |-> post,
                 payload |-> Payload(post, form), hooks |-> hooks, now |-> now,
                 generation |-> None]
<1>0. UNCHANGED <<hostClock, oracleVars, hostVars, store, posted, slugs, masks>>
  BY DEF Write
<1>1. CASE hooks.oracle /\ OracleStale(now)
  <2>1. call' = [call EXCEPT ![c] = Idle]
    BY <1>1 DEF Write, FailEncode, Finish
  <2>2. QED
    BY <1>0, <2>1, CallStep, IdleOk
<1>2. CASE ~(hooks.oracle /\ OracleStale(now))
  <2>1. call' = [call EXCEPT ![c] = k]
    BY <1>2 DEF Write
  <2>2. now \in 0 .. hostClock /\ replica.synced \in 0 .. hostClock /\ hostClock \in Nat
    BY DEF PostInv, ReplicaInv
  <2>3. hooks.oracle => now <= replica.synced + Freshness
    BY <1>2, <2>2, PrivatePostAssumption DEF OracleStale
  <2>4. FromPayload(Payload(post, form)) = post
    BY PayloadCarries
  <2>5. /\ k.phase = IF hooks.oracle THEN "asking" ELSE "encoding"
        /\ k.payload = Payload(post, form) /\ k.post = post
        /\ k.generation = None /\ k.now = now
        /\ k = [f \in DOMAIN k |-> k[f]] /\ {"phase", "generation"} \subseteq DOMAIN k
    OBVIOUS
  <2> HIDE DEF k
  <2>6. Stamp(k.generation, k.now, rotations, hostClock)
    BY <2>2, <2>5 DEF Stamp
  <2>7. CallOk(k, rotations, hostClock, replica.synced, posted)
    BY <2>2, <2>3, <2>4, <2>5, <2>6 DEF CallOk
  <2>8. QED
    BY <1>0, <2>1, <2>7, CallStep
<1>3. QED
  BY <1>1, <1>2

(* The generation is the replica's by now, which has synced since or not.     *)
LEMMA StepResolveGeneration ==
    ASSUME PostInv, NEW c \in Call, ResolveGeneration(c)
    PROVE  PostInv'
<1> DEFINE e == call[c]
           k == [e EXCEPT !.phase = "encoding", !.generation = replica.generation]
<1>1. /\ e.phase = "asking" /\ call' = [call EXCEPT ![c] = k]
      /\ UNCHANGED <<hostClock, oracleVars, hostVars, store, posted, slugs, masks>>
  BY DEF ResolveGeneration
<1>2. CallOk(e, rotations, hostClock, replica.synced, posted)
  BY DEF PostInv, CallsOk
<1> HIDE DEF e
<1>3. /\ FromPayload(e.payload) = e.post /\ e.now \in 0 .. hostClock
      /\ e.now <= replica.synced + Freshness
      /\ e = [f \in DOMAIN e |-> e[f]] /\ {"phase", "generation"} \subseteq DOMAIN e
  BY <1>1, <1>2 DEF CallOk
<1>4. /\ k.phase = "encoding" /\ k.generation = replica.generation
      /\ k.payload = e.payload /\ k.post = e.post /\ k.now = e.now
  BY <1>3
<1> HIDE DEF k
<1>5. Stamp(replica.generation, e.now, rotations, hostClock)
  <2> SUFFICES ASSUME replica.generation # None, NEW later \in rotations,
                      replica.generation < later, later + Freshness < e.now
               PROVE  FALSE
    BY <1>3 DEF Stamp
  <2>1. /\ hostClock \in Nat /\ replica.synced \in 0 .. hostClock /\ later \in 0 .. hostClock
        /\ ~(later < replica.synced)
    BY DEF PostInv, ReplicaInv
  <2>2. Freshness \in Nat
    BY PrivatePostAssumption
  <2>3. QED
    BY <1>3, <2>1, <2>2
<1>6. CallOk(k, rotations, hostClock, replica.synced, posted)
  BY <1>3, <1>4, <1>5 DEF CallOk
<1>7. QED
  BY <1>1, <1>6, CallStep

(* The codec masks the payload with a slug that no artifact had.              *)
LEMMA StepCodecEncodes ==
    ASSUME PostInv, NEW c \in Call, CodecEncodes(c)
    PROVE  /\ PostInv'
           /\ call[c].hooks.rotation => Mask(call'[c].encoded.content) \notin masks
<1> DEFINE e == call[c]
           seed == Seed(e.hooks, e.place, e.list)
           artifact == [codec |-> e.hooks.id, seed |-> seed, slug |-> slugs, payload |-> e.payload]
           encoded == [codec |-> e.hooks.id, content |-> artifact, generation |-> e.generation]
           k == [phase |-> "encoded", place |-> e.place, list |-> e.list, post |-> e.post,
                 now |-> e.now, encoded |-> encoded]
<1>1. /\ e.phase = "encoding" /\ call' = [call EXCEPT ![c] = k]
      /\ slugs' = slugs + 1
      /\ masks' = IF e.hooks.rotation THEN masks \cup {Mask(artifact)} ELSE masks
      /\ UNCHANGED <<hostClock, oracleVars, hostVars, store, posted>>
  BY DEF CodecEncodes, SlugFor, StampedCodec
<1>2. /\ k.phase = "encoded" /\ k.post = e.post /\ k.now = e.now
      /\ k.place = e.place /\ k.list = e.list
      /\ k.encoded.content = artifact /\ k.encoded.generation = e.generation
      /\ k.encoded.codec = k.encoded.content.codec
      /\ k.encoded.content.payload = e.payload /\ k.encoded.content.seed = seed
      /\ Mask(artifact) = <<seed, slugs>>
  BY DEF Mask
<1>3. CallOk(e, rotations, hostClock, replica.synced, posted)
  BY DEF PostInv, CallsOk
<1>4. seed \in {<<e.place>>, <<e.place, e.list>>}
  BY DEF Seed
<1> HIDE DEF k, artifact, e, seed
<1>5. CallOk(k, rotations, hostClock, replica.synced, posted)
  <2>1. FromPayload(e.payload) = e.post /\ Stamp(e.generation, e.now, rotations, hostClock)
    BY <1>1, <1>3 DEF CallOk
  <2>2. Seals(k.encoded.content, [place |-> k.place, list |-> k.list, post |-> k.post])
    BY <1>2, <1>4, <2>1 DEF Seals
  <2>3. QED
    BY <1>2, <2>1, <2>2 DEF CallOk
<1>10. /\ call' = [d \in Call |-> call'[d]] /\ CallsOk'
       /\ call'[c] = k
  BY <1>1, <1>5, OneCall DEF oracleVars
<1>6. MaskInv'
  <2>1. slugs' \in Nat /\ slugs' = slugs + 1 /\ slugs \in Nat
    BY <1>1 DEF PostInv, MaskInv
  <2>2. ASSUME NEW m \in masks' PROVE m[2] \in Nat /\ m[2] < slugs'
    <3>1. CASE m \in masks
      BY <2>1, <3>1 DEF PostInv, MaskInv
    <3>2. CASE m = <<seed, slugs>>
      BY <2>1, <3>2
    <3>3. QED
      BY <1>1, <1>2, <2>2, <3>1, <3>2
  <2>3. QED
    BY <2>1, <2>2 DEF MaskInv
<1>7. PostInv'
  BY <1>1, <1>10, <1>6 DEF PostInv, Functional, ReplicaInv, StoreInv, oracleVars, hostVars
<1>8. <<seed, slugs>> \notin masks
  <2> SUFFICES ASSUME <<seed, slugs>> \in masks PROVE FALSE
    OBVIOUS
  <2>1. slugs \in Nat /\ <<seed, slugs>>[2] < slugs
    BY DEF PostInv, MaskInv
  <2>2. QED
    BY <2>1
<1>9. QED
  BY <1>2, <1>7, <1>8, <1>10

(* The clear fields go into the record with the content they belong to, and   *)
(* the content is posted as it goes.                                          *)
LEMMA StepStoreRecord ==
    ASSUME PostInv, NEW c \in Call, StoreRecord(c)
    PROVE  PostInv'
<1> DEFINE e == call[c]
           base == store[e.place]
           w == [place |-> e.place, list |-> e.list, post |-> e.post]
           Drawn(text) ==
               [text |-> text, content |-> e.encoded.content, codec |-> e.encoded.codec,
                generation |-> e.encoded.generation, clear |-> ClearFields(e.post)]
<1>1. /\ e.phase = "encoded" /\ call' = [call EXCEPT ![c] = Idle]
      /\ UNCHANGED <<hostClock, oracleVars, hostVars, slugs, masks>>
  BY DEF StoreRecord, Finish
<1>2. PICK text \in {None, base.text} :
          IF ValidRecord(Drawn(text))
          THEN store' = [store EXCEPT ![e.place] = Drawn(text)] /\ posted' = posted \cup {w}
          ELSE UNCHANGED <<store, posted>>
  BY DEF StoreRecord, ApplyTo
<1> DEFINE r == Drawn(text)
<1>3. CASE UNCHANGED <<store, posted>>
  BY <1>1, <1>3, CallStep, IdleOk DEF oracleVars, hostVars
<1>4. CASE /\ store' = [store EXCEPT ![e.place] = r] /\ ValidRecord(r)
           /\ posted' = posted \cup {w}
  <2>1. /\ r.text = text /\ r.content = e.encoded.content /\ r.codec = e.encoded.codec
        /\ r.clear = ClearFields(e.post)
    BY Zenon
  <2>2. r.content # None => r.text = None
    <3> HIDE DEF r
    <3>1. QED
      BY <1>4 DEF ValidRecord
  <2>3. CallOk(e, rotations, hostClock, replica.synced, posted)
    BY DEF PostInv, CallsOk
  <2>4. /\ Seals(e.encoded.content, w)
        /\ e.encoded.codec = e.encoded.content.codec
    <3> HIDE DEF e
    <3>1. QED
      BY <1>1, <2>3 DEF CallOk
  <2>5. FromPayload(e.encoded.content.payload) = e.post
    BY <2>4 DEF Seals
  <2>6. store = [p \in Place |-> store[p]]
    BY DEF PostInv, Functional
  <2> HIDE DEF r, e, w
  <2>7. store' = [p \in Place |-> IF p = e.place THEN r ELSE store[p]]
    BY <1>4, <2>6, Zenon
  <2>8. store' = [p \in Place |-> store'[p]]
    BY <2>7
  <2>9. RecordOk(r, posted')
    <3>1. w \in posted'
      BY <1>4
    <3>2. Seals(r.content, w)
      BY <2>1, <2>4
    <3>3. r.codec = r.content.codec /\ r.clear = ClearFields(FromPayload(r.content.payload))
      BY <2>1, <2>4, <2>5
    <3>4. QED
      BY <2>2, <3>1, <3>2, <3>3 DEF RecordOk
  <2>10. StoreInv'
    <3> SUFFICES ASSUME NEW p \in Place PROVE RecordOk(store'[p], posted')
      BY DEF StoreInv
    <3>1. RecordOk(store[p], posted')
      BY <1>4, PostedKept DEF PostInv, StoreInv
    <3>2. store'[p] = r \/ store'[p] = store[p]
      BY <2>7
    <3>3. QED
      BY <2>9, <3>1, <3>2
  <2>11. call' = [d \in Call |-> call'[d]] /\ CallsOk'
    BY <1>1, <1>4, IdleOk, OneCall DEF oracleVars
  <2>12. QED
    BY <1>1, <2>8, <2>10, <2>11 DEF PostInv, Functional, ReplicaInv, MaskInv, oracleVars, hostVars
<1>5. QED
  BY <1>2, <1>3, <1>4

(* decode_record_content starts from what is stored, with the codec that its  *)
(* stamp names.                                                               *)
LEMMA StepRead ==
    ASSUME PostInv, NEW c \in Call, NEW place \in Place, Read(c, place)
    PROVE  PostInv'
<1> DEFINE r == store[place]
           k == [phase |-> "decoding", record |-> r, hooks |-> hooks,
                 place |-> place, list |-> audience[place]]
<1>1. /\ UNCHANGED <<hostClock, oracleVars, hostVars, store, posted, slugs, masks>>
      /\ r.content # None
      /\ \/ call' = [call EXCEPT ![c] = Idle]
         \/ call' = [call EXCEPT ![c] = k] /\ r.codec = hooks.id
  BY DEF Read, Finish, FailDecode
<1>2. RecordOk(r, posted)
  BY DEF PostInv, StoreInv
<1>3. k.phase = "decoding" /\ k.record = r /\ k.hooks = hooks
  BY Zenon
<1> HIDE DEF k, r
<1>4. r.codec = hooks.id => CallOk(k, rotations, hostClock, replica.synced, posted)
  BY <1>1, <1>2, <1>3 DEF CallOk
<1>5. QED
  BY <1>1, <1>4, CallStep, IdleOk

(* What a codec makes of its own artifact was posted under the seed it was    *)
(* given.                                                                     *)
LEMMA StepCodecDecodes ==
    ASSUME PostInv, NEW c \in Call, CodecDecodes(c)
    PROVE  PostInv'
<1> DEFINE d == call[c]
           content == d.record.content
           seed == Seed(d.hooks, d.place, d.list)
           found == Decode(d.hooks, content, seed)
           got == IF found = None THEN None ELSE FromPayload(found)
           k == [phase |-> "answered", read |-> d, got |-> got]
<1>1. /\ UNCHANGED <<hostClock, oracleVars, hostVars, store, posted, slugs, masks>>
      /\ d.phase = "decoding" /\ call' = [call EXCEPT ![c] = k]
  BY DEF CodecDecodes
<1>2. RecordOk(d.record, posted) /\ content # None /\ d.record.codec = d.hooks.id
  <2>1. CallOk(d, rotations, hostClock, replica.synced, posted)
    BY DEF PostInv, CallsOk
  <2> HIDE DEF d
  <2>2. QED
    BY <1>1, <2>1 DEF CallOk
<1>3. PICK w \in posted : Seals(content, w)
  BY <1>2 DEF RecordOk
<1>4. content.codec = d.hooks.id
  BY <1>2 DEF RecordOk
<1>5. k.phase = "answered" /\ k.read = d /\ k.got = got
  BY Zenon
<1>6. found # None => content.seed = seed /\ found = content.payload
  BY <1>4 DEF Decode, Unmask
<1>7. seed = IF d.hooks.policy = "DidNsidRkey" THEN <<d.place>> ELSE <<d.place, d.list>>
  BY DEF Seed
<1>8. content.seed = <<w.place>> \/ content.seed = <<w.place, w.list>>
  BY <1>3 DEF Seals
<1>9. FromPayload(content.payload) = w.post
  BY <1>3 DEF Seals
<1> HIDE DEF k, d, content, seed, found
<1>10. Posted(k, posted)
  <2> SUFFICES ASSUME got # None
               PROVE  /\ w.place = d.place /\ w.post = got
                      /\ w.list = d.list \/ d.hooks.policy = "DidNsidRkey"
    BY <1>5 DEF Posted
  <2>1. found # None /\ got = w.post
    BY <1>6, <1>9
  <2>2. \/ content.seed = <<d.place>> /\ d.hooks.policy = "DidNsidRkey"
        \/ content.seed = <<d.place, d.list>>
    BY <1>6, <1>7, <2>1
  <2>3. w.place = d.place /\ (w.list = d.list \/ d.hooks.policy = "DidNsidRkey")
    BY <1>8, <2>2, SeedsDiffer
  <2>4. QED
    BY <2>1, <2>3
<1>11. CallOk(k, rotations, hostClock, replica.synced, posted)
  BY <1>5, <1>10 DEF CallOk
<1>12. QED
  BY <1>1, <1>11, CallStep

(* A call that is given up, fails or has answered.                            *)
LEMMA StepEnds ==
    ASSUME PostInv, NEW c \in Call,
           CodecRefuses(c) \/ CodecCannotDecode(c) \/ Answered(c) \/ Abandon(c)
    PROVE  PostInv'
<1>1. /\ UNCHANGED <<hostClock, oracleVars, hostVars, store, posted, slugs, masks>>
      /\ call' = [call EXCEPT ![c] = Idle]
  BY DEF CodecRefuses, CodecCannotDecode, Answered, Abandon, FailEncode, FailDecode, Finish
<1>2. QED
  BY <1>1, CallStep, IdleOk

-----------------------------------------------------------------------------
(* PrivatePost: the host, its audiences and the rotation of the deployment. *)

(* Other hooks, another audience.                                             *)
LEMMA StepHost ==
    ASSUME PostInv,
           \/ \E h \in Hooks : Install(h)
           \/ \E p \in Place, list \in Audience : MoveAudience(p, list)
    PROVE  PostInv'
<1>1. /\ UNCHANGED <<hostClock, oracleVars, store, posted, call, slugs, masks>>
  BY DEF Install, MoveAudience
<1>2. QED
  BY <1>1 DEF PostInv, Functional, ReplicaInv, StoreInv, MaskInv, CallsOk, oracleVars

(* A copied record agrees with itself as the original does.                   *)
LEMMA StepCopy ==
    ASSUME PostInv, NEW from \in Place, NEW to \in Place, CopyRecord(from, to)
    PROVE  PostInv'
<1>1. /\ UNCHANGED <<hostClock, oracleVars, posted, call, slugs, masks>>
      /\ store' = [store EXCEPT ![to] = store[from]]
  BY DEF CopyRecord
<1>2. store = [p \in Place |-> store[p]]
  BY DEF PostInv, Functional
<1>3. store' = [p \in Place |-> IF p = to THEN store[from] ELSE store[p]]
  BY <1>1, <1>2, Zenon
<1>4. store' = [p \in Place |-> store'[p]]
  BY <1>3
<1>5. \A p \in Place : \E q \in Place : store'[p] = store[q]
  BY <1>3
<1>6. StoreInv'
  BY <1>1, <1>5 DEF PostInv, StoreInv
<1>7. QED
  BY <1>1, <1>4, <1>6 DEF PostInv, Functional, ReplicaInv, MaskInv, CallsOk, oracleVars

(* Time, the rotations and the replica.                                       *)
LEMMA StepTime ==
    ASSUME PostInv, HostTick \/ Rotate \/ Sync
    PROVE  PostInv'
<1>1. /\ UNCHANGED <<hooks, audience, moves, store, posted, call, slugs, masks>>
      /\ hostClock \in Nat /\ hostClock' \in Nat /\ hostClock <= hostClock'
      /\ rotations' \subseteq rotations \cup {hostClock}
  BY DEF HostTick, Rotate, Sync, hostVars, oracleVars, PostInv, ReplicaInv
<1>2. ReplicaInv'
  <2>1. CASE HostTick
    BY <2>1 DEF HostTick, oracleVars, PostInv, ReplicaInv
  <2>2. CASE Rotate
    BY <2>2 DEF Rotate, PostInv, ReplicaInv
  <2>3. CASE Sync
    <3>1. /\ hostClock' = hostClock /\ rotations' = rotations
          /\ hostClock \in Nat /\ rotations \subseteq 0 .. hostClock /\ rotations # {}
          /\ replica.synced \in 0 .. hostClock
      BY <2>3 DEF Sync, PostInv, ReplicaInv
    <3>2. CASE replica' = [generation |-> Max(rotations), synced |-> hostClock]
      <4>1. Max(rotations) \in rotations /\ \A y \in rotations : y <= Max(rotations)
        BY <3>1, MaxOf
      <4>2. replica'.generation = Max(rotations) /\ replica'.synced = hostClock
        BY <3>2
      <4> PICK n : n = Max(rotations)
        OBVIOUS
      <4>3. n \in 0 .. hostClock /\ \A y \in rotations : y <= n /\ y \in Nat
        <5>1. n \in rotations /\ \A y \in rotations : y <= n
          BY <4>1
        <5>2. QED
          BY <3>1, <5>1
      <4>4. replica'.generation = n
        BY <4>2
      <4>5. QED
        BY <3>1, <4>2, <4>3, <4>4 DEF ReplicaInv
    <3>3. CASE replica' = [replica EXCEPT !.generation = None]
      BY <3>1, <3>3 DEF ReplicaInv
    <3>4. QED
      BY <2>3, <3>2, <3>3 DEF Sync
  <2>4. QED
    BY <2>1, <2>2, <2>3
<1>3. replica.synced \in 0 .. hostClock /\ rotations \subseteq 0 .. hostClock
      /\ replica'.synced \in Nat /\ replica.synced <= replica'.synced
  <2>1. /\ replica.synced \in 0 .. hostClock /\ rotations \subseteq 0 .. hostClock
        /\ hostClock \in Nat
    BY DEF PostInv, ReplicaInv
  <2>2. replica' = replica \/ replica'.synced = hostClock \/ replica'.synced = replica.synced
    <3>1. CASE HostTick \/ Rotate
      BY <3>1 DEF HostTick, Rotate, oracleVars
    <3>2. CASE Sync
      <4>1. CASE replica' = [generation |-> Max(rotations), synced |-> hostClock]
        <5> PICK n : n = Max(rotations)
          OBVIOUS
        <5>1. replica' = [generation |-> n, synced |-> hostClock]
          BY <4>1
        <5>2. QED
          BY <5>1
      <4>2. CASE replica' = [replica EXCEPT !.generation = None]
        BY <4>2
      <4>3. QED
        BY <3>2, <4>1, <4>2 DEF Sync
    <3>3. QED
      BY <3>1, <3>2
  <2>3. QED
    BY <2>1, <2>2
<1>4. CallsOk'
  <2> SUFFICES ASSUME NEW c \in Call
               PROVE  CallOk(call[c], rotations', hostClock', replica'.synced, posted)
    BY <1>1 DEF CallsOk
  <2>1. CallOk(call[c], rotations, hostClock, replica.synced, posted)
    BY DEF PostInv, CallsOk
  <2>2. QED
    BY <1>1, <1>3, <2>1, CallOkKept
<1>5. QED
  BY <1>1, <1>2, <1>4 DEF PostInv, Functional, StoreInv, MaskInv

-----------------------------------------------------------------------------
(* PrivatePost: the invariant and what follows. *)

(* The invariant holds initially.                                             *)
LEMMA PostInitInv ==
    PostInit => PostInv
<1> SUFFICES ASSUME PostInit PROVE PostInv
  OBVIOUS
<1>1. ReplicaInv /\ MaskInv
  BY DEF PostInit, ReplicaInv, MaskInv
<1>2. Functional
  BY DEF PostInit, Functional
<1>3. StoreInv
  BY DEF PostInit, StoreInv, RecordOk
<1>4. CallsOk
  BY IdleOk DEF PostInit, CallsOk
<1>5. QED
  BY <1>1, <1>2, <1>3, <1>4 DEF PostInv

(* Every step keeps it.                                                       *)
LEMMA PostInvKept ==
    ASSUME PostInv, [PostNext]_postVars
    PROVE  PostInv'
<1>0. CASE UNCHANGED postVars
  BY <1>0 DEF PostInv, Functional, ReplicaInv, StoreInv, MaskInv, CallsOk, postVars, oracleVars, hostVars
<1>1. CASE HostTick \/ Rotate \/ Sync
  BY <1>1, StepTime
<1>2. CASE \/ \E h \in Hooks : Install(h)
           \/ \E p \in Place, list \in Audience : MoveAudience(p, list)
  BY <1>2, StepHost
<1>3. CASE \E p, q \in Place : CopyRecord(p, q)
  BY <1>3, StepCopy
<1>4. ASSUME NEW c \in Call,
             \E p \in Place, post \in Post, now \in {hostClock, hostClock - 1} \cap Nat :
                \E form \in Forms(post) : Write(c, p, post, form, now)
      PROVE  PostInv'
  BY <1>4, StepWrite
<1>5. ASSUME NEW c \in Call,
             \/ ResolveGeneration(c) \/ CodecEncodes(c) \/ CodecRefuses(c) \/ StoreRecord(c)
             \/ \E p \in Place : Read(c, p)
             \/ CodecDecodes(c) \/ CodecCannotDecode(c) \/ Answered(c) \/ Abandon(c)
      PROVE  PostInv'
  BY <1>5, StepResolveGeneration, StepCodecEncodes, StepStoreRecord, StepRead, StepCodecDecodes, StepEnds
<1>6. QED
  BY <1>0, <1>1, <1>2, <1>3, <1>4, <1>5 DEF PostNext

(* A call whose record was encoded by this step had its codec answer.         *)
LEMMA OnlyCodecEncodes ==
    ASSUME PostInv, PostNext, NEW c \in Call,
           call[c].phase = "encoding", call'[c].phase = "encoded"
    PROVE  CodecEncodes(c)
<1>0. call = [d \in Call |-> call[d]]
  BY DEF PostInv, Functional
<1>1. ASSUME NEW d \in Call, NEW k, call' = [call EXCEPT ![d] = k], k.phase # "encoded"
      PROVE  FALSE
  <2>1. call' = [b \in Call |-> IF b = d THEN k ELSE call[b]]
    BY <1>0, <1>1, Zenon
  <2>2. call'[c] = k \/ call'[c] = call[c]
    BY <2>1
  <2>3. QED
    BY <1>1, <2>2
<1>2. CASE UNCHANGED call
  BY <1>2
<1>3. ASSUME NEW d \in Call, call' = [call EXCEPT ![d] = Idle]
      PROVE  FALSE
  BY <1>1, <1>3 DEF Idle
<1>4. ASSUME NEW d \in Call, NEW p, NEW post, NEW form, NEW now, Write(d, p, post, form, now)
      PROVE  FALSE
  <2> DEFINE k == [phase |-> IF hooks.oracle THEN "asking" ELSE "encoding",
                   place |-> p, list |-> audience[p], post |-> post,
                   payload |-> Payload(post, form), hooks |-> hooks, now |-> now,
                   generation |-> None]
  <2>1. call' = [call EXCEPT ![d] = Idle] \/ call' = [call EXCEPT ![d] = k]
    BY <1>4 DEF Write, FailEncode, Finish
  <2>2. k.phase # "encoded"
    OBVIOUS
  <2> HIDE DEF k
  <2>3. QED
    BY <1>1, <1>3, <2>1, <2>2
<1>5. ASSUME NEW d \in Call, NEW p, Read(d, p)
      PROVE  FALSE
  <2> DEFINE k == [phase |-> "decoding", record |-> store[p], hooks |-> hooks,
                   place |-> p, list |-> audience[p]]
  <2>1. call' = [call EXCEPT ![d] = Idle] \/ call' = [call EXCEPT ![d] = k]
    BY <1>5 DEF Read, FailDecode, Finish
  <2>2. k.phase # "encoded"
    OBVIOUS
  <2> HIDE DEF k
  <2>3. QED
    BY <1>1, <1>3, <2>1, <2>2
<1>6. ASSUME NEW d \in Call, CodecDecodes(d)
      PROVE  FALSE
  <2>1. PICK got : call' = [call EXCEPT ![d] = [phase |-> "answered", read |-> call[d], got |-> got]]
    BY <1>6 DEF CodecDecodes
  <2>2. [phase |-> "answered", read |-> call[d], got |-> got].phase # "encoded"
    OBVIOUS
  <2>3. QED
    BY <1>1, <2>1, <2>2
<1>7. ASSUME NEW d \in Call, CodecEncodes(d)
      PROVE  d = c
  <2>1. PICK k : call' = [call EXCEPT ![d] = k]
    BY <1>7 DEF CodecEncodes
  <2>2. call' = [b \in Call |-> IF b = d THEN k ELSE call[b]]
    BY <1>0, <2>1, Zenon
  <2>3. d # c => call'[c] = call[c]
    BY <2>2
  <2>4. QED
    BY <2>3
<1>8. ASSUME NEW d \in Call, ResolveGeneration(d)
      PROVE  FALSE
  <2> DEFINE k == [call[d] EXCEPT !.phase = "encoding", !.generation = replica.generation]
  <2>1. call[d].phase = "asking" /\ call' = [call EXCEPT ![d] = k]
    BY <1>8 DEF ResolveGeneration
  <2>2. CallOk(call[d], rotations, hostClock, replica.synced, posted)
    BY DEF PostInv, CallsOk
  <2>3. "phase" \in DOMAIN call[d]
    BY <2>1, <2>2 DEF CallOk
  <2>4. k.phase # "encoded"
    BY <2>3
  <2> HIDE DEF k
  <2>5. QED
    BY <1>1, <2>1, <2>4
<1>9. \/ UNCHANGED call
      \/ \E d \in Call :
            \/ call' = [call EXCEPT ![d] = Idle]
            \/ \E p, post, form, now : Write(d, p, post, form, now)
            \/ \E p : Read(d, p)
            \/ ResolveGeneration(d) \/ CodecDecodes(d) \/ CodecEncodes(d)
  <2>1. CASE \/ HostTick \/ Rotate \/ Sync
             \/ \E h \in Hooks : Install(h)
             \/ \E p \in Place, list \in Audience : MoveAudience(p, list)
             \/ \E p, q \in Place : CopyRecord(p, q)
    BY <2>1 DEF HostTick, Rotate, Sync, Install, MoveAudience, CopyRecord
  <2>2. ASSUME NEW d \in Call,
               \/ StoreRecord(d) \/ CodecRefuses(d) \/ CodecCannotDecode(d)
               \/ Answered(d) \/ Abandon(d)
        PROVE  call' = [call EXCEPT ![d] = Idle]
    BY <2>2 DEF StoreRecord, CodecRefuses, CodecCannotDecode, Answered, Abandon,
                FailEncode, FailDecode, Finish
  <2>3. QED
    BY <2>1, <2>2, Zenon DEF PostNext
<1>10. QED
  BY <1>2, <1>3, <1>4, <1>5, <1>6, <1>7, <1>8, <1>9

(* The invariant of posts at rest: what each overlapping call holds, what is  *)
(* stored, what the replica vouches for and which slugs are used up.          *)
THEOREM PostInvariant ==
    PostSpec => []PostInv
<1>1. PostInit => PostInv
  BY PostInitInv
<1>2. PostInv /\ [PostNext]_postVars => PostInv'
  BY PostInvKept
<1>3. QED
  BY <1>1, <1>2, PTL DEF PostSpec

(* A read returns what was posted where it reads, to the audience it reads    *)
(* for, whatever hooks, audiences, copies and edits come between.             *)
THEOREM PostReadersGetWhatWasPosted ==
    PostSpec => []ReadersGetWhatWasPosted
<1>1. PostInv => ReadersGetWhatWasPosted
  BY DEF PostInv, CallsOk, CallOk, Posted, ReadersGetWhatWasPosted
<1>2. QED
  BY <1>1, PostInvariant, PTL

(* Clear fields and encoded content never part, however calls overlap.        *)
THEOREM PostClearFieldsAgree ==
    PostSpec => []ClearFieldsAgree
<1>1. PostInv => ClearFieldsAgree
  BY DEF PostInv, StoreInv, RecordOk, ClearFieldsAgree
<1>2. QED
  BY <1>1, PostInvariant, PTL

(* No stamp had been replaced longer than the freshness bound before its      *)
(* call's clock, wherever a sync falls between the two looks at the oracle.   *)
THEOREM PostStampedFresh ==
    PostSpec => []StampedFresh
<1>1. PostInv => StampedFresh
  BY DEF PostInv, CallsOk, CallOk, Stamp, StampedFresh
<1>2. QED
  BY <1>1, PostInvariant, PTL

(* No encode reuses a mask.                                                   *)
THEOREM PostMaskNeverReused ==
    PostSpec => MaskNeverReused
<1> DEFINE Fresh ==
        \A c \in Call :
            call[c].phase = "encoding" /\ call'[c].phase = "encoded" /\ call[c].hooks.rotation
                => Mask(call'[c].encoded.content) \notin masks
<1>1. ASSUME PostInv, PostNext PROVE Fresh
  <2> SUFFICES ASSUME NEW c \in Call, call[c].phase = "encoding",
                      call'[c].phase = "encoded", call[c].hooks.rotation
               PROVE  Mask(call'[c].encoded.content) \notin masks
    OBVIOUS
  <2>1. CodecEncodes(c)
    BY <1>1, OnlyCodecEncodes
  <2>2. QED
    BY <1>1, <2>1, StepCodecEncodes
<1>2. ASSUME PostInv, [PostNext]_postVars PROVE [Fresh]_postVars
  BY <1>1, <1>2
<1>3. QED
  BY <1>2, PostInvariant, PTL DEF PostSpec, MaskNeverReused
=============================================================================
