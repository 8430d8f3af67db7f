---------------------------- MODULE RotationOracle --------------------------
(***************************************************************************)
(* DefaultRotationOracle of src/codec/laquna/mod.rs: the rotation          *)
(* generation under which private content is encoded, kept in memory,      *)
(* rotated by whichever encode call finds it too old, written to a state   *)
(* file by a background thread, and read back when the process restarts.   *)
(* The calls come through resolve_rotation_generation of                   *)
(* src/encryption.rs, which checks the oracle's freshness first.           *)
(***************************************************************************)
EXTENDS Naturals, Sequences, SequencesExt

CONSTANTS
    Thread,      \* the threads that encode records
    Cadence,     \* age at which a generation is rotated
    MaxLatency,  \* what a thread may take between reading the clock and its last lock
    MaxTime,     \* bound on the clock
    MaxSlug,     \* bound on the slugs drawn
    Torn         \* content of a state file whose write was cut short

ASSUME RotationAssumption ==
    /\ Cadence \in Nat \ {0}
    /\ MaxLatency \in Nat /\ MaxTime \in Nat /\ MaxSlug \in Nat

VARIABLES
    clock,        \* SystemTime::now()
    up,           \* the process runs and the oracle is constructed
    state,        \* the generation in force: slug and generated_at
    drawn,        \* slugs drawn from the CSRNG so far
    queue,        \* requests in the channel to the persistence worker
    writing,      \* the request the worker is writing, in a sequence of at most one
    file,         \* rotation.state
    writeFailed,  \* the worker's last write_state_file returned Err
    phase,        \* where the thread's call stands
    outer,        \* the `now` the encode call was given
    inner,        \* the `now` that current_generation read
    mark,         \* the generation the call was last given
    result,       \* how the call got it
    late          \* history: some call rotated with a reading older than the generation

threadVars == <<phase, outer, inner, mark, result>>
diskVars   == <<queue, writing, file, writeFailed>>
vars       == <<clock, up, state, drawn, late, diskVars, threadVars>>

Generation == [slug : Nat, at : Nat]

Phases  == {"idle", "entered", "synced", "asking", "stale"}
Results == {"None", "Current", "Rotated", "CsrngFailed", "RotationStateUnavailable"}

(* Every variable stays in its type; the worker writes one request at a time. *)
TypeOK ==
    /\ clock \in Nat
    /\ up \in BOOLEAN
    /\ state \in Generation
    /\ drawn \in Nat
    /\ queue \in Seq(Generation)
    /\ writing \in Seq(Generation) /\ Len(writing) <= 1
    /\ file \in Generation \cup {Torn}
    /\ writeFailed \in BOOLEAN
    /\ phase \in [Thread -> Phases]
    /\ outer \in [Thread -> Nat]
    /\ inner \in [Thread -> Nat]
    /\ mark \in [Thread -> Generation]
    /\ late \in BOOLEAN
    /\ result \in [Thread -> Results]

(* now.duration_since(at) is Ok and the age is below the cadence. *)
WithinCadence(g, now) == g.at <= now /\ now - g.at < Cadence

(* No state file yet: the first construct draws a slug and writes it. *)
Init ==
    /\ clock = 0
    /\ up = TRUE
    /\ state = [slug |-> 0, at |-> 0]
    /\ drawn = 1
    /\ queue = <<>> /\ writing = <<>>
    /\ file = state
    /\ writeFailed = FALSE
    /\ phase = [t \in Thread |-> "idle"]
    /\ outer = [t \in Thread |-> 0]
    /\ inner = [t \in Thread |-> 0]
    /\ mark = [t \in Thread |-> state]
    /\ result = [t \in Thread |-> "None"]
    /\ late = FALSE

(* A thread that has read the clock reaches its locks within MaxLatency. *)
Tick ==
    /\ clock < MaxTime
    /\ \A t \in Thread : phase[t] \in {"asking", "stale"} => clock < inner[t] + MaxLatency
    /\ clock' = clock + 1
    /\ UNCHANGED <<up, late, state, drawn, diskVars, threadVars>>

-----------------------------------------------------------------------------
(* resolve_rotation_generation *)

Goto(t, p) == phase' = [phase EXCEPT ![t] = p]

Return(t, g, r) ==
    /\ Goto(t, "idle")
    /\ mark' = [mark EXCEPT ![t] = g]
    /\ result' = [result EXCEPT ![t] = r]

(* encode_record_content is called with the instant of the call. *)
Encode(t) ==
    /\ up
    /\ phase[t] = "idle"
    /\ Goto(t, "entered")
    /\ outer' = [outer EXCEPT ![t] = clock]
    /\ UNCHANGED <<clock, up, late, state, drawn, diskVars, inner, mark, result>>

(* last_synced_at is generated_at and the bound is Duration::MAX: the oracle  *)
(* is stale only if it looks future-dated.                                    *)
CheckFreshness(t) ==
    /\ phase[t] = "entered"
    /\ IF outer[t] < state.at
         THEN Return(t, mark[t], "RotationStateUnavailable")
         ELSE Goto(t, "synced") /\ UNCHANGED <<mark, result>>
    /\ UNCHANGED <<clock, up, late, state, drawn, diskVars, outer, inner>>

-----------------------------------------------------------------------------
(* current_generation *)

AskGeneration(t) ==
    /\ phase[t] = "synced"
    /\ Goto(t, "asking")
    /\ inner' = [inner EXCEPT ![t] = clock]
    /\ UNCHANGED <<clock, up, late, state, drawn, diskVars, outer, mark, result>>

(* Mutation of FastPath: the test on the cadence is off by one. *)
FastPathOffByOne(t) ==
    /\ phase[t] = "asking"
    /\ IF state.at <= inner[t] /\ inner[t] - state.at <= Cadence
         THEN Return(t, state, "Current")
         ELSE Goto(t, "stale") /\ UNCHANGED <<mark, result>>
    /\ UNCHANGED <<clock, up, late, state, drawn, diskVars, outer, inner>>

(* Under the read lock: serve the generation if it is within its cadence. *)
FastPath(t) ==
    /\ phase[t] = "asking"
    /\ IF WithinCadence(state, inner[t])
         THEN Return(t, state, "Current")
         ELSE Goto(t, "stale") /\ UNCHANGED <<mark, result>>
    /\ UNCHANGED <<clock, up, late, state, drawn, diskVars, outer, inner>>

(* Mutation of Dispatch: the request is built before the state is updated. *)
DispatchBefore(g) == queue' = Append(queue, state)

(* The persist request of the generation just put in force. *)
Dispatch(g) == queue' = Append(queue, g)

(* Mutation of RotatedAt: the instant the encode call was given is used. *)
RotatedAtEncode(t) == outer[t]

(* A rotated generation starts at the instant current_generation read. *)
RotatedAt(t) == inner[t]

(* Under the write lock, with the reading taken before the read lock: if the  *)
(* generation in force is too old, or later than the reading, start another.  *)
SlowPath(t) ==
    LET next == [slug |-> drawn, at |-> RotatedAt(t)]
    IN  /\ phase[t] = "stale"
        /\ \/ /\ WithinCadence(state, inner[t])
              /\ Return(t, state, "Current")
              /\ UNCHANGED <<state, drawn, late, queue>>
           \/ /\ ~WithinCadence(state, inner[t])
              /\ drawn < MaxSlug
              /\ state' = next
              /\ drawn' = drawn + 1
              /\ late' = (late \/ inner[t] < state.at)
              /\ Dispatch(next)
              /\ Return(t, next, "Rotated")
           \/ /\ ~WithinCadence(state, inner[t])
              /\ Return(t, state, "CsrngFailed")
              /\ UNCHANGED <<state, drawn, late, queue>>
        /\ UNCHANGED <<clock, up, writing, file, writeFailed, outer, inner>>

-----------------------------------------------------------------------------
(* The persistence worker: one request at a time, in the order sent.          *)
(* std::fs::write truncates the file, then writes it.                         *)

WorkerOpens ==
    /\ up
    /\ writing = <<>> /\ queue # <<>>
    /\ writing' = <<Head(queue)>>
    /\ queue' = Tail(queue)
    /\ file' = Torn
    /\ UNCHANGED <<clock, up, late, state, drawn, writeFailed, threadVars>>

(* The directory or the file cannot be opened: nothing is written. *)
WorkerCannotOpen ==
    /\ up
    /\ writing = <<>> /\ queue # <<>>
    /\ queue' = Tail(queue)
    /\ writeFailed' = TRUE
    /\ UNCHANGED <<clock, up, late, state, drawn, writing, file, threadVars>>

WorkerWrites ==
    /\ up
    /\ writing # <<>>
    /\ file' = Head(writing)
    /\ writing' = <<>>
    /\ writeFailed' = FALSE
    /\ UNCHANGED <<clock, up, late, state, drawn, queue, threadVars>>

WorkerWriteFails ==
    /\ up
    /\ writing # <<>>
    /\ writing' = <<>>
    /\ writeFailed' = TRUE
    /\ UNCHANGED <<clock, up, late, state, drawn, queue, file, threadVars>>

-----------------------------------------------------------------------------
(* The process dies at any moment: memory, channel and calls are gone.  state *)
(* is kept as the record of what was in force.                                *)
Crash ==
    /\ up
    /\ up' = FALSE
    /\ queue' = <<>> /\ writing' = <<>>
    /\ phase' = [t \in Thread |-> "idle"]
    /\ result' = [t \in Thread |-> "None"]
    /\ UNCHANGED <<clock, late, state, drawn, file, writeFailed, outer, inner, mark>>

(* Mutation of Loaded: any generation that parses is taken up again. *)
LoadedAnyAge(now) == IF file = Torn THEN <<>> ELSE <<file>>

(* What construct takes up: the file's generation, if it parses and is within *)
(* its cadence.                                                               *)
Loaded(now) == IF file # Torn /\ WithinCadence(file, now) THEN <<file>> ELSE <<>>

(* construct: load or draw, then the install-time write.  If that write fails *)
(* construct fails, and the process may try again.                            *)
Restart ==
    /\ ~up
    /\ \/ /\ Loaded(clock) # <<>>
          /\ state' = Head(Loaded(clock))
          /\ drawn' = drawn
       \/ /\ Loaded(clock) = <<>>
          /\ drawn < MaxSlug
          /\ state' = [slug |-> drawn, at |-> clock]
          /\ drawn' = drawn + 1
    /\ file' = state'
    /\ up' = TRUE
    /\ writeFailed' = FALSE
    /\ UNCHANGED <<clock, late, queue, writing, threadVars>>

(* The install-time write fails, before or after it truncated the file, or no *)
(* slug can be drawn: construct returns Err.                                  *)
RestartFails ==
    /\ ~up
    /\ file' \in {file, Torn}
    /\ UNCHANGED <<clock, up, late, state, drawn, queue, writing, writeFailed, threadVars>>

-----------------------------------------------------------------------------
ThreadStep(t) ==
    \/ Encode(t) \/ CheckFreshness(t) \/ AskGeneration(t) \/ FastPath(t) \/ SlowPath(t)

Worker == WorkerOpens \/ WorkerCannotOpen \/ WorkerWrites \/ WorkerWriteFails

Next ==
    \/ Tick
    \/ \E t \in Thread : ThreadStep(t)
    \/ Worker
    \/ Crash \/ Restart \/ RestartFails

Spec == Init /\ [][Next]_vars

-----------------------------------------------------------------------------
(* Properties *)

(* A call is never given a generation past its cadence, by the instant the    *)
(* call itself read, nor one from its future, unless no slug could be drawn:  *)
(* however the other threads rotate between its two locks.                    *)
ServedWithinCadence ==
    \A t \in Thread :
        phase[t] = "idle" /\ result[t] \in {"Current", "Rotated"} =>
            WithinCadence(mark[t], inner[t])

(* The worker is always heading for the generation in force: it is the last   *)
(* request sent, or else the one being written, or else what the file holds   *)
(* unless the last write failed.                                              *)
PersistsInOrder ==
    up => /\ queue # <<>> => Last(queue) = state
          /\ queue = <<>> /\ writing # <<>> => Head(writing) = state
          /\ queue = <<>> /\ writing = <<>> => writeFailed \/ file = state

(* While the process lives, the generation in force goes back in time by no   *)
(* more than the latency of one call.                                         *)
RewindBounded == [][up /\ up' => state.at <= state'.at + MaxLatency]_vars

(* A generation in force never goes back in time, not even over a crash and a *)
(* restart, unless a call once rotated with a reading that another call's     *)
(* rotation had overtaken: marks otherwise sort in the order of the           *)
(* generations.                                                               *)
MarksNeverGoBack == [][~late' => state.at <= state'.at]_vars

(* What last_synced_at's comment says: the freshness check never trips for    *)
(* this oracle.                                                               *)
FreshnessNeverTrips == \A t \in Thread : result[t] # "RotationStateUnavailable"
=============================================================================
