--------------------------- MODULE CompositeAudit ---------------------------
(***************************************************************************)
(* The composite-audit scope of src/audit/composite.rs: an operation       *)
(* queues audit events of four classes, and when it succeeds the events    *)
(* are committed to the four class sinks in priority order.  If a sink     *)
(* fails half-way, a rollback marker is sent to every sink that already    *)
(* took an event; if a marker cannot be delivered, the fallback sink is    *)
(* told.  Several scopes run concurrently and share the sinks, which the   *)
(* operator may have wrapped in the TerminatedSinkGuard of                 *)
(* src/audit/sinks.rs.                                                     *)
(*                                                                         *)
(* A sink is operator code: each call may succeed, return an AuditError or *)
(* panic.  A call that fails or panics is taken to have recorded nothing,  *)
(* which is what an Err from `record` means to composite_audit.            *)
(***************************************************************************)
EXTENDS Naturals, Sequences

CONSTANTS
    Scope,      \* the composite_audit calls of the run
    MaxEvents,  \* bound on the events the operation of each scope queues
    Guarded     \* the classes whose sink is wrapped in a TerminatedSinkGuard

Class == {"Substrate", "Moderation", "User", "Channel"}

ASSUME MaxEventsAssumption == MaxEvents \in [Scope -> Nat]
ASSUME GuardedAssumption   == Guarded \subseteq Class

VARIABLES
    phase,       \* where the composite_audit call of the scope stands
    emitted,     \* classes of the events the operation queued, in emit order
    queued,      \* indices of the drained events not yet committed
    committed,   \* sinks_committed: classes that took an event of the scope
    pending,     \* rollback targets that have not been sent their marker
    failing,     \* class whose commit failed
    call,        \* the sink call in progress
    result,      \* what the composite_audit call returned
    trail,       \* what the sinks accepted from the scope, in order
    report,      \* record_composite_failure calls the fallback sink took
    terminated,  \* the guard's flag, per class
    panicked     \* the operator's sink of the class has panicked

scopeVars == <<phase, emitted, queued, committed, pending, failing, call, result>>
sinkVars  == <<trail, report, terminated, panicked>>
vars      == <<scopeVars, sinkVars>>

None == "None"

Phases  == {"op", "commit", "rollback", "escalate", "done"}
Calls   == {"idle", "inner", "caught"}
Results == {"Ok", "OpError", "Dropped", "SinkCommitFailed",
            "RollbackDispatchFailed", "InconsistencyUnrecoverable", "Unwound"}
Entry   == [kind : {"event", "marker"}, class : Class, seq : Nat]
Report  == [scope : Scope, committed : SUBSET Class, failed : SUBSET Class]

(* Every variable stays in its type; only drained events are queued for     *)
(* commit, and only classes that took an event are rollback targets.        *)
TypeOK ==
    /\ phase \in [Scope -> Phases]
    /\ emitted \in [Scope -> Seq(Class)]
    /\ queued \in [Scope -> SUBSET Nat]
    /\ \A s \in Scope : queued[s] \subseteq 1 .. Len(emitted[s])
    /\ committed \in [Scope -> SUBSET Class]
    /\ pending \in [Scope -> SUBSET Class]
    /\ \A s \in Scope : pending[s] \subseteq committed[s]
    /\ failing \in [Scope -> Class \cup {None}]
    /\ call \in [Scope -> Calls]
    /\ result \in [Scope -> Results \cup {None}]
    /\ trail \in [Scope -> Seq(Entry)]
    /\ report \subseteq Report
    /\ terminated \in [Class -> BOOLEAN]
    /\ panicked \in [Class -> BOOLEAN]

-----------------------------------------------------------------------------
(* COMMIT_PRIORITY_ORDER: position of a class in the commit order. *)
Priority == [c \in Class |->
    CASE c = "Substrate" -> 1 [] c = "Moderation" -> 2
      [] c = "User" -> 3      [] OTHER -> 4]

(* Mutation of Before: the events are committed in emit order, unsorted. *)
BeforeUnsorted(s, i, j) == i < j

(* The order the stable sort of drain_queued_events gives events i and j. *)
Before(s, i, j) ==
    LET p == Priority[emitted[s][i]]
        q == Priority[emitted[s][j]]
    IN  p < q \/ (p = q /\ i < j)

IsNextEvent(s, i) ==
    i \in queued[s] /\ \A j \in queued[s] : j = i \/ Before(s, i, j)

(* Mutation of IsNextTarget: the walk is not reversed. *)
IsNextTargetForward(s, c) ==
    c \in pending[s] /\ \A d \in pending[s] : Priority[d] >= Priority[c]

(* Rollback walks the committed classes in reverse priority order. *)
IsNextTarget(s, c) ==
    c \in pending[s] /\ \A d \in pending[s] : Priority[d] <= Priority[c]

(* The class of the sink that the thread of scope s calls next, or is in. *)
Calling(s, c) ==
    \/ phase[s] = "commit" /\ \E i \in queued[s] : IsNextEvent(s, i) /\ emitted[s][i] = c
    \/ phase[s] = "rollback" /\ IsNextTarget(s, c)

Init ==
    /\ phase = [s \in Scope |-> "op"]
    /\ emitted = [s \in Scope |-> <<>>]
    /\ queued = [s \in Scope |-> {}]
    /\ committed = [s \in Scope |-> {}]
    /\ pending = [s \in Scope |-> {}]
    /\ failing = [s \in Scope |-> None]
    /\ call = [s \in Scope |-> "idle"]
    /\ result = [s \in Scope |-> None]
    /\ trail = [s \in Scope |-> <<>>]
    /\ report = {}
    /\ terminated = [c \in Class |-> FALSE]
    /\ panicked = [c \in Class |-> FALSE]

-----------------------------------------------------------------------------
(* The operation. *)

(* emit_user, emit_channel, emit_substrate, emit_moderation: queue only. *)
EmitEvent(s, c) ==
    /\ phase[s] = "op"
    /\ Len(emitted[s]) < MaxEvents[s]
    /\ emitted' = [emitted EXCEPT ![s] = Append(@, c)]
    /\ UNCHANGED <<phase, queued, committed, pending, failing, call, result, sinkVars>>

(* The call returns r: the thread is done with the scope. *)
Return(s, r) ==
    /\ phase' = [phase EXCEPT ![s] = "done"]
    /\ result' = [result EXCEPT ![s] = r]

(* The operation returns Err, or its future is dropped while it awaits: the *)
(* queue goes away with the scope and no sink is called.                    *)
OpFails(s) ==
    /\ phase[s] = "op"
    /\ \E r \in {"OpError", "Dropped"} : Return(s, r)
    /\ UNCHANGED <<emitted, queued, committed, pending, failing, call, sinkVars>>

(* The indices drain_queued_events hands over: the whole queue. *)
Drained(s) == 1 .. Len(emitted[s])

(* The operation returns Ok: drain_queued_events hands the events over. *)
OpSucceeds(s) ==
    /\ phase[s] = "op"
    /\ phase' = [phase EXCEPT ![s] = "commit"]
    /\ queued' = [queued EXCEPT ![s] = Drained(s)]
    /\ UNCHANGED <<emitted, committed, pending, failing, call, result, sinkVars>>

(* The commit loop ends with nothing left to commit. *)
CommitComplete(s) ==
    /\ phase[s] = "commit"
    /\ queued[s] = {}
    /\ Return(s, "Ok")
    /\ UNCHANGED <<emitted, queued, committed, pending, failing, call, sinkVars>>

-----------------------------------------------------------------------------
(* Calls into a sink.  The guard reads its flag, then runs the sink, then   *)
(* sets the flag if the sink panicked: three steps that other scopes'       *)
(* threads interleave with.                                                 *)

(* The flag is clear (or there is no guard): the operator's sink runs. *)
EnterSink(s, c) ==
    /\ call[s] = "idle"
    /\ Calling(s, c)
    /\ ~(c \in Guarded /\ terminated[c])
    /\ call' = [call EXCEPT ![s] = "inner"]
    /\ UNCHANGED <<phase, emitted, queued, committed, pending, failing, result, sinkVars>>

(* Mutation of RollbackTargets: the class that failed gets no marker. *)
RollbackTargetsSkipFailing(s, c) == committed[s] \ {c}

(* The classes that get a marker when the commit to class c failed: the      *)
(* committed snapshot, which holds c too if c took an earlier event.         *)
RollbackTargets(s, c) == committed[s]

(* Mutation of MarkerFailed: the marker is retried. *)
MarkerFailedRetries(s) == UNCHANGED phase

(* A marker could not be delivered: go to the fallback sink. *)
MarkerFailed(s) == phase' = [phase EXCEPT ![s] = "escalate"]

(* The sink call of scope s on class c returned Err.  In the commit phase    *)
(* rollback begins with the committed snapshot; in the rollback phase the    *)
(* loop stops at the first marker that cannot be delivered.                  *)
CallFailed(s, c) ==
    /\ call' = [call EXCEPT ![s] = "idle"]
    /\ \/ /\ phase[s] = "commit"
          /\ phase' = [phase EXCEPT ![s] = "rollback"]
          /\ failing' = [failing EXCEPT ![s] = c]
          /\ pending' = [pending EXCEPT ![s] = RollbackTargets(s, c)]
       \/ /\ phase[s] = "rollback"
          /\ MarkerFailed(s)
          /\ UNCHANGED <<failing, pending>>
    /\ UNCHANGED <<emitted, queued, committed, result, trail, report>>

(* The guard finds its flag set and answers Unavailable. *)
SinkTerminated(s, c) ==
    /\ call[s] = "idle"
    /\ Calling(s, c)
    /\ c \in Guarded /\ terminated[c]
    /\ CallFailed(s, c)
    /\ UNCHANGED <<terminated, panicked>>

(* The sink returns Unavailable or BufferRejected. *)
SinkRejects(s, c) ==
    /\ call[s] = "inner"
    /\ Calling(s, c)
    /\ CallFailed(s, c)
    /\ UNCHANGED <<terminated, panicked>>

(* Mutation of NoteCommitted: the class is not noted. *)
NoteCommittedForgets(s, c) == UNCHANGED committed

(* record_committed *)
NoteCommitted(s, c) == committed' = [committed EXCEPT ![s] = @ \cup {c}]

(* The sink takes the next event: record_committed notes its class. *)
SinkTakesEvent(s, c) ==
    /\ call[s] = "inner"
    /\ phase[s] = "commit"
    /\ \E i \in queued[s] :
          /\ IsNextEvent(s, i)
          /\ emitted[s][i] = c
          /\ queued' = [queued EXCEPT ![s] = @ \ {i}]
          /\ trail' = [trail EXCEPT ![s] =
                          Append(@, [kind |-> "event", class |-> c, seq |-> i])]
    /\ NoteCommitted(s, c)
    /\ call' = [call EXCEPT ![s] = "idle"]
    /\ UNCHANGED <<phase, emitted, pending, failing, result, report, terminated, panicked>>

(* The sink takes the rollback marker. *)
SinkTakesMarker(s, c) ==
    /\ call[s] = "inner"
    /\ phase[s] = "rollback"
    /\ IsNextTarget(s, c)
    /\ pending' = [pending EXCEPT ![s] = @ \ {c}]
    /\ trail' = [trail EXCEPT ![s] =
                    Append(@, [kind |-> "marker", class |-> c, seq |-> 0])]
    /\ call' = [call EXCEPT ![s] = "idle"]
    /\ UNCHANGED <<phase, emitted, queued, committed, failing, result, report,
                   terminated, panicked>>

(* A guarded sink panics: catch_unwind returns, the flag is not set yet. *)
GuardedSinkPanics(s, c) ==
    /\ call[s] = "inner"
    /\ Calling(s, c)
    /\ c \in Guarded
    /\ panicked' = [panicked EXCEPT ![c] = TRUE]
    /\ call' = [call EXCEPT ![s] = "caught"]
    /\ UNCHANGED <<phase, emitted, queued, committed, pending, failing, result,
                   trail, report, terminated>>

(* Mutation of SetTerminated: the guard only maps the panic to Unavailable. *)
SetTerminatedForgets(c) == UNCHANGED terminated

SetTerminated(c) == terminated' = [terminated EXCEPT ![c] = TRUE]

(* The guard stores its flag and answers Unavailable. *)
GuardTerminates(s, c) ==
    /\ call[s] = "caught"
    /\ Calling(s, c)
    /\ SetTerminated(c)
    /\ CallFailed(s, c)
    /\ UNCHANGED panicked

(* A sink without a guard panics: neither the commit loop nor the rollback   *)
(* loop catches it, so the panic unwinds out of composite_audit.             *)
BareSinkPanics(s, c) ==
    /\ call[s] = "inner"
    /\ Calling(s, c)
    /\ c \notin Guarded
    /\ panicked' = [panicked EXCEPT ![c] = TRUE]
    /\ call' = [call EXCEPT ![s] = "idle"]
    /\ Return(s, "Unwound")
    /\ UNCHANGED <<emitted, queued, committed, pending, failing, trail, report, terminated>>

-----------------------------------------------------------------------------
(* handle_rollback *)

(* Every marker was delivered: the originating commit failure is returned. *)
RollbackComplete(s) ==
    /\ phase[s] = "rollback"
    /\ call[s] = "idle"
    /\ pending[s] = {}
    /\ Return(s, "SinkCommitFailed")
    /\ UNCHANGED <<emitted, queued, committed, pending, failing, call, sinkVars>>

(* record_composite_failure with the committed snapshot and the one class    *)
(* whose commit failed.                                                      *)
FallbackRecords(s) ==
    /\ phase[s] = "escalate"
    /\ report' = report \cup
          {[scope |-> s, committed |-> committed[s], failed |-> {failing[s]}]}
    /\ Return(s, "RollbackDispatchFailed")
    /\ UNCHANGED <<emitted, queued, committed, pending, failing, call,
                   trail, terminated, panicked>>

(* The fallback sink panics under catch_unwind. *)
FallbackPanics(s) ==
    /\ phase[s] = "escalate"
    /\ Return(s, "InconsistencyUnrecoverable")
    /\ UNCHANGED <<emitted, queued, committed, pending, failing, call, sinkVars>>

-----------------------------------------------------------------------------
SinkCall(s, c) ==
    \/ EnterSink(s, c)      \/ SinkTerminated(s, c)   \/ SinkRejects(s, c)
    \/ SinkTakesEvent(s, c) \/ SinkTakesMarker(s, c)
    \/ GuardedSinkPanics(s, c) \/ GuardTerminates(s, c) \/ BareSinkPanics(s, c)

(* The steps of composite_audit once the operation has returned Ok. *)
Settle(s) ==
    \/ CommitComplete(s)
    \/ \E c \in Class : SinkCall(s, c)
    \/ RollbackComplete(s)
    \/ FallbackRecords(s)
    \/ FallbackPanics(s)

Step(s) ==
    \/ \E c \in Class : EmitEvent(s, c)
    \/ OpFails(s)
    \/ OpSucceeds(s)
    \/ Settle(s)

Next == \E s \in Scope : Step(s)

Spec == Init /\ [][Next]_vars

(* Sinks must not block (the sink traits' contract) and the thread that runs *)
(* composite_audit has no await left after the operation: it keeps stepping. *)
FairSpec == Spec /\ \A s \in Scope : WF_vars(Settle(s))

-----------------------------------------------------------------------------
(* Properties *)

(* What a sequence of sink entries holds: event indices, and classes by kind. *)
Events(t)        == {t[k].seq : k \in {n \in DOMAIN t : t[n].kind = "event"}}
Classes(t, kind) == {t[k].class : k \in {n \in DOMAIN t : t[n].kind = kind}}

Recorded(s) == Events(trail[s])
Touched(s)  == Classes(trail[s], "event")
Marked(s)   == Classes(trail[s], "marker")

(* What a caller of composite_audit may conclude from its result: Ok means   *)
(* every event is in its sink and none is marked; an error of the operation  *)
(* means no sink was touched; SinkCommitFailed means every sink that holds   *)
(* an event of the scope also holds its marker (and the scope is incomplete);*)
(* RollbackDispatchFailed means the fallback sink was told every class that  *)
(* holds an event.                                                           *)
HonestResult(s) ==
    /\ result[s] = "Ok" =>
          Recorded(s) = 1 .. Len(emitted[s]) /\ Marked(s) = {}
    /\ result[s] \in {"OpError", "Dropped"} => trail[s] = <<>>
    /\ result[s] = "SinkCommitFailed" =>
          /\ Marked(s) = Touched(s)
          /\ Recorded(s) # 1 .. Len(emitted[s])
    /\ result[s] = "RollbackDispatchFailed" =>
          \E r \in report : r.scope = s /\ r.committed = Touched(s)

ResultIsHonest == \A s \in Scope : HonestResult(s)

(* Commit order: when a sink has taken an event, every event of the scope in  *)
(* a more privileged class, and every earlier event of the same class, was    *)
(* taken before it.                                                           *)
CommitsInOrder(s) ==
    \A k \in DOMAIN trail[s] : trail[s][k].kind = "event" =>
        \A j \in 1 .. Len(emitted[s]) :
            LET c == trail[s][k].class
                d == emitted[s][j]
            IN  Priority[d] < Priority[c] \/ (d = c /\ j < trail[s][k].seq) =>
                    \E m \in 1 .. (k - 1) : trail[s][m].kind = "event" /\ trail[s][m].seq = j

PrivilegedFirst == \A s \in Scope : CommitsInOrder(s)

(* Rollback order: nothing but markers follows a marker, and markers go to    *)
(* strictly more and more privileged classes, so no class gets two.           *)
UnwindsInOrder(s) ==
    \A k, m \in DOMAIN trail[s] :
        (k < m /\ trail[s][k].kind = "marker") =>
            /\ trail[s][m].kind = "marker"
            /\ Priority[trail[s][m].class] < Priority[trail[s][k].class]

MarkersUnwindCommits == \A s \in Scope : UnwindsInOrder(s)

(* Once the operation has returned Ok, the call comes to an end whatever the  *)
(* sinks do.                                                                  *)
EveryCommitSettles == \A s \in Scope : phase[s] = "commit" ~> phase[s] = "done"

(* The guard's flag is eventually set for a guarded sink that has panicked.   *)
PanickedSinkIsTerminated == \A c \in Guarded : panicked[c] ~> terminated[c]

(* What the guard's doc comment says: after the first panic of a guarded sink *)
(* every later record is rejected, so the sink is not entered again.          *)
PanickedSinkNotEntered ==
    [][\A s \in Scope : \A c \in Guarded :
           panicked[c] /\ Calling(s, c) => ~(call[s] = "idle" /\ call'[s] = "inner")]_vars

-----------------------------------------------------------------------------
(* What a scope promises, in terms of what its sinks hold: AuditTrail.        *)
Outcome(s) ==
    CASE result[s] = None -> "open"
      [] result[s] = "Ok" -> "recorded"
      [] result[s] \in {"OpError", "Dropped"} -> "absent"
      [] result[s] = "SinkCommitFailed" -> "retracted"
      [] result[s] = "RollbackDispatchFailed" -> "reported"
      [] OTHER -> "torn"

Told(s) == UNION {r.committed : r \in {q \in report : q.scope = s}}

Trail == INSTANCE AuditTrail WITH
    touched <- [s \in Scope |-> Touched(s)],
    marked  <- [s \in Scope |-> Marked(s)],
    told    <- [s \in Scope |-> Told(s)],
    outcome <- [s \in Scope |-> Outcome(s)]

(* composite_audit keeps the all-or-accounted-for contract of AuditTrail.     *)
AuditTrailContract == Trail!Spec
=============================================================================
