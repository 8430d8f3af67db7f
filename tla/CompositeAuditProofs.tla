------------------------ MODULE CompositeAuditProofs ------------------------
(***************************************************************************)
(* Proofs about CompositeAudit for every set of scopes, every bound on the *)
(* events and every set of guarded sinks: the inductive invariant of       *)
(* CompositeAuditInvariant, the honesty of the result, the order of        *)
(* commits and of the markers that unwind them, and the refinement of      *)
(* AuditTrail.                                                             *)
(***************************************************************************)
EXTENDS CompositeAuditInvariant, TLAPS

-----------------------------------------------------------------------------
(* What one more entry adds to a trail.  *)
LEMMA AppendEntry ==
    ASSUME NEW t \in Seq(Entry), NEW e \in Entry
    PROVE  /\ Append(t, e) \in Seq(Entry)
           /\ Events(Append(t, e)) =
                Events(t) \cup (IF e.kind = "event" THEN {e.seq} ELSE {})
           /\ \A kind : Classes(Append(t, e), kind) =
                Classes(t, kind) \cup (IF e.kind = kind THEN {e.class} ELSE {})
<1> DEFINE u == Append(t, e)
<1>1. /\ u \in Seq(Entry)
      /\ DOMAIN u = DOMAIN t \cup {Len(t) + 1}
      /\ \A n \in DOMAIN t : u[n] = t[n]
      /\ u[Len(t) + 1] = e
  OBVIOUS
<1>2. Events(u) = Events(t) \cup (IF e.kind = "event" THEN {e.seq} ELSE {})
  BY <1>1 DEF Events
<1>3. ASSUME NEW kind
      PROVE  Classes(u, kind) =
                Classes(t, kind) \cup (IF e.kind = kind THEN {e.class} ELSE {})
  BY <1>1 DEF Classes
<1>4. QED
  BY <1>1, <1>2, <1>3

(* The two kinds of entry: an event adds its index and its class to the      *)
(* events, a marker adds its class to the markers.                           *)
LEMMA AppendEvent ==
    ASSUME NEW t \in Seq(Entry), NEW c \in Class, NEW i \in Nat, NEW e,
           e = [kind |-> "event", class |-> c, seq |-> i]
    PROVE  /\ Events(Append(t, e)) = Events(t) \cup {i}
           /\ Classes(Append(t, e), "event") = Classes(t, "event") \cup {c}
           /\ Classes(Append(t, e), "marker") = Classes(t, "marker")
<1>1. e \in Entry /\ e.kind = "event" /\ e.class = c /\ e.seq = i
  BY DEF Entry
<1>2. Events(Append(t, e)) = Events(t) \cup {i}
  BY <1>1, AppendEntry
<1>3. \A kind : Classes(Append(t, e), kind) =
                   Classes(t, kind) \cup (IF e.kind = kind THEN {e.class} ELSE {})
  BY <1>1, AppendEntry
<1>4. QED
  BY <1>1, <1>2, <1>3

LEMMA AppendMarker ==
    ASSUME NEW t \in Seq(Entry), NEW c \in Class, NEW e,
           e = [kind |-> "marker", class |-> c, seq |-> 0]
    PROVE  /\ Events(Append(t, e)) = Events(t)
           /\ Classes(Append(t, e), "event") = Classes(t, "event")
           /\ Classes(Append(t, e), "marker") = Classes(t, "marker") \cup {c}
<1>1. e \in Entry /\ e.kind = "marker" /\ e.class = c
  BY DEF Entry
<1>2. Events(Append(t, e)) = Events(t) \cup (IF e.kind = "event" THEN {e.seq} ELSE {})
  BY <1>1, AppendEntry
<1>3. \A kind : Classes(Append(t, e), kind) =
                   Classes(t, kind) \cup (IF e.kind = kind THEN {e.class} ELSE {})
  BY <1>1, AppendEntry
<1>4. Events(Append(t, e)) = Events(t)
  BY <1>1, <1>2
<1>5. QED
  BY <1>1, <1>3, <1>4

(* An empty trail holds nothing. *)
LEMMA EmptyTrail == Events(<<>>) = {} /\ \A kind : Classes(<<>>, kind) = {}
BY DEF Events, Classes

-----------------------------------------------------------------------------
(* Type correctness. *)

LEMMA InitTypeOK == Init => TypeOK
BY MaxEventsAssumption DEF Init, TypeOK, Phases, Calls, None

LEMMA CallFailedType ==
    ASSUME TypeOK, NEW s \in Scope, NEW c \in Class, CallFailed(s, c),
           terminated' \in [Class -> BOOLEAN], panicked' \in [Class -> BOOLEAN]
    PROVE  TypeOK'
<1>1. call' \in [Scope -> Calls] /\ phase' \in [Scope -> Phases]
  BY DEF CallFailed, MarkerFailed, TypeOK, Phases, Calls
<1>2. /\ failing' \in [Scope -> Class \cup {None}]
      /\ pending' \in [Scope -> SUBSET Class]
      /\ \A t \in Scope : pending'[t] \subseteq committed'[t]
  <2>1. CASE phase[s] = "commit"
    <3>1. /\ failing' = [failing EXCEPT ![s] = c]
          /\ pending' = [pending EXCEPT ![s] = committed[s]]
          /\ committed' = committed
      BY <2>1 DEF CallFailed, RollbackTargets
    <3>2. failing' \in [Scope -> Class \cup {None}]
      BY <3>1 DEF TypeOK
    <3>3. pending' \in [Scope -> SUBSET Class]
      BY <3>1 DEF TypeOK
    <3>4. \A t \in Scope : pending'[t] \subseteq committed'[t]
      BY <3>1 DEF TypeOK
    <3>5. QED
      BY <3>2, <3>3, <3>4
  <2>2. CASE phase[s] = "rollback"
    BY <2>2 DEF CallFailed, TypeOK
  <2>3. QED
    BY <2>1, <2>2 DEF CallFailed
<1>3. UNCHANGED <<emitted, queued, committed, result, trail, report>>
  BY DEF CallFailed
<1>4. QED
  BY <1>1, <1>2, <1>3 DEF TypeOK

LEMMA StepTypeOK ==
    ASSUME TypeOK, \A s \in Scope : ScopeInv(s), [Next]_vars
    PROVE  TypeOK'
<1>1. ASSUME NEW s \in Scope, NEW c \in Class, EmitEvent(s, c) PROVE TypeOK'
  <2>1. emitted' \in [Scope -> Seq(Class)]
    BY <1>1 DEF EmitEvent, TypeOK
  <2>2. \A t \in Scope : 1 .. Len(emitted[t]) \subseteq 1 .. Len(emitted'[t])
    BY <1>1 DEF EmitEvent, TypeOK
  <2>3. QED
    BY <1>1, <2>1, <2>2 DEF EmitEvent, TypeOK, sinkVars
<1>2. ASSUME NEW s \in Scope, OpFails(s) PROVE TypeOK'
  BY <1>2 DEF OpFails, Return, TypeOK, sinkVars, Phases, Results
<1>3. ASSUME NEW s \in Scope, OpSucceeds(s) PROVE TypeOK'
  BY <1>3 DEF OpSucceeds, Drained, TypeOK, sinkVars, Phases
<1>4. ASSUME NEW s \in Scope, CommitComplete(s) PROVE TypeOK'
  BY <1>4 DEF CommitComplete, Return, TypeOK, sinkVars, Phases, Results
<1>5. ASSUME NEW s \in Scope, NEW c \in Class, EnterSink(s, c) PROVE TypeOK'
  BY <1>5 DEF EnterSink, TypeOK, sinkVars, Calls
<1>6. ASSUME NEW s \in Scope, NEW c \in Class, SinkTerminated(s, c) PROVE TypeOK'
  BY <1>6, CallFailedType DEF SinkTerminated, TypeOK
<1>7. ASSUME NEW s \in Scope, NEW c \in Class, SinkRejects(s, c) PROVE TypeOK'
  BY <1>7, CallFailedType DEF SinkRejects, TypeOK
<1>8. ASSUME NEW s \in Scope, NEW c \in Class, SinkTakesEvent(s, c) PROVE TypeOK'
  <2>1. PICK i \in queued[s] :
           /\ queued' = [queued EXCEPT ![s] = @ \ {i}]
           /\ trail' = [trail EXCEPT ![s] =
                          Append(@, [kind |-> "event", class |-> c, seq |-> i])]
    BY <1>8 DEF SinkTakesEvent
  <2>2. [kind |-> "event", class |-> c, seq |-> i] \in Entry
    BY DEF Entry, TypeOK
  <2>3. trail' \in [Scope -> Seq(Entry)]
    BY <2>1, <2>2, AppendEntry DEF TypeOK
  <2>4. QED
    BY <1>8, <2>1, <2>3 DEF SinkTakesEvent, NoteCommitted, TypeOK, Calls
<1>9. ASSUME NEW s \in Scope, NEW c \in Class, SinkTakesMarker(s, c) PROVE TypeOK'
  <2>1. [kind |-> "marker", class |-> c, seq |-> 0] \in Entry
    BY DEF Entry
  <2>2. trail' \in [Scope -> Seq(Entry)]
    BY <1>9, <2>1, AppendEntry DEF SinkTakesMarker, TypeOK
  <2>3. QED
    BY <1>9, <2>2 DEF SinkTakesMarker, TypeOK, Calls
<1>10. ASSUME NEW s \in Scope, NEW c \in Class, GuardedSinkPanics(s, c) PROVE TypeOK'
  BY <1>10 DEF GuardedSinkPanics, TypeOK, Calls
<1>11. ASSUME NEW s \in Scope, NEW c \in Class, GuardTerminates(s, c) PROVE TypeOK'
  BY <1>11, CallFailedType DEF GuardTerminates, SetTerminated, TypeOK
<1>12. ASSUME NEW s \in Scope, NEW c \in Class, BareSinkPanics(s, c) PROVE TypeOK'
  BY <1>12 DEF BareSinkPanics, Return, TypeOK, Calls, Phases, Results
<1>13. ASSUME NEW s \in Scope, RollbackComplete(s) PROVE TypeOK'
  BY <1>13 DEF RollbackComplete, Return, TypeOK, sinkVars, Phases, Results
<1>14. ASSUME NEW s \in Scope, FallbackRecords(s) PROVE TypeOK'
  <2>1. failing[s] \in Class
    BY <1>14 DEF FallbackRecords, ScopeInv, MarkersExact
  <2>2. report' \subseteq Report
    BY <1>14, <2>1 DEF FallbackRecords, TypeOK, Report
  <2>3. QED
    BY <1>14, <2>2 DEF FallbackRecords, Return, TypeOK, Phases, Results
<1>15. ASSUME NEW s \in Scope, FallbackPanics(s) PROVE TypeOK'
  BY <1>15 DEF FallbackPanics, Return, TypeOK, sinkVars, Phases, Results
<1>16. ASSUME UNCHANGED vars PROVE TypeOK'
  BY <1>16 DEF vars, scopeVars, sinkVars, TypeOK
<1>17. QED
  BY <1>1, <1>2, <1>3, <1>4, <1>5, <1>6, <1>7, <1>8, <1>9, <1>10, <1>11, <1>12,
     <1>13, <1>14, <1>15, <1>16 DEF Next, Step, Settle, SinkCall

-----------------------------------------------------------------------------
(* The inductive invariant.  A step of one scope leaves the other scopes as  *)
(* they were; ScopeInv and HonestResult mention nothing else.                *)

(* The reports about a scope. *)
ReportsOf(s) == {r \in report : r.scope = s}

(* Nothing that ScopeInv and HonestResult say of scope t has changed. *)
SameScope(t) ==
    /\ phase'[t] = phase[t]         /\ emitted'[t] = emitted[t]
    /\ queued'[t] = queued[t]       /\ committed'[t] = committed[t]
    /\ pending'[t] = pending[t]     /\ failing'[t] = failing[t]
    /\ result'[t] = result[t]       /\ trail'[t] = trail[t]
    /\ ReportsOf(t)' = ReportsOf(t)

LEMMA Frame ==
    ASSUME NEW t \in Scope, ScopeInv(t), HonestResult(t), SameScope(t)
    PROVE  ScopeInv(t)' /\ HonestResult(t)'
<1>1. /\ Recorded(t)' = Recorded(t)
      /\ Touched(t)' = Touched(t)
      /\ Marked(t)' = Marked(t)
  BY DEF SameScope, Recorded, Touched, Marked
<1>2. \A r : r \in report' /\ r.scope = t <=> r \in report /\ r.scope = t
  BY DEF SameScope, ReportsOf
<1>3. ScopeInv(t)'
  <2>1. ResultWhenDone(t)' /\ QuietDuringOp(t)'
    BY DEF ScopeInv, ResultWhenDone, QuietDuringOp, SameScope
  <2>2. BookkeepingExact(t)'
    BY <1>1 DEF ScopeInv, BookkeepingExact, SameScope
  <2>3. MarkersExact(t)'
    BY <1>1 DEF ScopeInv, MarkersExact, SameScope
  <2>4. ReportOnlyWhenReported(t)'
    BY <1>2 DEF ScopeInv, ReportOnlyWhenReported, SameScope
  <2>5. QED
    BY <2>1, <2>2, <2>3, <2>4 DEF ScopeInv
<1>4. HonestResult(t)'
  BY <1>1, <1>2 DEF HonestResult, SameScope
<1>5. QED
  BY <1>3, <1>4

(* What every scope other than s keeps, and s must re-establish. *)
Kept(s) ==
    /\ \A t \in Scope \ {s} : SameScope(t)
    /\ ScopeInv(s)' /\ HonestResult(s)'

LEMMA InitInv == Init => \A s \in Scope : ScopeInv(s) /\ HonestResult(s)
<1> SUFFICES ASSUME Init, NEW s \in Scope PROVE ScopeInv(s) /\ HonestResult(s)
  OBVIOUS
<1>1. /\ phase[s] = "op" /\ result[s] = None /\ trail[s] = <<>>
      /\ committed[s] = {} /\ report = {}
  BY DEF Init
<1>2. Recorded(s) = {} /\ Touched(s) = {} /\ Marked(s) = {}
  BY <1>1, EmptyTrail DEF Recorded, Touched, Marked
<1>3. QED
  BY <1>1, <1>2 DEF ScopeInv, ResultWhenDone, QuietDuringOp, BookkeepingExact,
     MarkersExact, ReportOnlyWhenReported, HonestResult, None

(* A sink call that returned Err starts the rollback, or ends it early. *)
LEMMA CallFailedKeeps ==
    ASSUME TypeOK, NEW s \in Scope, NEW c \in Class, ScopeInv(s), HonestResult(s),
           Calling(s, c), CallFailed(s, c)
    PROVE  Kept(s)
<1>1. \A t \in Scope \ {s} : SameScope(t)
  <2>1. /\ \A t \in Scope \ {s} : /\ phase'[t] = phase[t]
                                  /\ failing'[t] = failing[t]
                                  /\ pending'[t] = pending[t]
    BY DEF CallFailed, MarkerFailed, RollbackTargets, TypeOK
  <2>2. QED
    BY <2>1 DEF CallFailed, SameScope, ReportsOf
<1>2. /\ result'[s] = result[s] /\ trail'[s] = trail[s] /\ report' = report
      /\ emitted'[s] = emitted[s] /\ committed'[s] = committed[s]
      /\ queued'[s] = queued[s]
  BY DEF CallFailed
<1>3. Recorded(s)' = Recorded(s) /\ Touched(s)' = Touched(s) /\ Marked(s)' = Marked(s)
  BY <1>2 DEF Recorded, Touched, Marked
<1>4. ScopeInv(s)' /\ HonestResult(s)'
  <2>1. CASE phase[s] = "commit"
    <3>1. /\ phase'[s] = "rollback" /\ failing'[s] = c /\ pending'[s] = committed[s]
      BY <2>1 DEF CallFailed, RollbackTargets, TypeOK
    <3>2. queued[s] # {}
      BY <2>1 DEF Calling
    <3>3. /\ result[s] = None /\ Touched(s) = committed[s] /\ Marked(s) = {}
          /\ Recorded(s) = 1 .. Len(emitted[s]) \ queued[s]
          /\ \A r \in report : r.scope # s
      BY <2>1 DEF ScopeInv, ResultWhenDone, BookkeepingExact, MarkersExact,
         ReportOnlyWhenReported
    <3>4. Marked(s)' = committed'[s] \ pending'[s]
      BY <1>2, <1>3, <3>1, <3>3
    <3>5. QED
      BY <1>2, <1>3, <3>1, <3>2, <3>3, <3>4 DEF ScopeInv, ResultWhenDone, QuietDuringOp,
         BookkeepingExact, MarkersExact, ReportOnlyWhenReported, HonestResult, None
  <2>2. CASE phase[s] = "rollback"
    <3>1. phase'[s] = "escalate" /\ failing'[s] = failing[s] /\ pending'[s] = pending[s]
      BY <2>2 DEF CallFailed, MarkerFailed, TypeOK
    <3>2. QED
      BY <1>2, <1>3, <2>2, <3>1 DEF ScopeInv, ResultWhenDone, QuietDuringOp,
         BookkeepingExact, MarkersExact, ReportOnlyWhenReported, HonestResult, None
  <2>3. QED
    BY <2>1, <2>2 DEF CallFailed
<1>5. QED
  BY <1>1, <1>4 DEF Kept

LEMMA StepKeeps ==
    ASSUME TypeOK, \A s \in Scope : ScopeInv(s) /\ HonestResult(s),
           NEW s \in Scope, Step(s)
    PROVE  Kept(s)
<1> USE DEF Kept
<1>1. ASSUME NEW c \in Class, EmitEvent(s, c) PROVE Kept(s)
  <2>1. \A t \in Scope \ {s} : SameScope(t)
    BY <1>1 DEF EmitEvent, SameScope, ReportsOf, sinkVars, TypeOK
  <2>2. /\ phase'[s] = "op" /\ phase[s] = "op" /\ result'[s] = result[s]
        /\ trail'[s] = trail[s] /\ committed'[s] = committed[s] /\ report' = report
    BY <1>1 DEF EmitEvent, sinkVars
  <2>3. Recorded(s)' = Recorded(s) /\ Touched(s)' = Touched(s) /\ Marked(s)' = Marked(s)
    BY <2>2 DEF Recorded, Touched, Marked
  <2>4. ScopeInv(s)' /\ HonestResult(s)'
    BY <2>2, <2>3 DEF ScopeInv, ResultWhenDone, QuietDuringOp, BookkeepingExact,
       MarkersExact, ReportOnlyWhenReported, HonestResult, None
  <2>5. QED
    BY <2>1, <2>4
<1>2. ASSUME OpFails(s) PROVE Kept(s)
  <2>1. \A t \in Scope \ {s} : SameScope(t)
    BY <1>2 DEF OpFails, Return, SameScope, ReportsOf, sinkVars, TypeOK
  <2>2. /\ phase[s] = "op" /\ phase'[s] = "done" /\ result'[s] \in {"OpError", "Dropped"}
        /\ trail'[s] = trail[s] /\ committed'[s] = committed[s] /\ report' = report
    BY <1>2 DEF OpFails, Return, sinkVars, TypeOK
  <2>3. Touched(s)' = Touched(s) /\ trail[s] = <<>>
    BY <2>2 DEF Touched, ScopeInv, QuietDuringOp
  <2>4. ScopeInv(s)' /\ HonestResult(s)'
    BY <2>2, <2>3 DEF ScopeInv, ResultWhenDone, QuietDuringOp, BookkeepingExact,
       MarkersExact, ReportOnlyWhenReported, HonestResult, None
  <2>5. QED
    BY <2>1, <2>4
<1>3. ASSUME OpSucceeds(s) PROVE Kept(s)
  <2>1. \A t \in Scope \ {s} : SameScope(t)
    BY <1>3 DEF OpSucceeds, SameScope, ReportsOf, sinkVars, TypeOK
  <2>2. /\ phase[s] = "op" /\ phase'[s] = "commit" /\ result'[s] = result[s]
        /\ queued'[s] = 1 .. Len(emitted'[s])
        /\ trail'[s] = trail[s] /\ committed'[s] = committed[s] /\ report' = report
    BY <1>3 DEF OpSucceeds, Drained, sinkVars, TypeOK
  <2>3. trail'[s] = <<>> /\ committed'[s] = {} /\ result'[s] = None
    BY <2>2 DEF ScopeInv, QuietDuringOp, ResultWhenDone, TypeOK
  <2>4. Recorded(s)' = {} /\ Touched(s)' = {} /\ Marked(s)' = {}
    BY <2>3, EmptyTrail DEF Recorded, Touched, Marked
  <2>5. ScopeInv(s)' /\ HonestResult(s)'
    BY <2>2, <2>3, <2>4 DEF ScopeInv, ResultWhenDone, QuietDuringOp, BookkeepingExact,
       MarkersExact, ReportOnlyWhenReported, HonestResult, None
  <2>6. QED
    BY <2>1, <2>5
<1>4. ASSUME CommitComplete(s) PROVE Kept(s)
  <2>1. \A t \in Scope \ {s} : SameScope(t)
    BY <1>4 DEF CommitComplete, Return, SameScope, ReportsOf, sinkVars, TypeOK
  <2>2. /\ phase[s] = "commit" /\ queued[s] = {}
        /\ phase'[s] = "done" /\ result'[s] = "Ok" /\ emitted'[s] = emitted[s]
        /\ trail'[s] = trail[s] /\ committed'[s] = committed[s] /\ report' = report
    BY <1>4 DEF CommitComplete, Return, sinkVars, TypeOK
  <2>3. Recorded(s)' = Recorded(s) /\ Touched(s)' = Touched(s) /\ Marked(s)' = Marked(s)
    BY <2>2 DEF Recorded, Touched, Marked
  <2>4. Recorded(s) = 1 .. Len(emitted[s]) /\ Marked(s) = {} /\ Touched(s) = committed[s]
    BY <2>2 DEF ScopeInv, BookkeepingExact, MarkersExact
  <2>5. ScopeInv(s)' /\ HonestResult(s)'
    BY <2>2, <2>3, <2>4 DEF ScopeInv, ResultWhenDone, QuietDuringOp, BookkeepingExact,
       MarkersExact, ReportOnlyWhenReported, HonestResult, None
  <2>6. QED
    BY <2>1, <2>5
<1>5. ASSUME NEW c \in Class,
             EnterSink(s, c) \/ GuardedSinkPanics(s, c)
      PROVE  Kept(s)
  <2>1. \A t \in Scope : SameScope(t)
    BY <1>5 DEF EnterSink, GuardedSinkPanics, SameScope, ReportsOf, sinkVars
  <2>2. QED
    BY <2>1, Frame
<1>6. ASSUME NEW c \in Class,
             SinkTerminated(s, c) \/ SinkRejects(s, c) \/ GuardTerminates(s, c)
      PROVE  Kept(s)
  BY <1>6, CallFailedKeeps DEF SinkTerminated, SinkRejects, GuardTerminates
<1>7. ASSUME NEW c \in Class, SinkTakesEvent(s, c) PROVE Kept(s)
  <2>1. PICK i \in queued[s] :
           /\ queued' = [queued EXCEPT ![s] = @ \ {i}]
           /\ trail' = [trail EXCEPT ![s] =
                          Append(@, [kind |-> "event", class |-> c, seq |-> i])]
    BY <1>7 DEF SinkTakesEvent
  <2>2. \A t \in Scope \ {s} : SameScope(t)
    BY <1>7, <2>1 DEF SinkTakesEvent, NoteCommitted, SameScope, ReportsOf, TypeOK
  <2> DEFINE e == [kind |-> "event", class |-> c, seq |-> i]
  <2>3. /\ phase[s] = "commit" /\ phase'[s] = "commit"
        /\ result'[s] = result[s] /\ report' = report /\ emitted'[s] = emitted[s]
        /\ committed'[s] = committed[s] \cup {c}
        /\ queued'[s] = queued[s] \ {i}
        /\ trail'[s] = Append(trail[s], e)
    BY <1>7, <2>1 DEF SinkTakesEvent, NoteCommitted, TypeOK
  <2>4. trail[s] \in Seq(Entry) /\ i \in Nat /\ i \in 1 .. Len(emitted[s])
    BY DEF TypeOK
  <2>5. /\ Events(Append(trail[s], e)) = Events(trail[s]) \cup {i}
        /\ Classes(Append(trail[s], e), "event") = Classes(trail[s], "event") \cup {c}
        /\ Classes(Append(trail[s], e), "marker") = Classes(trail[s], "marker")
    <3> HIDE DEF e
    <3>1. e = [kind |-> "event", class |-> c, seq |-> i]
      BY DEF e
    <3>2. QED
      BY <2>4, <3>1, AppendEvent
  <2>6. Recorded(s)' = Recorded(s) \cup {i}
    BY <2>3, <2>5 DEF Recorded
  <2>7. Touched(s)' = Touched(s) \cup {c} /\ Marked(s)' = Marked(s)
    BY <2>3, <2>5 DEF Touched, Marked
  <2>8. /\ result[s] = None /\ Touched(s) = committed[s] /\ Marked(s) = {}
        /\ Recorded(s) = 1 .. Len(emitted[s]) \ queued[s]
        /\ \A r \in report : r.scope # s
    BY <2>3 DEF ScopeInv, ResultWhenDone, BookkeepingExact, MarkersExact,
       ReportOnlyWhenReported
  <2>9. 1 .. Len(emitted[s]) \ queued'[s] = (1 .. Len(emitted[s]) \ queued[s]) \cup {i}
    BY <2>3, <2>4, <2>1
  <2>10. ScopeInv(s)' /\ HonestResult(s)'
    BY <2>3, <2>6, <2>7, <2>8, <2>9 DEF ScopeInv, ResultWhenDone, QuietDuringOp,
       BookkeepingExact, MarkersExact, ReportOnlyWhenReported, HonestResult, None
  <2>11. QED
    BY <2>2, <2>10
<1>8. ASSUME NEW c \in Class, SinkTakesMarker(s, c) PROVE Kept(s)
  <2>1. \A t \in Scope \ {s} : SameScope(t)
    BY <1>8 DEF SinkTakesMarker, SameScope, ReportsOf, TypeOK
  <2> DEFINE e == [kind |-> "marker", class |-> c, seq |-> 0]
  <2>2. /\ phase[s] = "rollback" /\ phase'[s] = "rollback"
        /\ result'[s] = result[s] /\ report' = report /\ emitted'[s] = emitted[s]
        /\ committed'[s] = committed[s] /\ failing'[s] = failing[s]
        /\ queued'[s] = queued[s]
        /\ c \in pending[s] /\ pending'[s] = pending[s] \ {c}
        /\ trail'[s] = Append(trail[s], e)
    BY <1>8 DEF SinkTakesMarker, IsNextTarget, TypeOK
  <2>3. trail[s] \in Seq(Entry) /\ pending[s] \subseteq committed[s]
    BY DEF TypeOK
  <2>4. Recorded(s)' = Recorded(s)
    BY <2>2, <2>3, AppendMarker DEF Recorded
  <2>5. Touched(s)' = Touched(s)
    BY <2>2, <2>3, AppendMarker DEF Touched
  <2>6. Marked(s)' = Marked(s) \cup {c}
    BY <2>2, <2>3, AppendMarker DEF Marked
  <2>7. /\ result[s] = None /\ Touched(s) = committed[s]
        /\ Marked(s) = committed[s] \ pending[s]
        /\ Recorded(s) = 1 .. Len(emitted[s]) \ queued[s]
        /\ queued[s] # {} /\ failing[s] \in Class
        /\ \A r \in report : r.scope # s
    BY <2>2 DEF ScopeInv, ResultWhenDone, BookkeepingExact, MarkersExact,
       ReportOnlyWhenReported
  <2>8. Marked(s)' = committed[s] \ pending'[s]
    BY <2>2, <2>3, <2>6, <2>7
  <2>9. ScopeInv(s)' /\ HonestResult(s)'
    BY <2>2, <2>4, <2>5, <2>7, <2>8 DEF ScopeInv, ResultWhenDone, QuietDuringOp,
       BookkeepingExact, MarkersExact, ReportOnlyWhenReported, HonestResult, None
  <2>10. QED
    BY <2>1, <2>9
<1>9. ASSUME NEW c \in Class, BareSinkPanics(s, c) PROVE Kept(s)
  <2>1. \A t \in Scope \ {s} : SameScope(t)
    BY <1>9 DEF BareSinkPanics, Return, SameScope, ReportsOf, TypeOK
  <2>2. /\ phase'[s] = "done" /\ result'[s] = "Unwound"
        /\ trail'[s] = trail[s] /\ committed'[s] = committed[s] /\ report' = report
    BY <1>9 DEF BareSinkPanics, Return, TypeOK
  <2>3. Touched(s)' = Touched(s)
    BY <2>2 DEF Touched
  <2>4. ScopeInv(s)' /\ HonestResult(s)'
    BY <2>2, <2>3 DEF ScopeInv, ResultWhenDone, QuietDuringOp, BookkeepingExact,
       MarkersExact, ReportOnlyWhenReported, HonestResult, None
  <2>5. QED
    BY <2>1, <2>4
<1>10. ASSUME RollbackComplete(s) PROVE Kept(s)
  <2>1. \A t \in Scope \ {s} : SameScope(t)
    BY <1>10 DEF RollbackComplete, Return, SameScope, ReportsOf, sinkVars, TypeOK
  <2>2. /\ phase[s] = "rollback" /\ pending[s] = {}
        /\ phase'[s] = "done" /\ result'[s] = "SinkCommitFailed"
        /\ emitted'[s] = emitted[s] /\ report' = report
        /\ trail'[s] = trail[s] /\ committed'[s] = committed[s]
    BY <1>10 DEF RollbackComplete, Return, sinkVars, TypeOK
  <2>3. Recorded(s)' = Recorded(s) /\ Touched(s)' = Touched(s) /\ Marked(s)' = Marked(s)
    BY <2>2 DEF Recorded, Touched, Marked
  <2>4. /\ Touched(s) = committed[s] /\ Marked(s) = committed[s]
        /\ Recorded(s) = 1 .. Len(emitted[s]) \ queued[s]
        /\ queued[s] # {} /\ queued[s] \subseteq 1 .. Len(emitted[s])
    BY <2>2 DEF ScopeInv, BookkeepingExact, MarkersExact, TypeOK
  <2>5. Recorded(s) # 1 .. Len(emitted[s])
    BY <2>4
  <2>6. ScopeInv(s)' /\ HonestResult(s)'
    BY <2>2, <2>3, <2>4, <2>5 DEF ScopeInv, ResultWhenDone, QuietDuringOp,
       BookkeepingExact, MarkersExact, ReportOnlyWhenReported, HonestResult, None
  <2>7. QED
    BY <2>1, <2>6
<1>11. ASSUME FallbackRecords(s) PROVE Kept(s)
  <2> DEFINE new == [scope |-> s, committed |-> committed[s], failed |-> {failing[s]}]
  <2>1. /\ report' = report \cup {new}
        /\ new.scope = s /\ new.committed = committed[s]
    BY <1>11 DEF FallbackRecords
  <2>2. \A t \in Scope \ {s} : ReportsOf(t)' = ReportsOf(t)
    BY <2>1 DEF ReportsOf
  <2>3. \A t \in Scope \ {s} : SameScope(t)
    BY <1>11, <2>2 DEF FallbackRecords, Return, SameScope, TypeOK
  <2>4. /\ phase[s] = "escalate"
        /\ phase'[s] = "done" /\ result'[s] = "RollbackDispatchFailed"
        /\ trail'[s] = trail[s] /\ committed'[s] = committed[s]
    BY <1>11 DEF FallbackRecords, Return, TypeOK
  <2>5. Touched(s)' = Touched(s) /\ Touched(s) = committed[s]
    BY <2>4 DEF Touched, ScopeInv, BookkeepingExact
  <2>6. \E r \in report' : r.scope = s /\ r.committed = Touched(s)'
    BY <2>1, <2>5
  <2>7. ScopeInv(s)' /\ HonestResult(s)'
    BY <2>4, <2>5, <2>6 DEF ScopeInv, ResultWhenDone, QuietDuringOp,
       BookkeepingExact, MarkersExact, ReportOnlyWhenReported, HonestResult, None
  <2>8. QED
    BY <2>3, <2>7
<1>12. ASSUME FallbackPanics(s) PROVE Kept(s)
  <2>1. \A t \in Scope \ {s} : SameScope(t)
    BY <1>12 DEF FallbackPanics, Return, SameScope, ReportsOf, sinkVars, TypeOK
  <2>2. /\ phase'[s] = "done" /\ result'[s] = "InconsistencyUnrecoverable"
        /\ trail'[s] = trail[s] /\ committed'[s] = committed[s] /\ report' = report
    BY <1>12 DEF FallbackPanics, Return, sinkVars, TypeOK
  <2>3. Touched(s)' = Touched(s)
    BY <2>2 DEF Touched
  <2>4. ScopeInv(s)' /\ HonestResult(s)'
    BY <2>2, <2>3 DEF ScopeInv, ResultWhenDone, QuietDuringOp, BookkeepingExact,
       MarkersExact, ReportOnlyWhenReported, HonestResult, None
  <2>5. QED
    BY <2>1, <2>4
<1>13. CASE \E c \in Class : SinkCall(s, c)
  BY <1>13, <1>5, <1>6, <1>7, <1>8, <1>9 DEF SinkCall
<1>14. QED
  BY <1>13, <1>1, <1>2, <1>3, <1>4, <1>10, <1>11, <1>12 DEF Step, Settle

LEMMA StutterKeeps == ASSUME UNCHANGED vars PROVE \A t \in Scope : SameScope(t)
BY DEF vars, scopeVars, sinkVars, SameScope, ReportsOf

LEMMA StepInv ==
    ASSUME TypeOK, \A s \in Scope : ScopeInv(s) /\ HonestResult(s), [Next]_vars
    PROVE  \A s \in Scope : ScopeInv(s)' /\ HonestResult(s)'
<1>1. ASSUME NEW s \in Scope, Step(s)
      PROVE  \A t \in Scope : ScopeInv(t)' /\ HonestResult(t)'
  BY <1>1, StepKeeps, Frame DEF Kept
<1>2. ASSUME UNCHANGED vars
      PROVE  \A t \in Scope : ScopeInv(t)' /\ HonestResult(t)'
  BY <1>2, StutterKeeps, Frame
<1>3. QED
  BY <1>1, <1>2 DEF Next

-----------------------------------------------------------------------------
(* The bookkeeping, the markers and the result stay exact: the strengthening  *)
(* of ResultIsHonest that every step of composite_audit preserves.            *)
THEOREM InductiveInvariant == Spec => []IInv
<1>1. Init => IInv
  BY InitTypeOK, InitInv DEF IInv
<1>2. IInv /\ [Next]_vars => IInv'
  BY StepTypeOK, StepInv DEF IInv
<1>3. QED
  BY <1>1, <1>2, PTL DEF Spec

(* Every variable of composite_audit's scopes, sinks and guards keeps its     *)
(* type, for any number of scopes and events.                                 *)
THEOREM TypeCorrect == Spec => []TypeOK
<1>1. IInv => TypeOK
  BY DEF IInv
<1>2. QED
  BY <1>1, InductiveInvariant, PTL

(* The result of composite_audit is honest (Ok, SinkCommitFailed and          *)
(* RollbackDispatchFailed mean what they say of the sinks), for any number of *)
(* concurrent scopes sharing the sinks, any events and any sink failures.     *)
THEOREM HonestResults == Spec => []ResultIsHonest
<1>1. IInv => ResultIsHonest
  BY DEF IInv, ResultIsHonest
<1>2. QED
  BY <1>1, InductiveInvariant, PTL

-----------------------------------------------------------------------------
(* The order of the trail.  Only EmitEvent, a sink that takes an entry and a  *)
(* call that fails touch what OrderInv speaks of.                             *)

LEMMA PriorityOrder ==
    /\ \A c \in Class : Priority[c] \in Nat
    /\ \A c, d \in Class : Priority[c] = Priority[d] => c = d
BY DEF Priority, Class

LEMMA SameOrder ==
    ASSUME NEW t \in Scope, OrderInv(t),
           trail'[t] = trail[t], emitted'[t] = emitted[t], pending'[t] = pending[t]
    PROVE  OrderInv(t)'
BY DEF OrderInv, EntriesGenuine, CommitsInOrder, MarkedBelowPending, UnwindsInOrder

LEMMA EmptyOrder == ASSUME NEW t \in Scope, trail[t] = <<>> PROVE OrderInv(t)
BY DEF OrderInv, EntriesGenuine, CommitsInOrder, MarkedBelowPending, UnwindsInOrder

(* Without markers there is nothing to say of markers. *)
LEMMA NoMarkers ==
    ASSUME NEW t \in Scope, Marked(t) = {}
    PROVE  \A k \in DOMAIN trail[t] : trail[t][k].kind # "marker"
BY DEF Marked, Classes

(* One more entry at the end of a trail. *)
LEMMA AppendAt ==
    ASSUME NEW t \in Seq(Entry), NEW e \in Entry
    PROVE  /\ Len(t) \in Nat /\ DOMAIN t = 1 .. Len(t)
           /\ DOMAIN Append(t, e) = 1 .. Len(t) + 1
           /\ \A k \in 1 .. Len(t) : Append(t, e)[k] = t[k]
           /\ Append(t, e)[Len(t) + 1] = e
OBVIOUS

LEMMA EventOrder ==
    ASSUME TypeOK, NEW s \in Scope, NEW c \in Class, ScopeInv(s), OrderInv(s),
           SinkTakesEvent(s, c)
    PROVE  OrderInv(s)'
<1>1. PICK i \in queued[s] :
         /\ IsNextEvent(s, i) /\ emitted[s][i] = c
         /\ trail' = [trail EXCEPT ![s] =
                        Append(@, [kind |-> "event", class |-> c, seq |-> i])]
  BY DEF SinkTakesEvent
<1> DEFINE e == [kind |-> "event", class |-> c, seq |-> i]
           t == trail[s]
           n == Len(t)
<1>2. /\ i \in 1 .. Len(emitted[s]) /\ i \in Nat /\ t \in Seq(Entry)
      /\ queued[s] \subseteq 1 .. Len(emitted[s])
      /\ emitted[s] \in Seq(Class) /\ Len(emitted[s]) \in Nat
      /\ phase[s] = "commit" /\ emitted'[s] = emitted[s] /\ pending'[s] = pending[s]
  BY DEF SinkTakesEvent, TypeOK
<1>3. e \in Entry /\ e.kind = "event" /\ e.class = c /\ e.seq = i
  BY <1>2 DEF Entry
<1>4. trail'[s] = Append(t, e)
  BY <1>1 DEF TypeOK
<1> HIDE DEF e
<1>5. /\ n \in Nat /\ DOMAIN t = 1 .. n /\ DOMAIN trail'[s] = 1 .. n + 1
      /\ \A k \in 1 .. n : trail'[s][k] = t[k]
      /\ trail'[s][n + 1] = e
  BY <1>2, <1>3, <1>4, AppendAt
<1>6. \A k \in 1 .. n : t[k].kind # "marker"
  BY <1>2, <1>5, NoMarkers DEF ScopeInv, MarkersExact
<1>7. \A k \in DOMAIN trail'[s] : trail'[s][k].kind # "marker"
  BY <1>3, <1>5, <1>6
<1>8. EntriesGenuine(s)'
  BY <1>1, <1>2, <1>3, <1>5 DEF OrderInv, EntriesGenuine
<1>9. CommitsInOrder(s)'
  <2> SUFFICES ASSUME NEW k \in DOMAIN trail'[s], trail'[s][k].kind = "event",
                      NEW j \in 1 .. Len(emitted'[s]),
                      \/ Priority[emitted'[s][j]] < Priority[trail'[s][k].class]
                      \/ emitted'[s][j] = trail'[s][k].class /\ j < trail'[s][k].seq
               PROVE  \E m \in 1 .. (k - 1) :
                          trail'[s][m].kind = "event" /\ trail'[s][m].seq = j
    BY Zenon DEF CommitsInOrder
  <2>0. /\ k \in 1 .. n + 1 /\ j \in 1 .. Len(emitted[s]) /\ emitted'[s] = emitted[s]
        /\ \/ Priority[emitted[s][j]] < Priority[trail'[s][k].class]
           \/ emitted[s][j] = trail'[s][k].class /\ j < trail'[s][k].seq
    BY <1>2, <1>5
  <2>1. CASE k \in 1 .. n
    <3>1. \E m \in 1 .. (k - 1) : t[m].kind = "event" /\ t[m].seq = j
      BY <2>0, <2>1, <1>5 DEF OrderInv, CommitsInOrder
    <3>2. \A m \in 1 .. (k - 1) : trail'[s][m] = t[m]
      BY <2>1, <1>5
    <3>3. QED
      BY <3>1, <3>2
  <2>2. CASE k = n + 1
    <3>1. \/ Priority[emitted[s][j]] < Priority[c]
          \/ emitted[s][j] = c /\ j < i
      BY <2>0, <2>2, <1>3, <1>5
    <3>2. Priority[c] \in Nat /\ Priority[emitted[s][j]] \in Nat /\ emitted[s][j] \in Class
      BY <2>0, <1>2, PriorityOrder
    <3>3. ~Before(s, i, j) /\ j # i
      BY <1>1, <1>2, <3>1, <3>2 DEF Before
    <3>4. j \notin queued[s]
      BY <1>1, <3>3 DEF IsNextEvent
    <3>5. j \in Events(t)
      BY <2>0, <1>2, <3>4 DEF ScopeInv, BookkeepingExact, Recorded
    <3>6. PICK m \in 1 .. n : t[m].kind = "event" /\ t[m].seq = j
      BY <3>5, <1>5 DEF Events
    <3>7. m \in 1 .. (k - 1) /\ trail'[s][m] = t[m]
      BY <2>2, <1>5
    <3>8. QED
      BY <3>6, <3>7
  <2>3. QED
    BY <2>0, <2>1, <2>2, <1>5
<1>10. MarkedBelowPending(s)' /\ UnwindsInOrder(s)'
  BY <1>7 DEF MarkedBelowPending, UnwindsInOrder
<1>11. QED
  BY <1>8, <1>9, <1>10 DEF OrderInv

LEMMA MarkerOrder ==
    ASSUME TypeOK, NEW s \in Scope, NEW c \in Class, OrderInv(s), SinkTakesMarker(s, c)
    PROVE  OrderInv(s)'
<1> DEFINE e == [kind |-> "marker", class |-> c, seq |-> 0]
           t == trail[s]
           n == Len(t)
<1>1. /\ t \in Seq(Entry) /\ trail'[s] = Append(t, e) /\ emitted'[s] = emitted[s]
      /\ pending'[s] = pending[s] \ {c} /\ IsNextTarget(s, c) /\ pending[s] \subseteq Class
  BY DEF SinkTakesMarker, TypeOK
<1>2. e \in Entry /\ e.kind = "marker" /\ e.class = c
  BY DEF Entry
<1> HIDE DEF e
<1>3. /\ n \in Nat /\ DOMAIN t = 1 .. n /\ DOMAIN trail'[s] = 1 .. n + 1
      /\ \A k \in 1 .. n : trail'[s][k] = t[k]
      /\ trail'[s][n + 1] = e
  BY <1>1, <1>2, AppendAt
<1>4. EntriesGenuine(s)'
  BY <1>1, <1>2, <1>3 DEF OrderInv, EntriesGenuine
<1>5. CommitsInOrder(s)'
  <2> SUFFICES ASSUME NEW k \in DOMAIN trail'[s], trail'[s][k].kind = "event",
                      NEW j \in 1 .. Len(emitted'[s]),
                      \/ Priority[emitted'[s][j]] < Priority[trail'[s][k].class]
                      \/ emitted'[s][j] = trail'[s][k].class /\ j < trail'[s][k].seq
               PROVE  \E m \in 1 .. (k - 1) :
                          trail'[s][m].kind = "event" /\ trail'[s][m].seq = j
    BY Zenon DEF CommitsInOrder
  <2>0. /\ k \in 1 .. n + 1 /\ j \in 1 .. Len(emitted[s]) /\ emitted'[s] = emitted[s]
        /\ \/ Priority[emitted[s][j]] < Priority[trail'[s][k].class]
           \/ emitted[s][j] = trail'[s][k].class /\ j < trail'[s][k].seq
    BY <1>1, <1>3
  <2>1. k \in 1 .. n
    BY <2>0, <1>2, <1>3
  <2>2. \E m \in 1 .. (k - 1) : t[m].kind = "event" /\ t[m].seq = j
    BY <2>0, <2>1, <1>3 DEF OrderInv, CommitsInOrder
  <2>3. \A m \in 1 .. (k - 1) : trail'[s][m] = t[m]
    <3>1. n \in Nat /\ k \in Nat /\ k <= n
      BY <2>1, <1>3
    <3>2. 1 .. (k - 1) \subseteq 1 .. n
      BY <3>1
    <3>3. QED
      BY <3>2, <1>3
  <2>4. QED
    BY <2>2, <2>3
<1>6. \A d \in pending'[s] : Priority[d] < Priority[c]
  <2>1. \A d \in pending[s] \ {c} : Priority[d] <= Priority[c] /\ Priority[d] # Priority[c]
    BY <1>1, PriorityOrder DEF IsNextTarget
  <2>2. QED
    BY <1>1, <2>1, PriorityOrder
<1>7. MarkedBelowPending(s)'
  <2>1. \A k \in 1 .. n : \A d \in pending[s] :
            t[k].kind = "marker" => Priority[d] < Priority[t[k].class]
    BY <1>3 DEF OrderInv, MarkedBelowPending
  <2>2. QED
    BY <1>1, <1>2, <1>3, <1>6, <2>1 DEF MarkedBelowPending
<1>8. UnwindsInOrder(s)'
  <2>1. \A k \in 1 .. n : t[k].kind = "marker" => Priority[c] < Priority[t[k].class]
    BY <1>1, <1>3 DEF OrderInv, MarkedBelowPending, IsNextTarget
  <2>2. \A k, m \in 1 .. n : k < m /\ t[k].kind = "marker" =>
            t[m].kind = "marker" /\ Priority[t[m].class] < Priority[t[k].class]
    BY <1>3 DEF OrderInv, UnwindsInOrder
  <2>3. ASSUME NEW k \in 1 .. n + 1, NEW m \in 1 .. n + 1, k < m,
               trail'[s][k].kind = "marker"
        PROVE  /\ trail'[s][m].kind = "marker"
               /\ Priority[trail'[s][m].class] < Priority[trail'[s][k].class]
    <3>1. k \in 1 .. n /\ trail'[s][k] = t[k]
      BY <2>3, <1>3
    <3>2. CASE m \in 1 .. n
      BY <3>1, <3>2, <2>2, <2>3, <1>3
    <3>3. CASE m = n + 1
      BY <3>1, <3>3, <2>1, <2>3, <1>2, <1>3
    <3>4. QED
      BY <3>2, <3>3, <1>3
  <2>4. QED
    BY <2>3, <1>3 DEF UnwindsInOrder
<1>9. QED
  BY <1>4, <1>5, <1>7, <1>8 DEF OrderInv

(* A call that fails in the commit phase picks the rollback targets before    *)
(* any marker is sent.                                                        *)
LEMMA FailedOrder ==
    ASSUME TypeOK, NEW s \in Scope, NEW c \in Class, ScopeInv(s), OrderInv(s),
           CallFailed(s, c)
    PROVE  OrderInv(s)'
<1>1. trail'[s] = trail[s] /\ emitted'[s] = emitted[s]
  BY DEF CallFailed
<1>2. CASE phase[s] = "commit"
  <2>1. \A k \in DOMAIN trail[s] : trail[s][k].kind # "marker"
    BY <1>2, NoMarkers DEF ScopeInv, MarkersExact
  <2>2. QED
    BY <1>1, <2>1 DEF OrderInv, EntriesGenuine, CommitsInOrder, MarkedBelowPending,
       UnwindsInOrder
<1>3. CASE phase[s] # "commit"
  BY <1>1, <1>3, SameOrder DEF CallFailed
<1>4. QED
  BY <1>2, <1>3

LEMMA StepOrder ==
    ASSUME TypeOK, \A s \in Scope : ScopeInv(s) /\ HonestResult(s),
           \A s \in Scope : OrderInv(s), NEW s \in Scope, Step(s)
    PROVE  \A t \in Scope : OrderInv(t)'
<1>1. \A t \in Scope \ {s} : OrderInv(t)'
  BY StepKeeps, SameOrder DEF Kept, SameScope
<1>2. ASSUME NEW c \in Class, EmitEvent(s, c) PROVE OrderInv(s)'
  <2>1. trail'[s] = <<>>
    BY <1>2 DEF EmitEvent, sinkVars, ScopeInv, QuietDuringOp
  <2>2. QED
    BY <2>1 DEF OrderInv, EntriesGenuine, CommitsInOrder, MarkedBelowPending, UnwindsInOrder
<1>3. ASSUME OpFails(s) \/ OpSucceeds(s) \/ CommitComplete(s) \/ RollbackComplete(s)
                \/ FallbackRecords(s) \/ FallbackPanics(s)
      PROVE  OrderInv(s)'
  <2>1. trail'[s] = trail[s] /\ emitted'[s] = emitted[s] /\ pending'[s] = pending[s]
    BY <1>3 DEF OpFails, OpSucceeds, CommitComplete, RollbackComplete, FallbackRecords,
       FallbackPanics, sinkVars
  <2>2. QED
    BY <2>1, SameOrder
<1>4. ASSUME NEW c \in Class, SinkCall(s, c) PROVE OrderInv(s)'
  <2>1. CASE EnterSink(s, c) \/ GuardedSinkPanics(s, c) \/ BareSinkPanics(s, c)
    BY <2>1, SameOrder DEF EnterSink, GuardedSinkPanics, BareSinkPanics, sinkVars
  <2>2. CASE SinkTerminated(s, c) \/ SinkRejects(s, c) \/ GuardTerminates(s, c)
    BY <2>2, FailedOrder DEF SinkTerminated, SinkRejects, GuardTerminates
  <2>3. CASE SinkTakesEvent(s, c)
    BY <2>3, EventOrder
  <2>4. CASE SinkTakesMarker(s, c)
    BY <2>4, MarkerOrder
  <2>5. QED
    BY <1>4, <2>1, <2>2, <2>3, <2>4 DEF SinkCall
<1>5. OrderInv(s)'
  BY <1>2, <1>3, <1>4 DEF Step, Settle
<1>6. QED
  BY <1>1, <1>5

(* Commits and markers stay in order: the strengthening of PrivilegedFirst    *)
(* and MarkersUnwindCommits that every step of composite_audit preserves,     *)
(* given that the bookkeeping is exact.                                       *)
THEOREM OrderInvariant == Spec => [](\A s \in Scope : OrderInv(s))
<1>1. Init => \A s \in Scope : OrderInv(s)
  BY EmptyOrder DEF Init
<1>2. IInv /\ (\A s \in Scope : OrderInv(s)) /\ [Next]_vars => (\A s \in Scope : OrderInv(s))'
  <2> SUFFICES ASSUME IInv, \A s \in Scope : OrderInv(s), [Next]_vars
               PROVE  \A s \in Scope : OrderInv(s)'
    OBVIOUS
  <2>1. CASE Next
    BY <2>1, StepOrder DEF IInv, Next
  <2>2. CASE UNCHANGED vars
    BY <2>2, SameOrder DEF vars, scopeVars, sinkVars
  <2>3. QED
    BY <2>1, <2>2
<1>3. QED
  BY <1>1, <1>2, InductiveInvariant, PTL DEF Spec

(* The sort of drain_queued_events reaches the sinks: for any number of       *)
(* scopes and events and whatever sinks fail or panic in between, no sink     *)
(* holds an event of a scope before the sinks of its more privileged events   *)
(* and before its own earlier ones.                                           *)
THEOREM CommitOrder == Spec => []PrivilegedFirst
<1>1. (\A s \in Scope : OrderInv(s)) => PrivilegedFirst
  BY DEF OrderInv, PrivilegedFirst
<1>2. QED
  BY <1>1, OrderInvariant, PTL

(* handle_rollback's reverse walk: once a marker of a scope is in a sink, only *)
(* markers follow, to ever more privileged classes, and no class gets two.    *)
THEOREM RollbackOrder == Spec => []MarkersUnwindCommits
<1>1. (\A s \in Scope : OrderInv(s)) => MarkersUnwindCommits
  BY DEF OrderInv, MarkersUnwindCommits
<1>2. QED
  BY <1>1, OrderInvariant, PTL

-----------------------------------------------------------------------------
(* The refinement of AuditTrail.                                              *)

(* What AuditTrail sees of scope t is unchanged. *)
SameTrail(t) ==
    /\ Touched(t)' = Touched(t)   /\ Marked(t)' = Marked(t)
    /\ Told(t)' = Told(t)         /\ Outcome(t)' = Outcome(t)

LEMMA SameScopeSameTrail ==
    ASSUME NEW t \in Scope, SameScope(t) PROVE SameTrail(t)
<1>1. Touched(t)' = Touched(t) /\ Marked(t)' = Marked(t) /\ Outcome(t)' = Outcome(t)
  BY DEF SameScope, Touched, Marked, Outcome
<1>2. Told(t)' = Told(t)
  BY DEF SameScope, ReportsOf, Told
<1>3. QED
  BY <1>1, <1>2 DEF SameTrail

(* A call that has not returned is open. *)
LEMMA OpenOutcome == ASSUME NEW s \in Scope, result[s] = None PROVE Outcome(s) = "open"
BY DEF Outcome, None

LEMMA TrailInit == Init => Trail!Init
<1> SUFFICES ASSUME Init PROVE Trail!Init
  OBVIOUS
<1>1. ASSUME NEW s \in Scope
      PROVE  Touched(s) = {} /\ Marked(s) = {} /\ Told(s) = {} /\ Outcome(s) = "open"
  <2>1. result[s] = None /\ trail[s] = <<>> /\ report = {}
    BY DEF Init
  <2>2. Outcome(s) = "open"
    BY <2>1, OpenOutcome
  <2>3. QED
    BY <2>1, <2>2, EmptyTrail DEF Touched, Marked, Told
<1>2. QED
  BY <1>1 DEF Trail!Init

(* The reports about a scope that has not returned are none, so its one       *)
(* report is all the fallback sink is told.                                   *)
LEMMA ToldOnce ==
    ASSUME NEW s \in Scope, \A r \in report : r.scope # s, NEW new, new.scope = s,
           report' = report \cup {new}
    PROVE  Told(s) = {} /\ Told(s)' = new.committed
<1>1. {r \in report : r.scope = s} = {} /\ {r \in report' : r.scope = s} = {new}
  OBVIOUS
<1>2. QED
  BY <1>1 DEF Told

LEMMA TrailStep ==
    ASSUME TypeOK, \A s \in Scope : ScopeInv(s) /\ HonestResult(s),
           NEW s \in Scope, Step(s)
    PROVE  Trail!Next \/ UNCHANGED Trail!vars
<1>1. \A t \in Scope \ {s} : SameTrail(t)
  BY StepKeeps, SameScopeSameTrail DEF Kept
<1>2. ASSUME SameTrail(s) PROVE UNCHANGED Trail!vars
  BY <1>1, <1>2 DEF SameTrail, Trail!vars
<1>3. ASSUME NEW c \in Class, EmitEvent(s, c) PROVE SameTrail(s)
  <2>1. /\ trail'[s] = trail[s] /\ report' = report /\ result'[s] = result[s]
    BY <1>3 DEF EmitEvent, sinkVars
  <2>2. QED
    BY <2>1 DEF SameTrail, Touched, Marked, Told, Outcome
<1>4. ASSUME OpSucceeds(s) \/ (\E c \in Class : EnterSink(s, c) \/ GuardedSinkPanics(s, c)
                                  \/ SinkTerminated(s, c) \/ SinkRejects(s, c)
                                  \/ GuardTerminates(s, c))
      PROVE  SameTrail(s)
  <2>1. /\ trail'[s] = trail[s] /\ report' = report /\ result'[s] = result[s]
    BY <1>4 DEF OpSucceeds, EnterSink, GuardedSinkPanics, SinkTerminated, SinkRejects,
       GuardTerminates, CallFailed, sinkVars
  <2>2. QED
    BY <2>1 DEF SameTrail, Touched, Marked, Told, Outcome
(* A step that returns with result r and leaves sinks and fallback alone.     *)
<1>5. ASSUME NEW r \in Results, Return(s, r), phase[s] # "done",
             trail'[s] = trail[s], report' = report
      PROVE  /\ Touched(s)' = Touched(s) /\ Marked(s)' = Marked(s) /\ Told(s)' = Told(s)
             /\ Outcome(s) = "open" /\ result'[s] = r
  <2>1. result[s] = None
    BY <1>5 DEF ScopeInv, ResultWhenDone
  <2>2. Outcome(s) = "open"
    BY <2>1, OpenOutcome
  <2>3. QED
    BY <1>5, <2>2 DEF Return, Touched, Marked, Told, TypeOK
<1>6. ASSUME NEW o, Outcome(s)' = o, Outcome(s) = "open",
             Touched(s)' = Touched(s), Marked(s)' = Marked(s)
      PROVE  Trail!Close(s, o)
  BY <1>1, <1>6 DEF Trail!Close, SameTrail
<1>7. ASSUME Told(s)' = Told(s)
      PROVE  [t \in Scope |-> Told(t)]' = [t \in Scope |-> Told(t)]
  BY <1>1, <1>7 DEF SameTrail
<1>8. CASE OpFails(s)
  <2>1. PICK r \in {"OpError", "Dropped"} : Return(s, r)
    BY <1>8 DEF OpFails
  <2>2. /\ phase[s] = "op" /\ trail'[s] = trail[s] /\ report' = report
    BY <1>8 DEF OpFails, sinkVars
  <2>3. /\ Touched(s)' = Touched(s) /\ Marked(s)' = Marked(s) /\ Told(s)' = Told(s)
        /\ Outcome(s) = "open" /\ result'[s] = r
    BY <2>1, <2>2, <1>5 DEF Results
  <2>4. Outcome(s)' = "absent"
    BY <2>1, <2>3 DEF Outcome, None
  <2>5. Touched(s) = {}
    BY <2>2, EmptyTrail DEF ScopeInv, QuietDuringOp, Touched
  <2>6. Trail!CloseAbsent(s)
    BY <2>3, <2>4, <2>5, <1>6, <1>7 DEF Trail!CloseAbsent
  <2>7. QED
    BY <2>6 DEF Trail!Next
<1>9. CASE CommitComplete(s)
  <2>1. /\ phase[s] = "commit" /\ trail'[s] = trail[s] /\ report' = report
        /\ Return(s, "Ok")
    BY <1>9 DEF CommitComplete, sinkVars
  <2>2. /\ Touched(s)' = Touched(s) /\ Marked(s)' = Marked(s) /\ Told(s)' = Told(s)
        /\ Outcome(s) = "open" /\ result'[s] = "Ok"
    BY <2>1, <1>5 DEF Results
  <2>3. Outcome(s)' = "recorded"
    BY <2>2 DEF Outcome, None
  <2>4. Marked(s) = {}
    BY <2>1 DEF ScopeInv, MarkersExact
  <2>5. Trail!CloseRecorded(s)
    BY <2>2, <2>3, <2>4, <1>6, <1>7 DEF Trail!CloseRecorded
  <2>6. QED
    BY <2>5 DEF Trail!Next
<1>10. CASE RollbackComplete(s)
  <2>1. /\ phase[s] = "rollback" /\ pending[s] = {} /\ trail'[s] = trail[s]
        /\ report' = report /\ Return(s, "SinkCommitFailed")
    BY <1>10 DEF RollbackComplete, sinkVars
  <2>2. /\ Touched(s)' = Touched(s) /\ Marked(s)' = Marked(s) /\ Told(s)' = Told(s)
        /\ Outcome(s) = "open" /\ result'[s] = "SinkCommitFailed"
    BY <2>1, <1>5 DEF Results
  <2>3. Outcome(s)' = "retracted"
    BY <2>2 DEF Outcome, None
  <2>4. Marked(s) = Touched(s)
    BY <2>1 DEF ScopeInv, MarkersExact, BookkeepingExact
  <2>5. Trail!CloseRetracted(s)
    BY <2>2, <2>3, <2>4, <1>6, <1>7 DEF Trail!CloseRetracted
  <2>6. QED
    BY <2>5 DEF Trail!Next
<1>11. CASE FallbackPanics(s) \/ \E c \in Class : BareSinkPanics(s, c)
  <2>1. PICK r \in {"InconsistencyUnrecoverable", "Unwound"} :
           /\ Return(s, r) /\ phase[s] # "done"
           /\ trail'[s] = trail[s] /\ report' = report
    BY <1>11 DEF FallbackPanics, BareSinkPanics, Calling, sinkVars
  <2>2. /\ Touched(s)' = Touched(s) /\ Marked(s)' = Marked(s) /\ Told(s)' = Told(s)
        /\ Outcome(s) = "open" /\ result'[s] = r
    BY <2>1, <1>5 DEF Results
  <2>3. Outcome(s)' = "torn"
    BY <2>1, <2>2 DEF Outcome, None
  <2>4. Trail!CloseTorn(s)
    BY <2>2, <2>3, <1>6, <1>7 DEF Trail!CloseTorn
  <2>5. QED
    BY <2>4 DEF Trail!Next
<1>12. CASE FallbackRecords(s)
  <2> DEFINE new == [scope |-> s, committed |-> committed[s], failed |-> {failing[s]}]
  <2>1. /\ phase[s] = "escalate" /\ trail'[s] = trail[s]
        /\ result'[s] = "RollbackDispatchFailed"
        /\ report' = report \cup {new}
    BY <1>12 DEF FallbackRecords, Return, TypeOK
  <2>2. /\ result[s] = None /\ \A r \in report : r.scope # s
        /\ Touched(s) = committed[s]
    BY <2>1 DEF ScopeInv, ResultWhenDone, ReportOnlyWhenReported, BookkeepingExact
  <2>3. Touched(s)' = Touched(s) /\ Marked(s)' = Marked(s)
    BY <2>1 DEF Touched, Marked
  <2>4. Outcome(s) = "open" /\ Outcome(s)' = "reported"
    BY <2>1, <2>2 DEF Outcome, None
  <2>5. Told(s)' = Touched(s)
    BY <2>1, <2>2, ToldOnce
  <2>6. [t \in Scope |-> Told(t)]' = [[t \in Scope |-> Told(t)] EXCEPT ![s] = Touched(s)]
    BY <2>5, <1>1 DEF SameTrail
  <2>7. Trail!CloseReported(s)
    BY <2>3, <2>4, <2>6, <1>6 DEF Trail!CloseReported
  <2>8. QED
    BY <2>7 DEF Trail!Next
<1>13. ASSUME NEW c \in Class, SinkTakesEvent(s, c) PROVE Trail!Next
  <2>1. PICK i \in queued[s] :
           trail' = [trail EXCEPT ![s] =
                       Append(@, [kind |-> "event", class |-> c, seq |-> i])]
    BY <1>13 DEF SinkTakesEvent
  <2>2. /\ phase[s] = "commit" /\ result'[s] = result[s] /\ report' = report
        /\ trail[s] \in Seq(Entry) /\ i \in Nat
        /\ trail'[s] = Append(trail[s], [kind |-> "event", class |-> c, seq |-> i])
    BY <1>13, <2>1 DEF SinkTakesEvent, TypeOK
  <2> DEFINE e == [kind |-> "event", class |-> c, seq |-> i]
  <2>3. Touched(s)' = Touched(s) \cup {c} /\ Marked(s)' = Marked(s)
    <3> HIDE DEF e
    <3>1. e = [kind |-> "event", class |-> c, seq |-> i]
      BY DEF e
    <3>2. /\ Classes(Append(trail[s], e), "event") = Classes(trail[s], "event") \cup {c}
          /\ Classes(Append(trail[s], e), "marker") = Classes(trail[s], "marker")
      BY <2>2, <3>1, AppendEvent
    <3>3. QED
      BY <2>2, <3>1, <3>2 DEF Touched, Marked
  <2>4. result[s] = None /\ Marked(s) = {}
    BY <2>2 DEF ScopeInv, ResultWhenDone, MarkersExact
  <2>5. Outcome(s) = "open" /\ Outcome(s)' = Outcome(s) /\ Told(s)' = Told(s)
    <3>1. Outcome(s)' = Outcome(s)
      BY <2>2 DEF Outcome
    <3>2. QED
      BY <2>2, <2>4, <3>1, OpenOutcome DEF Told
  <2>6. Trail!Record(s, c)
    BY <1>1, <2>3, <2>4, <2>5 DEF SameTrail, Trail!Record
  <2>7. QED
    BY <2>6 DEF Trail!Next
<1>14. ASSUME NEW c \in Class, SinkTakesMarker(s, c) PROVE Trail!Next
  <2>1. /\ phase[s] = "rollback" /\ result'[s] = result[s] /\ report' = report
        /\ trail[s] \in Seq(Entry) /\ c \in pending[s] /\ c \in committed[s]
        /\ trail'[s] = Append(trail[s], [kind |-> "marker", class |-> c, seq |-> 0])
    BY <1>14 DEF SinkTakesMarker, IsNextTarget, TypeOK
  <2>2. Touched(s)' = Touched(s) /\ Marked(s)' = Marked(s) \cup {c}
    BY <2>1, AppendMarker DEF Touched, Marked
  <2>3. result[s] = None /\ Touched(s) = committed[s] /\ Marked(s) = committed[s] \ pending[s]
    BY <2>1 DEF ScopeInv, ResultWhenDone, BookkeepingExact, MarkersExact
  <2>4. Outcome(s) = "open" /\ Outcome(s)' = Outcome(s) /\ Told(s)' = Told(s)
    <3>1. Outcome(s)' = Outcome(s)
      BY <2>1 DEF Outcome
    <3>2. QED
      BY <2>1, <2>3, <3>1, OpenOutcome DEF Told
  <2>5. Trail!Mark(s, c)
    BY <1>1, <2>1, <2>2, <2>3, <2>4 DEF SameTrail, Trail!Mark
  <2>6. QED
    BY <2>5 DEF Trail!Next
<1>15. CASE \E c \in Class : SinkCall(s, c)
  BY <1>15, <1>2, <1>4, <1>11, <1>13, <1>14 DEF SinkCall
<1>16. QED
  BY <1>15, <1>2, <1>3, <1>4, <1>8, <1>9, <1>10, <1>11, <1>12 DEF Step, Settle

(* composite_audit implements AuditTrail: whatever the sinks do, the classes  *)
(* a scope touched are all valid, all marked, all reported, or torn with the  *)
(* caller's knowledge, and nothing changes once the call has returned.        *)
THEOREM ImplementsAuditTrail == Spec => AuditTrailContract
<1>1. IInv /\ [Next]_vars => [Trail!Next]_(Trail!vars)
  <2> SUFFICES ASSUME IInv, [Next]_vars PROVE Trail!Next \/ UNCHANGED Trail!vars
    OBVIOUS
  <2>1. CASE Next
    BY <2>1, TrailStep DEF IInv, Next
  <2>2. CASE UNCHANGED vars
    BY <2>2, StutterKeeps, SameScopeSameTrail DEF SameTrail, Trail!vars
  <2>3. QED
    BY <2>1, <2>2
<1>2. QED
  BY <1>1, TrailInit, InductiveInvariant, PTL DEF Spec, AuditTrailContract, Trail!Spec
=============================================================================
