----------------------- MODULE CompositeAuditInvariant ----------------------
(***************************************************************************)
(* The inductive invariants behind ResultIsHonest, AuditTrailContract,     *)
(* PrivilegedFirst and MarkersUnwindCommits, proved inductive in           *)
(* CompositeAuditProofs.                                                   *)
(***************************************************************************)
EXTENDS CompositeAudit

(* A scope has a result exactly when its call has returned. *)
ResultWhenDone(s) == (result[s] # None) <=> (phase[s] = "done")

(* No sink is touched before the operation returns. *)
QuietDuringOp(s) ==
    phase[s] = "op" => trail[s] = <<>> /\ committed[s] = {}

(* The bookkeeping of the scope agrees with what the sinks hold. *)
BookkeepingExact(s) ==
    /\ Touched(s) = committed[s]
    /\ phase[s] \in {"commit", "rollback", "escalate"} =>
          Recorded(s) = 1 .. Len(emitted[s]) \ queued[s]

(* Markers appear only once a commit failed, and then exactly for the       *)
(* targets the rollback loop has passed.                                    *)
MarkersExact(s) ==
    /\ phase[s] \in {"op", "commit"} => Marked(s) = {}
    /\ phase[s] \in {"rollback", "escalate"} =>
          /\ queued[s] # {}
          /\ failing[s] \in Class
          /\ Marked(s) = committed[s] \ pending[s]

(* The fallback is told of a scope only by the step that ends it. *)
ReportOnlyWhenReported(s) ==
    phase[s] # "done" => \A r \in report : r.scope # s

(* Everything the bookkeeping must satisfy between two steps for the result *)
(* to be honest when the call returns.                                      *)
ScopeInv(s) ==
    /\ ResultWhenDone(s)
    /\ QuietDuringOp(s)
    /\ BookkeepingExact(s)
    /\ MarkersExact(s)
    /\ ReportOnlyWhenReported(s)

IInv == TypeOK /\ \A s \in Scope : ScopeInv(s) /\ HonestResult(s)

(* An event entry names an event of the scope and its class. *)
EntriesGenuine(s) ==
    \A k \in DOMAIN trail[s] : trail[s][k].kind = "event" =>
        /\ trail[s][k].seq \in 1 .. Len(emitted[s])
        /\ trail[s][k].class = emitted[s][trail[s][k].seq]

(* The classes still to be marked are more privileged than all marked ones. *)
MarkedBelowPending(s) ==
    \A k \in DOMAIN trail[s] : \A c \in pending[s] :
        trail[s][k].kind = "marker" => Priority[c] < Priority[trail[s][k].class]

(* What the order of commits and markers rests on, besides the bookkeeping. *)
OrderInv(s) ==
    /\ EntriesGenuine(s) /\ CommitsInOrder(s)
    /\ MarkedBelowPending(s) /\ UnwindsInOrder(s)
=============================================================================
