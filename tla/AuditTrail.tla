----------------------------- MODULE AuditTrail -----------------------------
(***************************************************************************)
(* What composite_audit promises (the numbered contract in the doc comment *)
(* of src/audit/composite.rs, read off its code): of the audit classes a   *)
(* scope touched, either all stay valid, or all are marked, or the         *)
(* fallback sink is told of all of them, or the caller is told that the    *)
(* trail is torn.  No order, no queue and no sink failure appears here.    *)
(***************************************************************************)
CONSTANTS Scope, Class

VARIABLES
    touched,  \* classes whose sink holds an event of the scope
    marked,   \* classes whose sink holds the scope's rollback marker
    told,     \* classes the fallback sink was told of
    outcome   \* what the caller knows

vars == <<touched, marked, told, outcome>>

Outcomes == {"open", "recorded", "absent", "retracted", "reported", "torn"}

Init ==
    /\ touched = [s \in Scope |-> {}]
    /\ marked = [s \in Scope |-> {}]
    /\ told = [s \in Scope |-> {}]
    /\ outcome = [s \in Scope |-> "open"]

(* A class takes an event; never after the scope began to unwind. *)
Record(s, c) ==
    /\ outcome[s] = "open"
    /\ marked[s] = {}
    /\ touched' = [touched EXCEPT ![s] = @ \cup {c}]
    /\ UNCHANGED <<marked, told, outcome>>

(* A class that holds an event takes its one marker. *)
Mark(s, c) ==
    /\ outcome[s] = "open"
    /\ c \in touched[s] \ marked[s]
    /\ marked' = [marked EXCEPT ![s] = @ \cup {c}]
    /\ UNCHANGED <<touched, told, outcome>>

Close(s, o) ==
    /\ outcome[s] = "open"
    /\ outcome' = [outcome EXCEPT ![s] = o]
    /\ UNCHANGED <<touched, marked>>

(* Success: everything stays valid. *)
CloseRecorded(s) == marked[s] = {} /\ Close(s, "recorded") /\ UNCHANGED told

(* The operation failed: nothing was written. *)
CloseAbsent(s) == touched[s] = {} /\ Close(s, "absent") /\ UNCHANGED told

(* Rolled back: every class that holds an event holds the marker. *)
CloseRetracted(s) == marked[s] = touched[s] /\ Close(s, "retracted") /\ UNCHANGED told

(* Rollback failed: the fallback sink knows every class that holds an event. *)
CloseReported(s) ==
    /\ Close(s, "reported")
    /\ told' = [told EXCEPT ![s] = touched[s]]

(* The trail may be torn, and the caller knows. *)
CloseTorn(s) == Close(s, "torn") /\ UNCHANGED told

Next ==
    \E s \in Scope :
        \/ \E c \in Class : Record(s, c) \/ Mark(s, c)
        \/ CloseRecorded(s) \/ CloseAbsent(s) \/ CloseRetracted(s)
        \/ CloseReported(s) \/ CloseTorn(s)

Spec == Init /\ [][Next]_vars
=============================================================================
