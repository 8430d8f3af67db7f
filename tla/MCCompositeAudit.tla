-------------------------- MODULE MCCompositeAudit --------------------------
(* Model-checking instance of CompositeAudit, with its inductive invariant. *)
EXTENDS CompositeAuditInvariant, TLC

CONSTANTS s1, s2

(* One operation long enough to unwind two commits, and a short one that    *)
(* shares its sinks.                                                         *)
MCMaxEvents == s1 :> 3 @@ s2 :> 1
=============================================================================
