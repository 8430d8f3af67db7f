---- MODULE MCBindPipeline ----
(* BindPipeline on a small instance: one proof of one capability of every   *)
(* profile v1.rs declares.  Binds share no state but the oracles, which one *)
(* proof already reads in every order.                                      *)
EXTENDS BindPipeline

MCKind == {"ViewPrivate", "EditPrivatePost", "DeletePrivatePost",
           "EmitToSyncChannel", "ScanShard", "ModeratorTakedown"}
====
