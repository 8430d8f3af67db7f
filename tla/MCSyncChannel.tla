---------------------------- MODULE MCSyncChannel ---------------------------
(* A model-checking instance of SyncChannel. *)
EXTENDS SyncChannel, TLC

CONSTANTS c1, c2, s1, s2, s3

(* Two connections to one responder or to two, and from one initiator. *)
MCEnds == {<<s1, s2>>, <<s1, s3>>}

(* The connections are interchangeable, and so are the responders. *)
Symmetry == Permutations({c1, c2}) \cup Permutations({s2, s3})

(* A proper window, and one whose end lies before its start. *)
MCWindow == {<<0, 1>>}
MCInverted == {<<1, 0>>}
=============================================================================
