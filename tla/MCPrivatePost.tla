---------------------------- MODULE MCPrivatePost ----------------------------
(* A model-checking instance of PrivatePost. *)
EXTENDS PrivatePost, TLC

CONSTANTS here, there, everyone, nobody, c1, c2

(* The calls are interchangeable, and so are the audiences.                   *)
Symmetry ==
    Permutations({c1, c2}) \cup Permutations({everyone, nobody})

MCPost ==
    {[text |-> 1, mentions |-> {}, embed |-> "none"],
     [text |-> 2, mentions |-> {"alice"}, embed |-> "recordWithImages"]}

(* Time counts for stamps alone, and no call has a part in another's: there   *)
(* laquna is installed from the start, and short posts are written to one     *)
(* place, one after the other, with no reads.                                 *)
Stamping ==
    /\ moves = 0 /\ hooks.rotation /\ store[there].text = 1
    /\ \A c \in Call :
          /\ call[c].phase \notin {"decoding", "answered"}
          /\ call[c].phase \in {"asking", "encoding", "encoded"} => call[c].post.text = 1
    /\ \E c \in Call : \A d \in Call \ {c} : call[d] = Idle

(* Bounds of this instance.  Reads change nothing that is shared, so one at a *)
(* time beside a write will do; and what is over there was copied there.      *)
Bounded ==
    /\ \A c, d \in Call :
          /\ call[c].phase \in {"decoding", "answered"}
          /\ call[d].phase \in {"decoding", "answered"}
          => c = d
    /\ \A c \in Call : call[c].phase \in {"asking", "encoding", "encoded"} => call[c].place = here
    /\ hostClock = 0 \/ Stamping

(* laquna with a limit and a recipe of the operator's for its seeds, and an   *)
(* operator's codec that needs no rotation.                                   *)
MCHooks ==
    {[id |-> "laquna", policy |-> "Audience", limit |-> 1, rotation |-> TRUE, oracle |-> TRUE],
     [id |-> "own", policy |-> "DidNsidRkey", limit |-> None, rotation |-> FALSE, oracle |-> FALSE]}

=============================================================================
