---------------------------- MODULE DidDocuments ----------------------------
(***************************************************************************)
(* The DID documents of the principals, as the verifiers of                *)
(* src/verification.rs read them: the current key of each principal, and   *)
(* the ones before it that rotation_history still lists.  Keys are         *)
(* numbered in the order they came into use.                               *)
(***************************************************************************)
EXTENDS Naturals
LOCAL INSTANCE Functions

CONSTANTS
    Service, User,   \* the principals, by their DIDs
    MaxRotations     \* bound on the key rotations

ASSUME DocumentAssumption ==
    /\ MaxRotations \in Nat
    /\ Service \cap User = {}

VARIABLES
    newest,     \* each principal's current key
    oldest      \* the oldest key its document still lists

docVars == <<newest, oldest>>

Principal == Service \cup User
Key       == 0 .. MaxRotations

(* ServiceIdentity: a DID and the id of a key, which equality compares both.  *)
(* A user is its DID alone.                                                   *)
Identity == (Service \X Key) \cup (User \X {0})
Did(i)   == i[1]
KeyId(i) == i[2]
As(p)    == <<p, IF p \in Service THEN newest[p] ELSE 0>>

(* Keys enter and leave a document in order. *)
DocTypeOK ==
    /\ newest \in [Principal -> Key]
    /\ oldest \in [Principal -> Key]
    /\ \A p \in Principal : oldest[p] <= newest[p]

DocInit ==
    /\ newest = [p \in Principal |-> 0]
    /\ oldest = [p \in Principal |-> 0]

(* A principal rotates its key: the old one moves to rotation_history. *)
RotateKey(p) ==
    /\ FoldFunction(+, 0, newest) < MaxRotations
    /\ newest' = [newest EXCEPT ![p] = @ + 1]
    /\ UNCHANGED oldest

(* The oldest key of the history is no longer published. *)
RetireKey(p) ==
    /\ oldest[p] < newest[p]
    /\ oldest' = [oldest EXCEPT ![p] = @ + 1]
    /\ UNCHANGED newest

(* Mutation of Published: the rotation history is not searched. *)
PublishedCurrent(p) == {newest[p]}

(* verification_methods and rotation_history of p's document. *)
Published(p) == oldest[p] .. newest[p]
=============================================================================
