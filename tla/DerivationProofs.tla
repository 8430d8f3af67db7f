-------------------------- MODULE DerivationProofs --------------------------
(***************************************************************************)
(* Proofs about Derivation and the chain walk inside it, for any           *)
(* principals, hops, depth, rotations and declarations: a chain that is    *)
(* accepted was granted hop by hop, a receipt found invalid is so for a    *)
(* cause that outlives rotations, and every context can say where its      *)
(* chain and its authority come from.                                      *)
(***************************************************************************)
EXTENDS Derivation, FiniteSetTheorems, TLAPS

(* The types without their bounds: a key is any number.  How far keys go is   *)
(* a bound of the model-checked instance, no fact about the walk.             *)
AnyIdentity == Principal \X Nat
AnyEntry ==
    [principal : AnyIdentity, granted : SUBSET Cap,
     receipt : [signer : Principal, key : Nat, recipient : AnyIdentity,
                granted : SUBSET Cap]]

LooseTypes ==
    /\ newest \in [Principal -> Nat]
    /\ oldest \in [Principal -> Nat]
    /\ chain \in [origin : AnyIdentity, entries : Seq(AnyEntry)]
    /\ hop \in Nat \ {0}

(* A receipt was signed under a key that was in use by then. *)
KeysInUse ==
    \A i \in 1 .. Len(chain.entries) :
        chain.entries[i].receipt.key <= newest[chain.entries[i].receipt.signer]

(* Hop i was granted, and holds no more than any hop up to it, nor than the   *)
(* origin's authority.                                                        *)
Narrowed(i) ==
    /\ GrantedAt(i)
    /\ chain.entries[i].granted \subseteq authority
    /\ \A j \in 1 .. i : chain.entries[i].granted \subseteq chain.entries[j].granted

HopsNarrowed == \A i \in 1 .. hop - 1 : Narrowed(i)

(* Where the walk stands: no hop is verified while the chain grows, and all   *)
(* are when it is accepted.                                                   *)
Progress ==
    /\ hop <= Len(chain.entries) + 1
    /\ walk = "building" => hop = 1
    /\ walk = "SignatureInvalid" => hop <= Len(chain.entries)
    /\ walk = "Accepted" =>
          /\ hop = Len(chain.entries) + 1
          /\ claim.capabilities \subseteq ChainTail

InvalidHasCause ==
    walk = "SignatureInvalid" =>
        \/ ~GrantedAt(hop)
        \/ chain.entries[hop].receipt.key < oldest[Did(PrincipalBefore(hop))]

IInv == LooseTypes /\ KeysInUse /\ HopsNarrowed /\ Progress /\ InvalidHasCause

LEMMA EmptyEntries == <<>> \in Seq(AnyEntry) /\ Len(<<>>) = 0
OBVIOUS

LEMMA InitIInv == Init => IInv
<1> SUFFICES ASSUME Init PROVE IInv
  OBVIOUS
<1> USE DEF Init, WalkInit, DocInit
<1>1. chain.entries = <<>> /\ chain.origin \in Principal \X {0} /\ hop = 1
      /\ walk = "building"
  OBVIOUS
<1>2. LooseTypes
  <2>1. chain \in [origin : AnyIdentity, entries : Seq(AnyEntry)]
    <3>1. PICK o \in Principal \X {0} : chain = [origin |-> o, entries |-> <<>>]
      OBVIOUS
    <3>2. o \in AnyIdentity
      BY DEF AnyIdentity
    <3> HIDE DEF Init
    <3>3. QED
      BY <3>1, <3>2, EmptyEntries
  <2>2. QED
    BY <2>1 DEF LooseTypes
<1>3. KeysInUse /\ HopsNarrowed /\ Progress /\ InvalidHasCause
  BY <1>1, EmptyEntries DEF KeysInUse, HopsNarrowed, Progress, InvalidHasCause
<1>4. QED
  BY <1>2, <1>3 DEF IInv

-----------------------------------------------------------------------------
(* What the hop in turn is measured against is within everything before it.   *)
LEMMA AuthorizedBeforeIsLeast ==
    ASSUME IInv, hop <= Len(chain.entries)
    PROVE  /\ AuthorizedBefore(hop) \subseteq authority
           /\ \A j \in 1 .. hop - 1 :
                 AuthorizedBefore(hop) \subseteq chain.entries[j].granted
<1>1. CASE hop = 1
  BY <1>1 DEF AuthorizedBefore
<1>2. CASE hop # 1
  <2>1. hop - 1 \in 1 .. hop - 1
    BY <1>2 DEF IInv, LooseTypes
  <2>2. Narrowed(hop - 1)
    BY <2>1 DEF IInv, HopsNarrowed
  <2>3. QED
    BY <1>2, <2>2 DEF AuthorizedBefore, Narrowed
<1>3. QED
  BY <1>1, <1>2

LEMMA EntryTypes ==
    ASSUME LooseTypes, NEW i \in 1 .. Len(chain.entries)
    PROVE  /\ chain.entries[i].receipt.key \in Nat
           /\ chain.entries[i].receipt.signer \in Principal
           /\ Did(PrincipalBefore(i)) \in Principal
<1>1. chain.entries[i] \in AnyEntry
  BY DEF LooseTypes
<1>2. PrincipalBefore(i) \in AnyIdentity
  <2>1. CASE i = 1
    BY <2>1 DEF LooseTypes, PrincipalBefore
  <2>2. CASE i # 1
    <3>1. i - 1 \in 1 .. Len(chain.entries)
      BY <2>2 DEF LooseTypes
    <3>2. chain.entries[i - 1] \in AnyEntry
      BY <3>1 DEF LooseTypes
    <3>3. QED
      BY <2>2, <3>2 DEF PrincipalBefore, AnyEntry
  <2>3. QED
    BY <2>1, <2>2
<1>3. QED
  BY <1>1, <1>2 DEF AnyEntry, AnyIdentity, Did

(* Steps that touch neither the documents nor the claim with its chain, nor   *)
(* the walk.                                                                  *)
LEMMA StutterIInv == ASSUME IInv, UNCHANGED walkVars PROVE IInv'
BY DEF IInv, LooseTypes, KeysInUse, HopsNarrowed, Narrowed, GrantedAt, PrincipalBefore,
       Progress, ChainTail, InvalidHasCause, walkVars, docVars, claimVars

(* A document changes: what was in use was in use, and what left stays gone.  *)
LEMMA DocumentsIInv ==
    ASSUME IInv, NEW p \in Principal, RotateKey(p) \/ RetireKey(p),
           UNCHANGED <<claimVars, hop, walk>>
    PROVE  IInv'
<1>1. /\ newest' \in [Principal -> Nat] /\ oldest' \in [Principal -> Nat]
      /\ \A q \in Principal : newest[q] <= newest'[q] /\ oldest[q] <= oldest'[q]
  <2>1. newest \in [Principal -> Nat] /\ oldest \in [Principal -> Nat]
    BY DEF IInv, LooseTypes
  <2>2. \/ newest' = [newest EXCEPT ![p] = @ + 1] /\ oldest' = oldest
        \/ newest' = newest /\ oldest' = [oldest EXCEPT ![p] = @ + 1]
    BY Zenon DEF RotateKey, RetireKey
  <2>3. QED
    BY <2>1, <2>2
<1>2. LooseTypes'
  BY <1>1 DEF IInv, LooseTypes, claimVars
<1>3. KeysInUse'
  <2> SUFFICES ASSUME NEW i \in 1 .. Len(chain.entries)
               PROVE  chain.entries[i].receipt.key
                        <= newest'[chain.entries[i].receipt.signer]
    BY DEF KeysInUse, claimVars
  <2> DEFINE r == chain.entries[i].receipt
  <2>2. r.key \in Nat /\ r.signer \in Principal
    BY EntryTypes DEF IInv
  <2>3. r.key <= newest[r.signer]
    BY DEF IInv, KeysInUse
  <2>4. newest[r.signer] \in Nat /\ newest'[r.signer] \in Nat
        /\ newest[r.signer] <= newest'[r.signer]
    BY <1>1, <2>2 DEF IInv, LooseTypes
  <2> HIDE DEF r
  <2>5. r.key <= newest'[r.signer]
    BY <2>2, <2>3, <2>4
  <2>6. QED
    BY <2>5 DEF r
<1>4. HopsNarrowed' /\ Progress'
  BY DEF IInv, HopsNarrowed, Narrowed, GrantedAt, PrincipalBefore, Progress, ChainTail,
         claimVars
<1>5. InvalidHasCause'
  <2> SUFFICES ASSUME walk = "SignatureInvalid", GrantedAt(hop)
               PROVE  chain.entries[hop].receipt.key
                        < oldest'[Did(PrincipalBefore(hop))]
    BY DEF InvalidHasCause, GrantedAt, PrincipalBefore, claimVars
  <2>1. hop \in 1 .. Len(chain.entries)
    BY DEF IInv, LooseTypes, Progress
  <2> DEFINE q == Did(PrincipalBefore(hop))  k == chain.entries[hop].receipt.key
  <2>2. q \in Principal /\ k \in Nat
    BY <2>1, EntryTypes DEF IInv
  <2>3. k < oldest[q]
    BY DEF IInv, InvalidHasCause
  <2>4. oldest[q] \in Nat /\ oldest'[q] \in Nat /\ oldest[q] <= oldest'[q]
    BY <1>1, <2>2 DEF IInv, LooseTypes
  <2> HIDE DEF q, k
  <2>5. k < oldest'[q]
    BY <2>2, <2>3, <2>4
  <2>6. QED
    BY <2>5 DEF q, k
<1>6. QED
  BY <1>2, <1>3, <1>4, <1>5 DEF IInv

-----------------------------------------------------------------------------
(* The chain grows by one entry, whoever signed it, under a key then current. *)
LEMMA DelegateIInv ==
    ASSUME IInv, NEW h \in Hop, Delegate(h) PROVE IInv'
<1> DEFINE p == h.signer
           e == [principal |-> As(h.to), granted |-> h.stated,
                 receipt |-> Signed(p, As(h.recipient), h.granted)]
<1>1. /\ walk = "building" /\ hop = 1
      /\ chain' = [chain EXCEPT !.entries = Append(@, e)]
      /\ UNCHANGED <<docVars, authority, claim, hop, walk>>
  BY DEF Delegate, IInv, Progress
<1>2. p \in Principal
  BY WalkAssumption DEF Principal
<1>3. As(h.to) \in AnyIdentity /\ As(h.recipient) \in AnyIdentity
  <2>1. h.to \in Principal /\ h.recipient \in Principal
    BY WalkAssumption DEF Principal
  <2>2. \A q \in Principal : As(q) \in AnyIdentity
    BY DEF As, AnyIdentity, Principal, IInv, LooseTypes
  <2>3. QED
    BY <2>1, <2>2
<1>4. e \in AnyEntry /\ e.receipt.signer = p /\ e.receipt.key = newest[p]
  <2>1. newest[p] \in Nat
    BY <1>2 DEF IInv, LooseTypes
  <2>2. h.stated \in SUBSET Cap /\ h.granted \in SUBSET Cap
    BY WalkAssumption
  <2> HIDE DEF p
  <2>3. QED
    BY <1>2, <1>3, <2>1, <2>2 DEF AnyEntry, Signed
<1> HIDE DEF e, p
<1>5. chain'.entries = Append(chain.entries, e) /\ chain'.origin = chain.origin
      /\ chain' \in [origin : AnyIdentity, entries : Seq(AnyEntry)]
  <2>1. chain.origin \in AnyIdentity /\ chain.entries \in Seq(AnyEntry)
        /\ chain = [origin |-> chain.origin, entries |-> chain.entries]
    BY DEF IInv, LooseTypes
  <2>2. Append(chain.entries, e) \in Seq(AnyEntry)
    BY <1>4, <2>1
  <2>3. chain' = [origin |-> chain.origin, entries |-> Append(chain.entries, e)]
    BY <1>1, <2>1
  <2>4. QED
    BY <2>1, <2>2, <2>3
<1>6. /\ Len(chain'.entries) = Len(chain.entries) + 1
      /\ Len(chain.entries) \in Nat
      /\ \A i \in 1 .. Len(chain.entries) : chain'.entries[i] = chain.entries[i]
      /\ chain'.entries[Len(chain.entries) + 1] = e
  BY <1>4, <1>5 DEF IInv, LooseTypes
<1>7. LooseTypes'
  BY <1>1, <1>5 DEF IInv, LooseTypes, docVars
<1>8. KeysInUse'
  <2> SUFFICES ASSUME NEW i \in 1 .. Len(chain'.entries)
               PROVE  chain'.entries[i].receipt.key
                        <= newest[chain'.entries[i].receipt.signer]
    BY <1>1 DEF KeysInUse, docVars
  <2>1. CASE i = Len(chain.entries) + 1
    <3>1. newest[p] \in Nat
      BY <1>2 DEF IInv, LooseTypes
    <3>2. QED
      BY <1>4, <1>6, <2>1, <3>1
  <2>2. CASE i # Len(chain.entries) + 1
    BY <1>6, <2>2 DEF IInv, KeysInUse
  <2>3. QED
    BY <2>1, <2>2
<1>9. HopsNarrowed' /\ Progress' /\ InvalidHasCause'
  BY <1>1, <1>6 DEF HopsNarrowed, Progress, InvalidHasCause
<1>10. QED
  BY <1>7, <1>8, <1>9 DEF IInv

(* One hop: when it is granted, so are all of them up to it. *)
LEMMA VerifyHopIInv == ASSUME IInv, VerifyHop PROVE IInv'
<1> DEFINE e == chain.entries[hop]
           q == Did(PrincipalBefore(hop))
<1>1. /\ walk = "walking" /\ hop \in 1 .. Len(chain.entries)
      /\ chain' = chain /\ authority' = authority /\ newest' = newest /\ oldest' = oldest
      /\ Len(chain.entries) \in Nat
  BY DEF VerifyHop, IInv, LooseTypes, docVars, claimVars
<1>2. \/ /\ ~ReceiptVerifies(e, q)
         /\ walk' = "SignatureInvalid" /\ hop' = hop
      \/ walk' = "CapabilityExpansion" /\ hop' = hop
      \/ /\ ReceiptVerifies(e, q) /\ e.granted \subseteq AuthorizedBefore(hop)
         /\ walk' = "walking" /\ hop' = hop + 1
  BY DEF VerifyHop
<1>3. LooseTypes'
  BY <1>1, <1>2 DEF IInv, LooseTypes
<1>4. KeysInUse'
  BY <1>1 DEF IInv, KeysInUse
<1>5. Progress'
  BY <1>1, <1>2 DEF IInv, Progress
<1>6. HopsNarrowed'
  <2>1. \A i : Narrowed(i)' <=> Narrowed(i)
    BY <1>1 DEF Narrowed, GrantedAt, PrincipalBefore
  <2>2. CASE hop' = hop
    BY <2>1, <2>2 DEF IInv, HopsNarrowed
  <2>3. CASE hop' = hop + 1
    <3>1. ReceiptVerifies(e, q) /\ e.granted \subseteq AuthorizedBefore(hop)
      BY <1>1, <1>2, <2>3
    <3>2. GrantedAt(hop)
      BY <3>1 DEF ReceiptVerifies, Covers, GrantedAt
    <3>3. e.granted \subseteq authority
          /\ \A j \in 1 .. hop - 1 : e.granted \subseteq chain.entries[j].granted
      BY <1>1, <3>1, AuthorizedBeforeIsLeast
    <3>4. Narrowed(hop)
      BY <1>1, <3>2, <3>3 DEF Narrowed
    <3>5. QED
      BY <1>1, <2>1, <2>3, <3>4 DEF IInv, HopsNarrowed
  <2>4. QED
    BY <1>2, <2>2, <2>3
<1>7. InvalidHasCause'
  <2> SUFFICES ASSUME walk' = "SignatureInvalid", GrantedAt(hop)
               PROVE  e.receipt.key < oldest[q]
    BY <1>1, <1>2 DEF InvalidHasCause, GrantedAt, PrincipalBefore
  <2>1. e.receipt.key \notin Published(q)
    BY <1>2 DEF ReceiptVerifies, Covers, GrantedAt
  <2>2. e.receipt.key <= newest[q]
    BY <1>1 DEF IInv, KeysInUse, GrantedAt
  <2>3. e.receipt.key \in Nat /\ newest[q] \in Nat /\ oldest[q] \in Nat
    <3>1. e.receipt.key \in Nat /\ q \in Principal
      BY <1>1, EntryTypes DEF IInv
    <3>2. QED
      BY <3>1 DEF IInv, LooseTypes
  <2> HIDE DEF e, q
  <2>4. QED
    BY <2>1, <2>2, <2>3 DEF Published
<1>8. QED
  BY <1>3, <1>4, <1>5, <1>6, <1>7 DEF IInv

(* The steps that move neither the chain nor the hop. *)
LEMMA WalkMovesIInv ==
    ASSUME IInv,
           \/ \E s \in Service, caps \in SUBSET Cap : PresentClaim(s, caps)
           \/ HopNotResolved
           \/ FinishWalk
    PROVE  IInv'
<1>1. UNCHANGED <<docVars, chain, authority, hop>>
  BY DEF PresentClaim, HopNotResolved, FinishWalk, claimVars
<1>2. LooseTypes' /\ KeysInUse' /\ HopsNarrowed'
  BY <1>1 DEF IInv, LooseTypes, KeysInUse, HopsNarrowed, Narrowed, GrantedAt,
              PrincipalBefore, docVars
<1>3. Progress' /\ InvalidHasCause'
  <2>1. CASE \E s \in Service, caps \in SUBSET Cap : PresentClaim(s, caps)
    BY <1>1, <2>1 DEF PresentClaim, IInv, Progress, InvalidHasCause
  <2>2. CASE HopNotResolved
    BY <1>1, <2>2 DEF HopNotResolved, IInv, Progress, InvalidHasCause
  <2>3. CASE FinishWalk
    BY <1>1, <2>3 DEF FinishWalk, IInv, Progress, InvalidHasCause, ChainTail, claimVars
  <2>4. QED
    BY <2>1, <2>2, <2>3
<1>4. QED
  BY <1>2, <1>3 DEF IInv

LEMMA WalkNextIInv == ASSUME IInv, WalkNext PROVE IInv'
BY DocumentsIInv, DelegateIInv, VerifyHopIInv, WalkMovesIInv DEF WalkNext

(* Evidence is gone once a context is made of it. *)
LEMMA ConsumeIInv == ASSUME IInv, Consume PROVE IInv'
<1>1. /\ chain' = [chain EXCEPT !.entries = <<>>] /\ hop' = 1 /\ walk' = "consumed"
      /\ newest' = newest /\ oldest' = oldest
  BY DEF Consume, docVars
<1>2. chain' \in [origin : AnyIdentity, entries : Seq(AnyEntry)] /\ Len(chain'.entries) = 0
  BY <1>1, EmptyEntries DEF IInv, LooseTypes
<1>3. QED
  BY <1>1, <1>2 DEF IInv, LooseTypes, KeysInUse, HopsNarrowed, Progress, InvalidHasCause

LEMMA StepIInv == ASSUME IInv, [Next]_vars PROVE IInv'
<1>1. CASE WalkNext
  BY <1>1, WalkNextIInv
<1>2. CASE Consume
  BY <1>2, ConsumeIInv
<1>3. CASE UNCHANGED walkVars
  BY <1>3, StutterIInv
<1>4. WalkNext \/ Consume \/ UNCHANGED walkVars
  BY DEF Next, Tick, VerifyDeclaration, FromXrpcRequest, FromServiceRequest,
         FromDelegatedClaim, AnonymousForPublicRead, DeriveFor, Enter, vars
<1>5. QED
  BY <1>1, <1>2, <1>3, <1>4

THEOREM InductiveInvariant == Spec => []IInv
<1>1. Init => IInv
  BY InitIInv
<1>2. IInv /\ [Next]_vars => IInv'
  BY StepIInv
<1>3. QED
  BY <1>1, <1>2, PTL DEF Spec

-----------------------------------------------------------------------------
(* verify_capability_claim accepts a delegated claim only if every hop of its *)
(* chain was signed by the principal before it, for the very capabilities it  *)
(* states, and none grants more than any before it or less than the claim -   *)
(* of all the chains that hosts can put together from receipts of anybody.    *)
THEOREM AcceptedChains == Spec => []AcceptedIsGranted
<1>1. IInv => AcceptedIsGranted
  <2> SUFFICES ASSUME IInv, walk = "Accepted", NEW i \in DOMAIN chain.entries
               PROVE  /\ GrantedAt(i)
                      /\ claim.capabilities \subseteq chain.entries[i].granted
                      /\ chain.entries[i].granted \subseteq authority
    BY DEF AcceptedIsGranted
  <2> DEFINE n == Len(chain.entries)
  <2>1. n \in Nat /\ hop = n + 1 /\ i \in 1 .. n
    BY DEF IInv, LooseTypes, Progress
  <2>2. Narrowed(i) /\ Narrowed(n)
    BY <2>1 DEF IInv, HopsNarrowed
  <2>3. claim.capabilities \subseteq chain.entries[n].granted
    BY DEF IInv, Progress, ChainTail
  <2>4. chain.entries[n].granted \subseteq chain.entries[i].granted
    BY <2>1, <2>2 DEF Narrowed
  <2>5. QED
    BY <2>2, <2>3, <2>4 DEF Narrowed
<1>2. QED
  BY <1>1, InductiveInvariant, PTL

(* verify_hop refuses a receipt as invalid only if it is no grant of the      *)
(* principal before, or the key that signed it has left that principal's      *)
(* document, and only after every hop before it was found good.               *)
THEOREM RefusedChains == Spec => []RefusalHasCause
<1>1. IInv => RefusalHasCause
  BY DEF IInv, InvalidHasCause, HopsNarrowed, Narrowed, RefusalHasCause
<1>2. QED
  BY <1>1, InductiveInvariant, PTL

-----------------------------------------------------------------------------
(* The contexts.  Like the walk's, their types are stated without the bounds  *)
(* of the model-checked instance.                                             *)

AnyRequester == AnyIdentity \cup {Anonymous}
Reason ==
    {[kind |-> "stated"], ToAnonymous} \cup {NarrowCapabilities(drop) : drop \in SUBSET Cap}
    \cup {ServiceToService(t, d) : t \in AnyIdentity, d \in Declaration}
Link == [requester : AnyRequester, reason : Reason, at : Nat]
AnyContext ==
    [requester : AnyRequester, capabilities : SUBSET Cap, chain : Seq(Link), rootLen : Nat,
     root : [requester : AnyRequester, capabilities : SUBSET Cap]]

(* A context is what its ingress made it until a step is taken, and its last  *)
(* step lies in the past.                                                     *)
Rooted(c) ==
    /\ c.rootLen <= Len(c.chain)
    /\ Steps(c) = 0 => c.requester = c.root.requester
Dated(c) == Steps(c) > 0 => Step(c, Steps(c)).at <= clock

ContextInv(c) == c \in AnyContext /\ Rooted(c) /\ Dated(c) /\ Explained(c) /\ Sourced(c)

(* A claim that is being walked has an issuer and asks for capabilities. *)
ClaimTyped ==
    walk \in {"walking", "Accepted"} => claim \in [issuer : AnyIdentity, capabilities : SUBSET Cap]

TrustedRooted == \A d \in trusted : d \in Declaration /\ d.root \in TrustRoots

(* Every event has its context and every context its event. *)
Counted ==
    /\ IsFiniteSet(Successes)
    /\ contexts = <<>> => trail = <<>> /\ lost = 0
    /\ TrailMatchesContexts

ContextsInv ==
    /\ clock \in Nat /\ lost \in Nat
    /\ contexts \in Seq(AnyContext)
    /\ \A i \in DOMAIN contexts : ContextInv(contexts[i])
    /\ ClaimTyped
    /\ TrustedRooted

LEMMA AsTyped == ASSUME LooseTypes, NEW p \in Principal PROVE As(p) \in AnyIdentity
BY DEF As, AnyIdentity, Principal, LooseTypes

LEMMA ClaimStep == ASSUME IInv, ClaimTyped, [Next]_vars PROVE ClaimTyped'
<1>1. ASSUME NEW s \in Service, NEW caps \in SUBSET Cap, PresentClaim(s, caps)
      PROVE  ClaimTyped'
  <2>1. As(s) \in AnyIdentity
    BY AsTyped DEF IInv, Principal
  <2>2. QED
    BY <1>1, <2>1 DEF PresentClaim, ClaimTyped
<1>2. CASE Consume
  BY <1>2 DEF Consume, ClaimTyped
<1>3. CASE UNCHANGED <<claim, walk>>
  BY <1>3 DEF ClaimTyped
<1>4. CASE VerifyHop \/ HopNotResolved \/ FinishWalk
  BY <1>4 DEF VerifyHop, HopNotResolved, FinishWalk, claimVars, ClaimTyped
<1>5. ASSUME WalkNext PROVE ClaimTyped'
  BY <1>5, <1>1, <1>3, <1>4 DEF WalkNext, Delegate, claimVars
<1>6. QED
  BY <1>2, <1>3, <1>5 DEF Next, Tick, VerifyDeclaration, FromXrpcRequest,
     FromServiceRequest, FromDelegatedClaim, AnonymousForPublicRead, DeriveFor, Enter, vars,
     walkVars, claimVars

-----------------------------------------------------------------------------
(* Ingress makes contexts without steps. *)
LEMMA ContextRooted ==
    ASSUME NEW r \in AnyRequester, NEW caps \in SUBSET Cap, NEW entries \in Seq(Link)
    PROVE  ContextInv(Context(r, caps, entries))
<1> DEFINE c == Context(r, caps, entries)
<1>1. /\ c \in AnyContext /\ c.rootLen = Len(entries) /\ c.chain = entries
      /\ c.requester = r /\ c.capabilities = caps
      /\ c.root.requester = r /\ c.root.capabilities = caps
  BY DEF Context, AnyContext
<1> HIDE DEF c
<1>2. Steps(c) = 0
  BY <1>1 DEF Steps
<1>3. Rooted(c) /\ Dated(c)
  BY <1>1, <1>2 DEF Rooted, Dated
<1>4. Explained(c)
  <2> DEFINE A == [j \in 0 .. 0 |-> caps]
  <2>1. A \in [0 .. 0 -> SUBSET Cap] /\ A[0] = caps
    OBVIOUS
  <2> HIDE DEF A
  <2>2. A \in Replays(c) /\ c.capabilities = A[Steps(c)]
    BY <1>1, <1>2, <2>1 DEF Replays
  <2>3. QED
    BY <1>2, <2>2 DEF Explained
<1>5. Sourced(c)
  BY <1>1, <1>2 DEF Sourced
<1>6. QED
  BY <1>1, <1>3, <1>4, <1>5 DEF ContextInv, c

LEMMA VerifiedChainTyped == ASSUME IInv PROVE VerifiedChain \in Seq(Link)
<1> DEFINE n == Len(chain.entries)
<1>1. n \in Nat /\ DOMAIN chain.entries = 1 .. n /\ chain.entries \in Seq(AnyEntry)
  BY DEF IInv, LooseTypes
<1>2. ASSUME NEW i \in 1 .. n
      PROVE  [requester |-> chain.entries[i].principal, reason |-> [kind |-> "stated"],
              at |-> 0] \in Link
  <2>1. chain.entries[i] \in AnyEntry
    BY <1>1
  <2>2. chain.entries[i].principal \in AnyRequester
    BY <2>1 DEF AnyEntry, AnyRequester
  <2>3. QED
    BY <2>2 DEF Link, Reason
<1>3. VerifiedChain \in [1 .. n -> Link]
  BY <1>1, <1>2 DEF VerifiedChain
<1>4. QED
  BY <1>1, <1>3

LEMMA NoEntries == <<>> \in Seq(Link)
OBVIOUS

LEMMA IngressContext ==
    ASSUME IInv, ClaimTyped,
           \/ \E u \in User : FromXrpcRequest(u)
           \/ \E s \in Service, g \in SUBSET Cap : FromServiceRequest(s, g)
           \/ FromDelegatedClaim
           \/ AnonymousForPublicRead
    PROVE  \E c : Enter(c) /\ ContextInv(c)
<1>1. ASSUME NEW u \in User, FromXrpcRequest(u) PROVE \E c : Enter(c) /\ ContextInv(c)
  <2>1. <<u, 0>> \in AnyRequester
    BY DEF AnyRequester, AnyIdentity, Principal
  <2>2. ContextInv(Context(<<u, 0>>, {}, <<>>))
    BY <2>1, NoEntries, ContextRooted
  <2>3. QED
    BY <1>1, <2>2 DEF FromXrpcRequest
<1>2. ASSUME NEW s \in Service, NEW g \in SUBSET Cap, FromServiceRequest(s, g)
      PROVE  \E c : Enter(c) /\ ContextInv(c)
  <2>1. As(s) \in AnyRequester
    BY AsTyped DEF IInv, AnyRequester, Principal
  <2>2. ContextInv(Context(As(s), g, <<>>))
    BY <2>1, NoEntries, ContextRooted
  <2>3. QED
    BY <1>2, <2>2 DEF FromServiceRequest
<1>3. ASSUME FromDelegatedClaim PROVE \E c : Enter(c) /\ ContextInv(c)
  <2>1. claim.issuer \in AnyRequester /\ claim.capabilities \in SUBSET Cap
    BY <1>3 DEF FromDelegatedClaim, ClaimTyped, AnyRequester
  <2>2. ContextInv(Context(claim.issuer, claim.capabilities, VerifiedChain))
    BY <2>1, VerifiedChainTyped, ContextRooted
  <2>3. QED
    BY <1>3, <2>2 DEF FromDelegatedClaim
<1>4. ASSUME AnonymousForPublicRead PROVE \E c : Enter(c) /\ ContextInv(c)
  <2>1. ContextInv(Context(Anonymous, {}, <<>>))
    BY NoEntries, ContextRooted DEF AnyRequester
  <2>2. QED
    BY <1>4, <2>1 DEF AnonymousForPublicRead
<1>5. QED
  BY <1>1, <1>2, <1>3, <1>4

-----------------------------------------------------------------------------
(* derive_for adds one step to the chain of the context it narrows and leaves *)
(* the steps before it as they were.                                          *)
LEMMA DerivedSteps ==
    ASSUME NEW c \in AnyContext, Rooted(c), NEW n \in Reason, clock \in Nat, NEW d,
           d = Derived(c, n), NewRequester(c, n) \in AnyRequester,
           NewCapabilities(c, n) \in SUBSET Cap
    PROVE  /\ d \in AnyContext /\ d.rootLen = c.rootLen /\ d.root = c.root
           /\ d.requester = NewRequester(c, n) /\ d.capabilities = NewCapabilities(c, n)
           /\ Len(d.chain) = Len(c.chain) + 1
           /\ Steps(c) \in Nat /\ Steps(d) = Steps(c) + 1
           /\ \A j \in 1 .. Steps(c) : Step(d, j) = Step(c, j) /\ After(d, j) = After(c, j)
           /\ Step(d, Steps(d)) = [requester |-> c.requester, reason |-> n, at |-> clock]
           /\ After(d, Steps(d)) = NewRequester(c, n)
<1> DEFINE l == [requester |-> c.requester, reason |-> n, at |-> clock]
           k == Len(c.chain)
<1>1. /\ c.chain \in Seq(Link) /\ c.rootLen \in Nat /\ c.requester \in AnyRequester
      /\ c.root \in [requester : AnyRequester, capabilities : SUBSET Cap]
      /\ c = [requester |-> c.requester, capabilities |-> c.capabilities, chain |-> c.chain,
              rootLen |-> c.rootLen, root |-> c.root]
  BY DEF AnyContext
<1>2. l \in Link
  BY <1>1 DEF Link
<1>3. d = [requester |-> NewRequester(c, n), capabilities |-> NewCapabilities(c, n),
           chain |-> Append(c.chain, l), rootLen |-> c.rootLen, root |-> c.root]
  BY <1>1 DEF Derived
<1> HIDE DEF l
<1>4. /\ k \in Nat /\ Append(c.chain, l) \in Seq(Link) /\ Len(Append(c.chain, l)) = k + 1
      /\ \A i \in 1 .. k : Append(c.chain, l)[i] = c.chain[i]
      /\ Append(c.chain, l)[k + 1] = l
  BY <1>1, <1>2
<1>5. /\ d.rootLen = c.rootLen /\ d.root = c.root /\ d.chain = Append(c.chain, l)
      /\ d.requester = NewRequester(c, n) /\ d.capabilities = NewCapabilities(c, n)
  BY <1>3
<1>6. d \in AnyContext
  BY <1>1, <1>3, <1>4 DEF AnyContext
<1>7. Steps(c) \in Nat /\ Steps(c) = k - c.rootLen /\ Steps(d) = Steps(c) + 1
  BY <1>1, <1>4, <1>5 DEF Steps, Rooted
<1>8. Step(d, Steps(d)) = l
  BY <1>1, <1>4, <1>5, <1>7 DEF Step
<1>9. \A j \in 1 .. Steps(c) : Step(d, j) = Step(c, j)
  BY <1>1, <1>4, <1>5, <1>7 DEF Step
<1>10. ASSUME NEW j \in 1 .. Steps(c) PROVE After(d, j) = After(c, j)
  <2>1. After(d, j) = Step(d, j + 1).requester
    BY <1>7 DEF After
  <2>2. CASE j = Steps(c)
    BY <2>1, <2>2, <1>7, <1>8 DEF After, l
  <2>3. CASE j # Steps(c)
    <3>1. j + 1 \in 1 .. Steps(c)
      BY <2>3, <1>7
    <3>2. QED
      BY <2>1, <2>3, <3>1, <1>9 DEF After
  <2>4. QED
    BY <2>2, <2>3
<1>11. After(d, Steps(d)) = NewRequester(c, n)
  BY <1>5 DEF After
<1>12. QED
  BY <1>4, <1>5, <1>6, <1>7, <1>8, <1>9, <1>10, <1>11 DEF l

(* What a narrowing that derive_for lets pass may be. *)
LEMMA NarrowingTyped ==
    ASSUME IInv, ContextsInv, NEW c \in AnyContext, NEW n \in Narrowings,
           Outcome(c, n) = "Success"
    PROVE  /\ n \in Reason
           /\ NewRequester(c, n) \in AnyRequester /\ NewCapabilities(c, n) \in SUBSET Cap
           /\ NewCapabilities(c, n) = Effect(n, c.capabilities)
           /\ n.kind \in {"ToAnonymous", "NarrowCapabilities", "ServiceToService"}
           /\ n.kind = "ToAnonymous" => NewRequester(c, n) = Anonymous
           /\ n.kind = "NarrowCapabilities" => NewRequester(c, n) = c.requester
           /\ n.kind = "ServiceToService" =>
                 /\ NewRequester(c, n) = n.declaration.to
                 /\ n.declaration.root \in TrustRoots /\ n.declaration.from = c.requester
                 /\ n.declaration.iat <= clock /\ clock < n.declaration.exp
<1>1. c.requester \in AnyRequester /\ c.capabilities \in SUBSET Cap
  BY DEF AnyContext
<1>2. CASE n = ToAnonymous
  BY <1>1, <1>2 DEF ToAnonymous, Reason, AnyRequester, NewRequester, NewCapabilities, Effect
<1>3. ASSUME NEW drop \in SUBSET Cap, n = NarrowCapabilities(drop)
      PROVE  /\ n \in Reason /\ n.kind = "NarrowCapabilities"
             /\ NewRequester(c, n) = c.requester
             /\ NewCapabilities(c, n) = c.capabilities \ n.drop
             /\ Effect(n, c.capabilities) = c.capabilities \ n.drop
  BY <1>3 DEF NarrowCapabilities, Reason, NewRequester, NewCapabilities, Effect
<1>4. ASSUME NEW s \in Service, NEW d \in trusted, n = ServiceToService(As(s), d)
      PROVE  /\ n \in Reason /\ n.kind = "ServiceToService"
             /\ NewRequester(c, n) = n.declaration.to
             /\ NewRequester(c, n) \in AnyRequester
             /\ NewCapabilities(c, n) = n.declaration.capabilities
             /\ NewCapabilities(c, n) \in SUBSET Cap
             /\ Effect(n, c.capabilities) = n.declaration.capabilities
             /\ n.declaration.root \in TrustRoots /\ n.declaration.from = c.requester
             /\ n.declaration.iat <= clock /\ clock < n.declaration.exp
  <2>1. d \in Declaration /\ d.root \in TrustRoots /\ As(s) \in AnyIdentity
    BY AsTyped DEF ContextsInv, TrustedRooted, IInv, Principal
  <2>2. n.kind = "ServiceToService" /\ n.target = As(s) /\ n.declaration = d
    BY <1>4 DEF ServiceToService
  <2>3. n \in Reason
    BY <1>4, <2>1 DEF Reason
  <2>4. c.requester = d.from /\ n.target = d.to /\ InForce(d)
    BY <2>2 DEF Outcome
  <2>5. d.capabilities \in SUBSET Cap
    BY <2>1, DerivationAssumption
  <2>6. QED
    BY <2>1, <2>2, <2>3, <2>4, <2>5 DEF NewRequester, NewCapabilities, Effect, InForce,
       AnyRequester
<1>5. QED
  <2>1. \/ n = ToAnonymous
        \/ \E drop \in SUBSET Cap : n = NarrowCapabilities(drop)
        \/ \E s \in Service, d \in trusted : n = ServiceToService(As(s), d)
    BY DEF Narrowings
  <2>2. CASE \E drop \in SUBSET Cap : n = NarrowCapabilities(drop)
    BY <2>2, <1>1, <1>3
  <2>3. CASE \E s \in Service, d \in trusted : n = ServiceToService(As(s), d)
    BY <2>3, <1>4
  <2>4. CASE n = ToAnonymous
    <3>1. n.kind = "ToAnonymous"
      BY <2>4 DEF ToAnonymous
    <3>2. QED
      BY <2>4, <1>2, <3>1 DEF NewRequester
  <2>5. QED
    BY <2>1, <2>2, <2>3, <2>4

LEMMA DerivedContext ==
    ASSUME IInv, ContextsInv, NEW c, ContextInv(c), NEW n \in Narrowings,
           Outcome(c, n) = "Success"
    PROVE  ContextInv(Derived(c, n))
<1> DEFINE d == Derived(c, n)
           k == Steps(c)
           r == NewRequester(c, n)
<1>1. /\ c \in AnyContext /\ Rooted(c) /\ Dated(c) /\ Explained(c) /\ Sourced(c)
      /\ clock \in Nat
  BY DEF ContextInv, ContextsInv
<1>2. /\ d \in AnyContext /\ d.rootLen = c.rootLen /\ d.root = c.root
      /\ d.requester = r /\ d.capabilities = Effect(n, c.capabilities)
      /\ Len(d.chain) = Len(c.chain) + 1
      /\ k \in Nat /\ Steps(d) = k + 1
      /\ \A j \in 1 .. k : Step(d, j) = Step(c, j) /\ After(d, j) = After(c, j)
      /\ Step(d, k + 1).requester = c.requester /\ Step(d, k + 1).reason = n
      /\ Step(d, k + 1).at = clock
      /\ After(d, k + 1) = r
  BY <1>1, NarrowingTyped, DerivedSteps
<1>3. /\ n.kind \in {"ToAnonymous", "NarrowCapabilities", "ServiceToService"}
      /\ n.kind = "ToAnonymous" => r = Anonymous
      /\ n.kind = "NarrowCapabilities" => r = c.requester
      /\ n.kind = "ServiceToService" =>
            /\ r = n.declaration.to /\ n.declaration.root \in TrustRoots
            /\ n.declaration.from = c.requester
            /\ n.declaration.iat <= clock /\ clock < n.declaration.exp
  BY <1>1, NarrowingTyped
<1>4. c.capabilities \in SUBSET Cap /\ d.capabilities \in SUBSET Cap
  BY <1>1, <1>2 DEF AnyContext
<1> HIDE DEF d, r, k
<1>5. Rooted(d)
  <2>1. c.rootLen \in Nat /\ Len(c.chain) \in Nat
    BY <1>1 DEF AnyContext
  <2>2. QED
    BY <1>1, <1>2, <2>1 DEF Rooted
<1>6. Dated(d)
  BY <1>1, <1>2 DEF Dated
<1>7. \E A \in Replays(d) : d.capabilities = A[Steps(d)]
  <2>1. PICK A \in Replays(c) : c.capabilities = A[k]
    BY <1>1 DEF Explained, k
  <2>2. /\ A \in [0 .. k -> SUBSET Cap] /\ A[0] = c.root.capabilities
        /\ \A j \in 1 .. k : A[j] = Effect(Step(c, j).reason, A[j - 1])
    BY <2>1 DEF Replays, k
  <2> DEFINE B == [j \in 0 .. k + 1 |-> IF j = k + 1 THEN d.capabilities ELSE A[j]]
  <2>3. /\ B \in [0 .. k + 1 -> SUBSET Cap] /\ B[k + 1] = d.capabilities
        /\ \A j \in 0 .. k : B[j] = A[j]
    BY <1>2, <1>4, <2>2
  <2> HIDE DEF B
  <2>4. B[0] = d.root.capabilities
    BY <1>2, <2>2, <2>3
  <2>5. ASSUME NEW j \in 1 .. k + 1 PROVE B[j] = Effect(Step(d, j).reason, B[j - 1])
    <3>1. CASE j \in 1 .. k
      <4>1. j - 1 \in 0 .. k /\ j \in 0 .. k
        BY <3>1, <1>2
      <4>2. B[j] = A[j] /\ B[j - 1] = A[j - 1] /\ Step(d, j) = Step(c, j)
        BY <3>1, <4>1, <1>2, <2>3
      <4>3. QED
        BY <3>1, <4>2, <2>2
    <3>2. CASE j = k + 1
      <4>1. B[j - 1] = c.capabilities
        <5>1. j - 1 = k /\ k \in 0 .. k
          BY <3>2, <1>2
        <5>2. QED
          BY <5>1, <2>1, <2>3
      <4>2. QED
        BY <3>2, <4>1, <1>2, <2>3
    <3>3. QED
      BY <3>1, <3>2, <1>2
  <2>6. B \in Replays(d)
    BY <1>2, <2>3, <2>4, <2>5 DEF Replays
  <2>7. QED
    BY <1>2, <2>3, <2>6
<1>8. Steps(d) > 0 => Step(d, 1).requester = d.root.requester
  <2>1. CASE k = 0
    BY <2>1, <1>1, <1>2 DEF Rooted, k
  <2>2. CASE k # 0
    <3>1. 1 \in 1 .. k
      BY <2>2, <1>2
    <3>2. Step(c, 1).requester = c.root.requester
      BY <3>1, <1>1, <1>2 DEF Explained, k
    <3>3. QED
      BY <3>1, <3>2, <1>2
  <2>3. QED
    BY <2>1, <2>2
<1>9. ASSUME NEW j \in 1 .. Steps(d)
      PROVE  LET m == Step(d, j).reason
             IN  /\ m.kind = "ToAnonymous" => After(d, j) = Anonymous
                 /\ m.kind = "NarrowCapabilities" => After(d, j) = Step(d, j).requester
                 /\ j > 1 => Step(d, j - 1).at <= Step(d, j).at
  <2>1. CASE j \in 1 .. k
    <3>1. Step(d, j) = Step(c, j) /\ After(d, j) = After(c, j)
      BY <2>1, <1>2
    <3>2. /\ Step(c, j).reason.kind = "ToAnonymous" => After(c, j) = Anonymous
          /\ Step(c, j).reason.kind = "NarrowCapabilities" =>
                After(c, j) = Step(c, j).requester
          /\ j > 1 => Step(c, j - 1).at <= Step(c, j).at
      BY <2>1, <1>1 DEF Explained, k
    <3>3. j > 1 => Step(d, j - 1) = Step(c, j - 1)
      <4>1. j > 1 => j - 1 \in 1 .. k
        BY <2>1, <1>2
      <4>2. QED
        BY <4>1, <1>2
    <3>4. QED
      BY <3>1, <3>2, <3>3
  <2>2. CASE j = k + 1
    <3>1. j > 1 => Step(d, j - 1).at <= Step(d, j).at
      <4>1. SUFFICES ASSUME j > 1 PROVE Step(d, j - 1).at <= Step(d, j).at
        OBVIOUS
      <4>2. j - 1 = k /\ k \in 1 .. k /\ k > 0
        BY <2>2, <4>1, <1>2
      <4>3. Step(c, k).at <= clock
        BY <4>2, <1>1 DEF Dated, k
      <4>4. QED
        BY <2>2, <4>2, <4>3, <1>2
    <3>2. QED
      BY <2>2, <3>1, <1>2, <1>3
  <2>3. QED
    BY <2>1, <2>2, <1>2
<1>10. Explained(d)
  BY <1>7, <1>8, <1>9 DEF Explained
<1>11. ASSUME NEW j \in 1 .. Steps(d)
       PROVE  IF Step(d, j).reason.kind = "ServiceToService"
              THEN Entitled(d, j)
              ELSE After(d, j) \in {Step(d, j).requester, Anonymous}
  <2>1. CASE j \in 1 .. k
    <3>1. Step(d, j) = Step(c, j) /\ After(d, j) = After(c, j)
      BY <2>1, <1>2
    <3>2. IF Step(c, j).reason.kind = "ServiceToService"
          THEN Entitled(c, j)
          ELSE After(c, j) \in {Step(c, j).requester, Anonymous}
      BY <2>1, <1>1 DEF Sourced, k
    <3>3. QED
      BY <3>1, <3>2 DEF Entitled
  <2>2. CASE j = k + 1
    BY <2>2, <1>2, <1>3 DEF Entitled
  <2>3. QED
    BY <2>1, <2>2, <1>2
<1>12. ASSUME NEW x \in d.capabilities
       PROVE  \/ x \in d.root.capabilities
              \/ \E j \in 1 .. Steps(d) :
                    /\ Step(d, j).reason.kind = "ServiceToService"
                    /\ x \in Step(d, j).reason.declaration.capabilities
  <2>1. CASE n.kind = "ServiceToService"
    <3>1. x \in n.declaration.capabilities
      BY <2>1, <1>2 DEF Effect
    <3>2. k + 1 \in 1 .. Steps(d)
      BY <1>2
    <3>3. QED
      BY <2>1, <3>1, <3>2, <1>2
  <2>2. CASE n.kind # "ServiceToService"
    <3>1. x \in c.capabilities
      BY <2>2, <1>2, <1>3 DEF Effect
    <3>2. \/ x \in c.root.capabilities
          \/ \E j \in 1 .. k :
                /\ Step(c, j).reason.kind = "ServiceToService"
                /\ x \in Step(c, j).reason.declaration.capabilities
      BY <3>1, <1>1 DEF Sourced, k
    <3>3. \A j \in 1 .. k : j \in 1 .. Steps(d)
      BY <1>2
    <3>4. QED
      BY <3>2, <3>3, <1>2
  <2>3. QED
    BY <2>1, <2>2
<1>13. Sourced(d)
  BY <1>11, <1>12 DEF Sourced
<1>14. QED
  BY <1>2, <1>5, <1>6, <1>10, <1>13 DEF ContextInv, d

-----------------------------------------------------------------------------
(* The invariant of the contexts is preserved. *)

LEMMA ClockMonotone ==
    ASSUME NEW c \in AnyContext, ContextInv(c), clock \in Nat, clock' \in Nat,
           clock <= clock'
    PROVE  ContextInv(c)'
<1>1. Rooted(c)' /\ Explained(c)' /\ Sourced(c)'
  BY DEF ContextInv, Rooted, Explained, Sourced, Replays, Steps, Step, After, Entitled
<1>2. Dated(c)'
  <2>1. SUFFICES ASSUME Steps(c) > 0 PROVE Step(c, Steps(c)).at <= clock'
    BY DEF Dated, Steps, Step
  <2>2. Step(c, Steps(c)).at <= clock
    BY <2>1 DEF ContextInv, Dated
  <2>3. c.chain \in Seq(Link) /\ c.rootLen \in Nat /\ c.rootLen + Steps(c) \in 1 .. Len(c.chain)
    BY <2>1 DEF AnyContext, Steps
  <2>4. Step(c, Steps(c)).at \in Nat
    <3>1. c.chain[c.rootLen + Steps(c)] \in Link
      BY <2>3
    <3>2. QED
      BY <3>1 DEF Step, Link
  <2>5. QED
    BY <2>2, <2>4
<1>3. QED
  BY <1>1, <1>2 DEF ContextInv, AnyContext

LEMMA InitContexts == Init => ContextsInv /\ Counted
<1> SUFFICES ASSUME Init PROVE ContextsInv /\ Counted
  OBVIOUS
<1>1. contexts = <<>> /\ trail = <<>> /\ walk = "building" /\ trusted = {} /\ clock = 0
      /\ lost = 0
  BY DEF Init, WalkInit
<1>2. contexts \in Seq(AnyContext) /\ DOMAIN contexts = {}
  BY <1>1
<1>3. Successes = {}
  BY <1>1 DEF Successes
<1>4. IsFiniteSet(Successes)
  BY <1>3, FS_EmptySet
<1>5. QED
  BY <1>1, <1>2, <1>4 DEF ContextsInv, ClaimTyped, TrustedRooted, Counted,
     TrailMatchesContexts

(* A context more: an ingress or a derivation. *)
LEMMA ContextAdded ==
    ASSUME ContextsInv, NEW c, ContextInv(c), contexts' = Append(contexts, c), clock' = clock
    PROVE  /\ contexts' \in Seq(AnyContext) /\ \A i \in DOMAIN contexts' : ContextInv(contexts[i])'
<1>1. c \in AnyContext /\ contexts \in Seq(AnyContext)
  BY DEF ContextInv, ContextsInv
<1>2. /\ contexts' \in Seq(AnyContext) /\ DOMAIN contexts' = DOMAIN contexts \cup {Len(contexts) + 1}
      /\ \A i \in DOMAIN contexts : contexts'[i] = contexts[i]
      /\ contexts'[Len(contexts) + 1] = c
  BY <1>1
<1>3. \A x : ContextInv(x)' <=> ContextInv(x)
  BY DEF ContextInv, Rooted, Dated, Explained, Sourced, Replays, Steps, Step, After,
     Entitled, AnyContext
<1>4. QED
  BY <1>2, <1>3 DEF ContextsInv

(* The events of the user sink. *)
Event == [from : AnyRequester, to : AnyRequester, outcome : Outcomes,
          kind : {"ToAnonymous", "NarrowCapabilities", "ServiceToService"}]

LEMMA EmittedTyped ==
    ASSUME IInv, NEW c \in AnyContext, NEW n \in Narrowings PROVE Emitted(c, n) \in Event
<1>1. c.requester \in AnyRequester
  BY DEF AnyContext
<1>2. /\ n.kind \in {"ToAnonymous", "NarrowCapabilities", "ServiceToService"}
      /\ NewRequester(c, n) \in AnyRequester
  <2>1. CASE n = ToAnonymous
    <3>1. n.kind = "ToAnonymous"
      BY <2>1 DEF ToAnonymous
    <3>2. QED
      BY <3>1 DEF NewRequester, AnyRequester
  <2>2. ASSUME NEW drop \in SUBSET Cap, n = NarrowCapabilities(drop)
        PROVE  n.kind = "NarrowCapabilities" /\ NewRequester(c, n) \in AnyRequester
    BY <1>1, <2>2 DEF NarrowCapabilities, NewRequester
  <2>3. ASSUME NEW s \in Service, NEW d \in trusted, n = ServiceToService(As(s), d)
        PROVE  n.kind = "ServiceToService" /\ NewRequester(c, n) \in AnyRequester
    <3>1. As(s) \in AnyRequester
      BY AsTyped DEF IInv, Principal, AnyRequester
    <3>2. n.kind = "ServiceToService" /\ n.target = As(s)
      BY <2>3 DEF ServiceToService
    <3>3. QED
      BY <3>1, <3>2 DEF NewRequester
  <2>4. QED
    BY <2>1, <2>2, <2>3 DEF Narrowings
<1>3. Outcome(c, n) \in Outcomes
  BY DEF Outcome, Outcomes
<1>4. QED
  BY <1>1, <1>2, <1>3 DEF Emitted, Event

(* One more event: the successes among the others stay, and the new one is a  *)
(* success if it says so.                                                     *)
LEMMA EventAdded ==
    ASSUME IsFiniteSet(Successes), trail \in Seq(Event), NEW e \in Event,
           trail' = Append(trail, e)
    PROVE  /\ trail' \in Seq(Event)
           /\ \A k \in DOMAIN trail : k \in DOMAIN trail' /\ trail'[k] = trail[k]
           /\ \E k \in DOMAIN trail' : trail'[k] = e
           /\ IsFiniteSet(Successes') /\ Cardinality(Successes) \in Nat
           /\ Cardinality(Successes') = Cardinality(Successes)
                 + (IF e.outcome = "Success" THEN 1 ELSE 0)
<1> DEFINE k == Len(trail) + 1
<1>1. /\ trail' \in Seq(Event) /\ DOMAIN trail' = DOMAIN trail \cup {k}
      /\ k \notin DOMAIN trail /\ trail'[k] = e
      /\ \A i \in DOMAIN trail : trail'[i] = trail[i]
  OBVIOUS
<1> HIDE DEF k
<1>2. Cardinality(Successes) \in Nat
  BY FS_CardinalityType
<1>3. CASE e.outcome = "Success"
  <2>1. Successes' = Successes \cup {k} /\ k \notin Successes
    BY <1>1, <1>3 DEF Successes
  <2>2. IsFiniteSet(Successes \cup {k}) /\ Cardinality(Successes \cup {k}) = Cardinality(Successes) + 1
    BY <2>1, FS_AddElement
  <2>3. QED
    BY <1>1, <1>2, <1>3, <2>1, <2>2
<1>4. CASE e.outcome # "Success"
  <2>1. Successes' = Successes
    BY <1>1, <1>4 DEF Successes
  <2>2. QED
    BY <1>1, <1>2, <1>4, <2>1
<1>5. QED
  BY <1>3, <1>4

(* derive_for keeps contexts and trail in step. *)
LEMMA DeriveCounted ==
    ASSUME IInv, ContextsInv, Counted, trail \in Seq(Event),
           NEW i \in DOMAIN contexts, NEW n \in Narrowings, DeriveFor(i, n)
    PROVE  Counted' /\ trail' \in Seq(Event)
<1> DEFINE c == contexts[i]
           d == Derived(c, n)
           e == Emitted(c, n)
<1>1. /\ contexts \in Seq(AnyContext) /\ c \in AnyContext /\ ContextInv(c) /\ lost \in Nat
      /\ contexts # <<>> /\ Len(contexts) \in Nat /\ DOMAIN contexts = 1 .. Len(contexts)
  BY DEF ContextsInv
<1>2. /\ \/ contexts' = Append(contexts, d) /\ Outcome(c, n) = "Success"
         \/ contexts' = contexts /\ Outcome(c, n) # "Success"
      /\ \/ trail' = Append(trail, e) /\ lost' = lost
         \/ lost' = lost + 1 /\ trail' = trail
  BY DEF DeriveFor
<1>3. e \in Event /\ e.outcome = Outcome(c, n) /\ e.from = c.requester
      /\ e.to = NewRequester(c, n) /\ e.kind = n.kind
  BY <1>1, EmittedTyped DEF Emitted
<1>4. Outcome(c, n) = "Success" =>
        /\ d \in AnyContext /\ Step(d, Steps(d)).requester = c.requester
        /\ Step(d, Steps(d)).reason = n /\ d.requester = NewRequester(c, n)
  BY <1>1, NarrowingTyped, DerivedSteps DEF ContextInv, ContextsInv
<1>5. IsFiniteSet(Successes) /\ Cardinality(Successes) \in Nat
  BY FS_CardinalityType DEF Counted
<1>6. /\ Cardinality(Successes) <= Len(contexts) - 1
      /\ Len(contexts) - 1 <= Cardinality(Successes) + lost
      /\ lost = 0 => \A j \in 2 .. Len(contexts) : Reported(contexts[j])
  BY <1>1 DEF Counted, TrailMatchesContexts
<1> HIDE DEF d, e
<1>7. /\ contexts' # <<>> /\ Len(contexts') \in Nat
      /\ Len(contexts') = Len(contexts) + (IF Outcome(c, n) = "Success" THEN 1 ELSE 0)
      /\ \A j \in 1 .. Len(contexts) : contexts'[j] = contexts[j]
      /\ Outcome(c, n) = "Success" => contexts'[Len(contexts) + 1] = d
  <2>1. CASE contexts' = contexts /\ Outcome(c, n) # "Success"
    BY <1>1, <2>1
  <2>2. CASE contexts' = Append(contexts, d) /\ Outcome(c, n) = "Success"
    <3> HIDE DEF c
    <3>1. d \in AnyContext
      BY <2>2, <1>4
    <3>2. QED
      BY <1>1, <2>2, <3>1
  <2>3. QED
    BY <1>2, <2>1, <2>2
<1>8. CASE lost' = lost + 1 /\ trail' = trail
  <2>1. Successes' = Successes
    BY <1>8 DEF Successes
  <2>2. TrailMatchesContexts'
    BY <1>1, <1>5, <1>6, <1>7, <1>8, <2>1 DEF TrailMatchesContexts
  <2>3. QED
    BY <1>5, <1>7, <1>8, <2>1, <2>2 DEF Counted
<1>9. CASE trail' = Append(trail, e) /\ lost' = lost
  <2>1. /\ trail' \in Seq(Event) /\ IsFiniteSet(Successes')
        /\ \A k \in DOMAIN trail : k \in DOMAIN trail' /\ trail'[k] = trail[k]
        /\ \E k \in DOMAIN trail' : trail'[k] = e
        /\ Cardinality(Successes') = Cardinality(Successes)
              + (IF Outcome(c, n) = "Success" THEN 1 ELSE 0)
    BY <1>3, <1>5, <1>9, EventAdded
  <2>2. \A x : Reported(x) => Reported(x)'
    BY <2>1 DEF Reported, Step, Steps
  <2>3. ASSUME Outcome(c, n) = "Success", NEW x, x = d PROVE Reported(x)'
    <3>1. PICK k \in DOMAIN trail' : trail'[k] = e
      BY <2>1
    <3>2. /\ Step(x, Steps(x)).requester = c.requester /\ Step(x, Steps(x)).reason = n
          /\ x.requester = NewRequester(c, n)
      BY <1>4, <2>3
    <3>3. QED
      BY <1>3, <2>3, <3>1, <3>2 DEF Reported
  <2>4. ASSUME lost' = 0, NEW j \in 2 .. Len(contexts') PROVE Reported(contexts[j])'
    <3>1. CASE j \in 2 .. Len(contexts)
      <4>1. Reported(contexts[j])
        BY <1>6, <1>9, <2>4, <3>1
      <4>2. contexts'[j] = contexts[j]
        BY <1>1, <1>7, <3>1
      <4>3. PICK x : x = contexts[j]
        OBVIOUS
      <4>4. Reported(x)'
        BY <4>1, <4>3, <2>2
      <4>5. QED
        BY <4>2, <4>3, <4>4 DEF Reported, Step, Steps
    <3>2. CASE j \notin 2 .. Len(contexts)
      <4>1. Outcome(c, n) = "Success" /\ contexts'[j] = d
        BY <1>1, <1>7, <2>4, <3>2
      <4>2. PICK x : x = d
        OBVIOUS
      <4>3. Reported(x)'
        BY <4>1, <4>2, <2>3
      <4>4. QED
        BY <4>1, <4>2, <4>3 DEF Reported, Step, Steps
    <3>3. QED
      BY <3>1, <3>2
  <2>5. TrailMatchesContexts'
    <3>1. /\ Cardinality(Successes') <= Len(contexts') - 1
          /\ Len(contexts') - 1 <= Cardinality(Successes') + lost'
      BY <1>1, <1>5, <1>6, <1>7, <1>9, <2>1
    <3>2. QED
      BY <2>4, <3>1 DEF TrailMatchesContexts
  <2>6. QED
    BY <1>7, <2>1, <2>5 DEF Counted
<1>10. QED
  BY <1>2, <1>5, <1>8, <1>9 DEF Counted

LEMMA StepContexts ==
    ASSUME IInv, ContextsInv, Counted, trail \in Seq(Event), [Next]_vars
    PROVE  ContextsInv' /\ Counted' /\ trail' \in Seq(Event)
<1>0. ClaimTyped'
  BY ClaimStep DEF ContextsInv
<1>1. CASE UNCHANGED <<contexts, trail, lost>> /\ ~Tick
  <2>1. clock' = clock
    BY <1>1 DEF Next, VerifyDeclaration, FromXrpcRequest, FromServiceRequest,
       FromDelegatedClaim, AnonymousForPublicRead, DeriveFor, Enter, vars, derivationVars
  <2>2. TrustedRooted'
    BY <1>1 DEF Next, VerifyDeclaration, FromXrpcRequest, FromServiceRequest,
       FromDelegatedClaim, AnonymousForPublicRead, DeriveFor, Enter, vars, derivationVars,
       ContextsInv, TrustedRooted
  <2>3. \A c \in AnyContext : ContextInv(c) => ContextInv(c)'
    BY <2>1, ClockMonotone DEF ContextsInv
  <2>4. ContextsInv'
    BY <1>0, <1>1, <2>1, <2>2, <2>3 DEF ContextsInv
  <2>5. Counted'
    BY <1>1 DEF Counted, Successes, TrailMatchesContexts, Reported, Step, Steps
  <2>6. QED
    BY <1>1, <2>4, <2>5
<1>2. CASE Tick
  <2>1. UNCHANGED <<contexts, trail, lost, trusted>> /\ clock' = clock + 1
    BY <1>2 DEF Tick
  <2>2. \A c \in AnyContext : ContextInv(c) => ContextInv(c)'
    BY <2>1, ClockMonotone DEF ContextsInv
  <2>3. ContextsInv'
    BY <1>0, <2>1, <2>2 DEF ContextsInv, TrustedRooted
  <2>4. Counted'
    BY <2>1 DEF Counted, Successes, TrailMatchesContexts, Reported, Step, Steps
  <2>5. QED
    BY <2>1, <2>3, <2>4
<1>3. ASSUME NEW c, Enter(c), ContextInv(c)
      PROVE  ContextsInv' /\ Counted' /\ trail' \in Seq(Event)
  <2>1. /\ contexts = <<>> /\ contexts' = <<c>> /\ UNCHANGED <<clock, trusted, trail, lost>>
        /\ trail = <<>> /\ lost = 0 /\ c \in AnyContext
    BY <1>3 DEF Enter, Counted, ContextInv
  <2>2. contexts' = Append(contexts, c)
    BY <2>1
  <2>3. ContextsInv'
    <3>1. contexts' \in Seq(AnyContext) /\ \A i \in DOMAIN contexts' : ContextInv(contexts[i])'
      BY <1>3, <2>1, <2>2, ContextAdded
    <3>2. QED
      BY <1>0, <2>1, <3>1 DEF ContextsInv, TrustedRooted
  <2>4. Successes = {} /\ Successes' = {}
    BY <2>1 DEF Successes
  <2>5. Len(contexts') = 1 /\ contexts' # <<>>
    BY <2>1
  <2>6. Cardinality({}) = 0 /\ IsFiniteSet({})
    BY FS_EmptySet
  <2>7. TrailMatchesContexts'
    BY <2>1, <2>4, <2>5, <2>6 DEF TrailMatchesContexts
  <2>8. QED
    BY <2>1, <2>3, <2>4, <2>5, <2>6, <2>7 DEF Counted
<1>4. ASSUME NEW i \in DOMAIN contexts, NEW n \in Narrowings, DeriveFor(i, n)
      PROVE  ContextsInv' /\ Counted' /\ trail' \in Seq(Event)
  <2> DEFINE c == contexts[i]
  <2>1. /\ UNCHANGED <<clock, trusted>> /\ lost' \in Nat
        /\ \/ contexts' = Append(contexts, Derived(c, n)) /\ Outcome(c, n) = "Success"
           \/ contexts' = contexts
    BY <1>4 DEF DeriveFor, ContextsInv
  <2>2. contexts' \in Seq(AnyContext) /\ \A j \in DOMAIN contexts' : ContextInv(contexts[j])'
    <3>1. CASE contexts' = Append(contexts, Derived(c, n)) /\ Outcome(c, n) = "Success"
      <4>1. ContextInv(c)
        BY DEF ContextsInv
      <4>2. ContextInv(Derived(c, n))
        BY <3>1, <4>1, DerivedContext
      <4>3. QED
        BY <2>1, <3>1, <4>2, ContextAdded
    <3>2. CASE contexts' = contexts
      <4>1. \A x \in AnyContext : ContextInv(x) => ContextInv(x)'
        BY <2>1, ClockMonotone DEF ContextsInv
      <4>2. QED
        BY <3>2, <4>1 DEF ContextsInv
    <3>3. QED
      BY <2>1, <3>1, <3>2
  <2>3. ContextsInv'
    BY <1>0, <2>1, <2>2 DEF ContextsInv, TrustedRooted
  <2>4. QED
    BY <1>4, <2>3, DeriveCounted
<1>5. \/ UNCHANGED <<contexts, trail, lost>>
      \/ \E c : Enter(c) /\ ContextInv(c)
      \/ \E i \in DOMAIN contexts, n \in Narrowings : DeriveFor(i, n)
  BY IngressContext DEF Next, Tick, VerifyDeclaration, vars, derivationVars, ContextsInv
<1>6. QED
  BY <1>1, <1>2, <1>3, <1>4, <1>5

(* Every context is explained by its chain and every authority it holds has a *)
(* source, and the trail of derivations agrees with the contexts.             *)
THEOREM ContextInvariant == Spec => [](ContextsInv /\ Counted)
<1> DEFINE J == ContextsInv /\ Counted /\ trail \in Seq(Event)
<1>1. Init => J
  <2>1. Init => trail \in Seq(Event)
    BY DEF Init
  <2>2. QED
    BY <2>1, InitContexts
<1>2. IInv /\ J /\ [Next]_vars => J'
  BY StepContexts
<1>3. J => ContextsInv /\ Counted
  OBVIOUS
<1> HIDE DEF J
<1>4. QED
  BY <1>1, <1>2, <1>3, InductiveInvariant, PTL DEF Spec

(* The chain of a context, replayed from its ingress, yields its requester    *)
(* and its capabilities, for any number of contexts, steps and declarations.  *)
THEOREM ExplainedContexts == Spec => []ChainExplains
<1>1. ContextsInv => ChainExplains
  BY DEF ContextsInv, ContextInv, ChainExplains
<1>2. QED
  BY <1>1, ContextInvariant, PTL

(* derive_for delegates only under a declaration of a configured root, between *)
(* its two services, while it is in force, though the declaration was verified *)
(* earlier and with a tolerance; nothing else adds a capability or an identity.*)
THEOREM SourcedAuthority == Spec => []AuthorityHasSource
<1>1. ContextsInv => AuthorityHasSource
  BY DEF ContextsInv, ContextInv, AuthorityHasSource
<1>2. QED
  BY <1>1, ContextInvariant, PTL

(* The DerivedContext events agree with the contexts, whatever the sink       *)
(* refuses: no success without a context, and none missing but those lost.    *)
THEOREM TrailAgrees == Spec => []TrailMatchesContexts
<1>1. Counted => TrailMatchesContexts
  BY DEF Counted
<1>2. QED
  BY <1>1, ContextInvariant, PTL
=============================================================================
