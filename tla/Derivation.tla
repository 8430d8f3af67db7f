----------------------------- MODULE Derivation -----------------------------
(***************************************************************************)
(* AuthContext (src/ingress.rs): a context is made from verified evidence  *)
(* by the ingress functions, the claim of ChainWalk among it, and narrowed *)
(* by derive_for, which records every step in the attribution chain and    *)
(* reports every attempt to the user sink.  A delegation to a service      *)
(* leans on a trust declaration that was verified (src/trust.rs) at some   *)
(* earlier reading of the clock, with a tolerance derive_for does not have.*)
(***************************************************************************)
EXTENDS ChainWalk

CONSTANTS
    Anonymous,     \* Requester::Anonymous
    Declaration,   \* trust declarations as they arrive
    TrustRoots,    \* configured_trust_roots
    Skew,          \* max_clock_skew of verify_trust_declaration
    MaxValidity,   \* MAX_TRUST_DECLARATION_VALIDITY
    MaxAttempts,   \* bound on the calls of derive_for
    MaxTime        \* bound on the clock

ASSUME DerivationAssumption ==
    /\ Anonymous \notin Identity
    /\ Skew \in Nat /\ MaxValidity \in Nat /\ MaxAttempts \in Nat /\ MaxTime \in Nat
    /\ \A d \in Declaration :
          /\ d.from \in Identity /\ d.to \in Identity /\ d.capabilities \in SUBSET Cap
          /\ d.iat \in Nat /\ d.exp \in Nat

VARIABLES
    clock,      \* SystemTime::now()
    trusted,    \* the ServiceTrustDeclaration values the host holds
    contexts,   \* the contexts that are alive, the ingress one first
    trail,      \* DerivedContext events the user sink took
    lost        \* how many it refused

derivationVars == <<clock, trusted, contexts, trail, lost>>
vars == <<walkVars, derivationVars>>

Requester == Identity \cup {Anonymous}

(* Narrowing: what a caller asks of derive_for. *)
ToAnonymous         == [kind |-> "ToAnonymous"]
NarrowCapabilities(drop) == [kind |-> "NarrowCapabilities", drop |-> drop]
ServiceToService(target, d) ==
    [kind |-> "ServiceToService", target |-> target, declaration |-> d]

Outcomes == {"Success", "NarrowingExceedsAuthority", "IllegalNarrowing",
             "UndeclaredServiceTrust", "ChainTooDeep"}

(* Contexts and events keep their types, and no attribution chain is deeper   *)
(* than MAX_CHAIN_DEPTH.                                                      *)
TypeOK ==
    /\ WalkTypeOK
    /\ clock \in Nat
    /\ trusted \subseteq Declaration
    /\ \A c \in {contexts[i] : i \in DOMAIN contexts} :
          /\ c.requester \in Requester
          /\ c.capabilities \in SUBSET Cap
          /\ Len(c.chain) <= MaxDepth
          /\ \A j \in DOMAIN c.chain : c.chain[j].requester \in Requester
    /\ \A e \in {trail[i] : i \in DOMAIN trail} :
          e.from \in Requester /\ e.to \in Requester /\ e.outcome \in Outcomes
    /\ lost \in Nat

Init ==
    /\ WalkInit
    /\ clock = 0
    /\ trusted = {}
    /\ contexts = <<>>
    /\ trail = <<>>
    /\ lost = 0

-----------------------------------------------------------------------------
(* verify_trust_declaration: the trust root, then the window, with a skew.    *)
(* A declaration that is malformed or whose signature does not verify never   *)
(* becomes a ServiceTrustDeclaration.                                         *)
VerifyDeclaration(d) ==
    /\ d \notin trusted
    /\ d.root \in TrustRoots
    /\ d.exp <= d.iat + MaxValidity
    /\ clock <= d.exp + Skew
    /\ clock + Skew >= d.iat
    /\ trusted' = trusted \cup {d}
    /\ UNCHANGED <<walkVars, clock, contexts, trail, lost>>

-----------------------------------------------------------------------------
(* Ingress *)

Context(r, caps, entries) ==
    [requester |-> r, capabilities |-> caps, chain |-> entries,
     rootLen |-> Len(entries), root |-> [requester |-> r, capabilities |-> caps]]

Enter(c) ==
    /\ contexts = <<>>
    /\ contexts' = <<c>>
    /\ Consume
    /\ UNCHANGED <<clock, trusted, trail, lost>>

(* verified_entries of verify_attribution_chain: reason and time are what the *)
(* hosts stated.                                                              *)
VerifiedChain ==
    [i \in DOMAIN chain.entries |->
        [requester |-> chain.entries[i].principal, reason |-> [kind |-> "stated"], at |-> 0]]

(* The evidence is not a delegated claim. *)
NoDelegation == walk = "building" /\ chain.entries = <<>>

(* from_xrpc_request: a user, without capabilities whatever the token's scope.*)
FromXrpcRequest(u) == NoDelegation /\ Enter(Context(<<u, 0>>, {}, <<>>))

(* from_service_request on a claim that its issuer originated. *)
FromServiceRequest(s, caps) == NoDelegation /\ Enter(Context(As(s), caps, <<>>))

(* from_service_request and from_sync_channel_message on a delegated claim:   *)
(* the peer of the session is the claim's issuer.                             *)
FromDelegatedClaim ==
    /\ walk = "Accepted"
    /\ Enter(Context(claim.issuer, claim.capabilities, VerifiedChain))

AnonymousForPublicRead == NoDelegation /\ Enter(Context(Anonymous, {}, <<>>))

-----------------------------------------------------------------------------
(* derive_for *)

(* Mutation of InForce: with the tolerance of the verification. *)
InForceWithSkew(d) == d.iat <= clock + Skew /\ clock <= d.exp + Skew

InForce(d) == d.iat <= clock /\ clock < d.exp

(* The requester, the capabilities and the reason of the context that the     *)
(* narrowing n makes of c.                                                    *)
NewRequester(c, n) ==
    CASE n.kind = "ToAnonymous" -> Anonymous
      [] n.kind = "NarrowCapabilities" -> c.requester
      [] n.kind = "ServiceToService" -> n.target

(* Mutation of NewCapabilities: a user drops to anonymous with what it held. *)
NewCapabilitiesKept(c, n) ==
    CASE n.kind = "ToAnonymous" -> c.capabilities
      [] n.kind = "NarrowCapabilities" -> c.capabilities \ n.drop
      [] n.kind = "ServiceToService" -> n.declaration.capabilities

NewCapabilities(c, n) ==
    CASE n.kind = "ToAnonymous" -> {}
      [] n.kind = "NarrowCapabilities" -> c.capabilities \ n.drop
      [] n.kind = "ServiceToService" -> n.declaration.capabilities

IsService(r) == r # Anonymous /\ Did(r) \in Service

(* The checks of derive_for, in their order. *)
Outcome(c, n) ==
    IF n.kind = "NarrowCapabilities" /\ ~(n.drop \subseteq c.capabilities)
        THEN "NarrowingExceedsAuthority"
    ELSE IF /\ n.kind = "ServiceToService"
            /\ \/ ~IsService(c.requester)
               \/ c.requester # n.declaration.from
               \/ n.target # n.declaration.to
        THEN "IllegalNarrowing"
    ELSE IF n.kind = "ServiceToService" /\ ~InForce(n.declaration)
        THEN "UndeclaredServiceTrust"
    ELSE IF Len(c.chain) >= MaxDepth THEN "ChainTooDeep"
    ELSE "Success"

Derived(c, n) ==
    [c EXCEPT !.requester = NewRequester(c, n),
              !.capabilities = NewCapabilities(c, n),
              !.chain = Append(@, [requester |-> c.requester, reason |-> n, at |-> clock])]

(* Mutation of Emitted: the event is emitted before the chain is extended. *)
EmittedEarly(c, n) ==
    [from |-> c.requester, to |-> NewRequester(c, n), kind |-> n.kind,
     outcome |-> IF Outcome(c, n) = "ChainTooDeep" THEN "Success" ELSE Outcome(c, n)]

(* emit_derived_context. *)
Emitted(c, n) ==
    [from |-> c.requester, to |-> NewRequester(c, n), kind |-> n.kind,
     outcome |-> Outcome(c, n)]

(* derive_for on the i-th context.  The sink may refuse the event: the error  *)
(* is dropped, and the result of the derivation does not depend on it.        *)
DeriveFor(i, n) ==
    LET c == contexts[i]
    IN  /\ Len(trail) + lost < MaxAttempts
        /\ contexts' = IF Outcome(c, n) = "Success" THEN Append(contexts, Derived(c, n))
                       ELSE contexts
        /\ \/ trail' = Append(trail, Emitted(c, n)) /\ UNCHANGED lost
           \/ lost' = lost + 1 /\ UNCHANGED trail
        /\ UNCHANGED <<walkVars, clock, trusted>>

Narrowings ==
    {ToAnonymous} \cup {NarrowCapabilities(drop) : drop \in SUBSET Cap}
    \cup {ServiceToService(As(s), d) : s \in Service, d \in trusted}

Tick ==
    /\ clock < MaxTime
    /\ clock' = clock + 1
    /\ UNCHANGED <<walkVars, trusted, contexts, trail, lost>>

Next ==
    \/ Tick
    \/ WalkNext /\ UNCHANGED derivationVars
    \/ \E d \in Declaration : VerifyDeclaration(d)
    \/ \E u \in User : FromXrpcRequest(u)
    \/ \E s \in Service, g \in SUBSET Cap : FromServiceRequest(s, g)
    \/ FromDelegatedClaim
    \/ AnonymousForPublicRead
    \/ \E i \in DOMAIN contexts, n \in Narrowings : DeriveFor(i, n)

Spec == Init /\ [][Next]_vars

-----------------------------------------------------------------------------
(* Properties *)

(* The steps of c after its ingress. *)
Steps(c) == Len(c.chain) - c.rootLen
Step(c, j) == c.chain[c.rootLen + j]

(* Who step j of c left the context to: the next entry says it, or c does.    *)
After(c, j) == IF j = Steps(c) THEN c.requester ELSE Step(c, j + 1).requester

(* What the step for reason n leaves of the capabilities held before it. *)
Effect(n, held) ==
    CASE n.kind = "ToAnonymous" -> {}
      [] n.kind = "NarrowCapabilities" -> held \ n.drop
      [] n.kind = "ServiceToService" -> n.declaration.capabilities

(* The capabilities after each step, replayed from the reasons in the chain.  *)
Replays(c) ==
    {A \in [0 .. Steps(c) -> SUBSET Cap] :
        /\ A[0] = c.root.capabilities
        /\ \A j \in 1 .. Steps(c) : A[j] = Effect(Step(c, j).reason, A[j - 1])}

(* The attribution chain of a context tells the truth about it: replayed from *)
(* the ingress it yields the requester and the capabilities that derive_for   *)
(* left it with, and its times do not go back.                                *)
Explained(c) ==
    /\ \E A \in Replays(c) : c.capabilities = A[Steps(c)]
    /\ Steps(c) > 0 => Step(c, 1).requester = c.root.requester
    /\ \A j \in 1 .. Steps(c) :
          LET n == Step(c, j).reason
          IN  /\ n.kind = "ToAnonymous" => After(c, j) = Anonymous
              /\ n.kind = "NarrowCapabilities" => After(c, j) = Step(c, j).requester
              /\ j > 1 => Step(c, j - 1).at <= Step(c, j).at

ChainExplains == \A i \in DOMAIN contexts : Explained(contexts[i])

(* Step j of c is a delegation that its service was entitled to: under one of *)
(* the configured roots, between the two it names, while it was in force.     *)
Entitled(c, j) ==
    LET d == Step(c, j).reason.declaration
    IN  /\ d.root \in TrustRoots
        /\ d.from = Step(c, j).requester
        /\ d.to = After(c, j)
        /\ d.iat <= Step(c, j).at
        /\ Step(c, j).at < d.exp

(* Authority comes from somewhere: a delegation in a chain was made by the    *)
(* service its declaration names, at a time the declaration was in force, and *)
(* nothing but a delegation ever adds an identity or a capability.            *)
Sourced(c) ==
    /\ \A j \in 1 .. Steps(c) :
          IF Step(c, j).reason.kind = "ServiceToService"
          THEN Entitled(c, j)
          ELSE After(c, j) \in {Step(c, j).requester, Anonymous}
    /\ \A k \in c.capabilities :
          \/ k \in c.root.capabilities
          \/ \E j \in 1 .. Steps(c) :
                /\ Step(c, j).reason.kind = "ServiceToService"
                /\ k \in Step(c, j).reason.declaration.capabilities

AuthorityHasSource == \A i \in DOMAIN contexts : Sourced(contexts[i])

(* The trail and the contexts agree: every context that was derived has its   *)
(* event, unless the sink refused it, and every success in the trail has its  *)
(* context - a derivation the depth cap refuses is not reported as one.       *)
Reported(c) ==
    \E k \in DOMAIN trail :
        /\ trail[k].outcome = "Success"
        /\ trail[k].from = Step(c, Steps(c)).requester
        /\ trail[k].to = c.requester
        /\ trail[k].kind = Step(c, Steps(c)).reason.kind

Successes == {k \in DOMAIN trail : trail[k].outcome = "Success"}

TrailMatchesContexts ==
    contexts # <<>> =>
        /\ Cardinality(Successes) <= Len(contexts) - 1
        /\ Len(contexts) - 1 <= Cardinality(Successes) + lost
        /\ lost = 0 => \A i \in 2 .. Len(contexts) : Reported(contexts[i])
=============================================================================
