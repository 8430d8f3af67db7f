----------------------------- MODULE BindPipeline ---------------------------
(***************************************************************************)
(* The life of a capability proof: issuance (src/authority/mod.rs), bind   *)
(* and reborrow (src/authority/proof.rs), for the four capability classes. *)
(* bind consumes the proof, runs its stages inside one composite_audit     *)
(* scope that queues exactly one terminal event, commits that event, and   *)
(* only then hands out the bound proof.  While a bind runs, users join and *)
(* leave the audience of the target, and the oracles that replicate who is *)
(* in and who is blocked synchronise; the stages read them one at a time.  *)
(*                                                                         *)
(* A scope with one event cannot have committed anything when its commit   *)
(* fails, so composite_audit (CompositeAudit.tla) has no marker to send:   *)
(* its outcomes here are committed, refused, or unwound by a panicking     *)
(* sink.                                                                   *)
(***************************************************************************)
EXTENDS Naturals, Sequences

CONSTANTS
    Proof,          \* the proofs of the run
    Kind,           \* the capability kinds in use
    MaxAge,         \* MAX_AGE of these capabilities
    AudienceBound,  \* data_freshness_bound of the audience oracle
    BlockBound,     \* data_freshness_bound of the block oracle
    GraceUntil,     \* grace_until_unix_seconds of the target's lexicon
    Target,         \* equalize_timing_target_for the user capabilities
    MaxLatency,     \* what bind may take from its clock reading to its commit
    MaxTime,        \* bound on the clock
    MaxTrail        \* bound on the events one proof leaves

(* v1.rs: kinds by class, and what the user capabilities declare. *)
User       == {"ViewPrivate", "ParticipatePrivate", "EditPrivatePost",
               "DeletePrivatePost", "ManageAudience"}
Channel    == {"EmitToSyncChannel", "AppViewSync", "GraphSync"}
Substrate  == {"ScanShard", "ReplicatePrivate", "GarbageCollect"}
Moderation == {"ModeratorRead", "ModeratorTakedown", "ModeratorRestore"}
Write      == User \ {"ViewPrivate"}
Audience   == {"ViewPrivate", "ParticipatePrivate", "EditPrivatePost"}

ASSUME KindAssumption == Kind \subseteq User \cup Channel \cup Substrate \cup Moderation

ASSUME BindAssumption ==
    /\ MaxAge \in Nat /\ AudienceBound \in Nat /\ BlockBound \in Nat
    /\ GraceUntil \in Nat /\ Target \in Nat /\ MaxLatency \in Nat
    /\ MaxTime \in Nat /\ MaxTrail \in Nat

VARIABLES
    clock,        \* Instant and SystemTime, which are taken to agree
    member,       \* the requester is in the audience of the target
    memberUntil,  \* history: when it last left
    audience,     \* the audience oracle: its answer and last_synced_at
    block,        \* the block oracle: its answer and last_synced_at
    phase,        \* where the proof stands
    kind,         \* the proof's capability_kind
    issuedAt,     \* the proof's issued_at
    now,          \* start and now of bind
    flow,         \* the terminal event queued, and the BindFlow returned with it
    outcome,      \* what bind returned
    reborrow,     \* what the last reborrow returned
    borrowedAt,   \* history: when the last reference was borrowed
    trail,        \* the events the class's sink took for the proof, in order
    notified      \* the proofs whose bind reached the owner's inspection queue

worldVars == <<member, memberUntil>>
oracleVars == <<audience, block>>
proofVars == <<phase, kind, issuedAt, now, flow, outcome, reborrow, borrowedAt, trail, notified>>
vars      == <<clock, worldVars, oracleVars, proofVars>>

None == "None"

Phases   == {"none", "issued", "deprecation", "block", "freshness", "audience",
             "commit", "equalize", "notify", "bound", "done"}
Flows    == {"Bound", "Denied", "OracleStale"}
Outcomes == {"RequesterLacksAuthority", "TargetMismatch", "ContextMismatch", "Expired",
             "Denied", "OracleStale", "AuditUnavailable", "Dropped", "Unwound", "Bound"}
Borrows  == {"Ref", "Expired", "AuditUnavailable", "Unwound"}
Events   == Flows \cup {"ReborrowFailed"}

(* Every variable stays in its type; a proof is bound exactly when its bind   *)
(* said so, and only binds of a moderation capability reach the queue.        *)
TypeOK ==
    /\ clock \in Nat
    /\ member \in BOOLEAN /\ memberUntil \in Nat
    /\ audience \in [says : BOOLEAN, at : Nat]
    /\ block \in [says : BOOLEAN, at : Nat]
    /\ phase \in [Proof -> Phases]
    /\ kind \in [Proof -> Kind]
    /\ issuedAt \in [Proof -> Nat]
    /\ now \in [Proof -> Nat]
    /\ flow \in [Proof -> Flows \cup {None}]
    /\ outcome \in [Proof -> Outcomes \cup {None}]
    /\ \A p \in Proof : phase[p] = "bound" => outcome[p] = "Bound"
    /\ reborrow \in [Proof -> Borrows \cup {None}]
    /\ borrowedAt \in [Proof -> Nat]
    /\ trail \in [Proof -> Seq(Events)]
    /\ notified \subseteq {p \in Proof : kind[p] \in Moderation}

Init ==
    /\ clock = 0
    /\ member \in BOOLEAN /\ memberUntil = 0
    /\ audience = [says |-> member, at |-> 0]
    /\ block = [says |-> FALSE, at |-> 0]
    /\ phase = [p \in Proof |-> "none"]
    /\ kind \in [Proof -> Kind]
    /\ issuedAt = [p \in Proof |-> 0]
    /\ now = [p \in Proof |-> 0]
    /\ flow = [p \in Proof |-> None]
    /\ outcome = [p \in Proof |-> None]
    /\ reborrow = [p \in Proof |-> None]
    /\ borrowedAt = [p \in Proof |-> 0]
    /\ trail = [p \in Proof |-> <<>>]
    /\ notified = {}

-----------------------------------------------------------------------------
(* The world and its replicas.  bind has no await before its commit: it       *)
(* reaches the commit within MaxLatency of its clock reading.                 *)

Running(p) == phase[p] \in {"deprecation", "block", "freshness", "audience", "commit"}

Tick ==
    /\ clock < MaxTime
    /\ \A p \in Proof : Running(p) => clock < now[p] + MaxLatency
    /\ clock' = clock + 1
    /\ UNCHANGED <<worldVars, oracleVars, proofVars>>

JoinAudience ==
    /\ ~member
    /\ member' = TRUE
    /\ UNCHANGED <<clock, memberUntil, oracleVars, proofVars>>

LeaveAudience ==
    /\ member
    /\ member' = FALSE
    /\ memberUntil' = clock
    /\ UNCHANGED <<clock, oracleVars, proofVars>>

SyncAudience ==
    /\ audience' = [says |-> member, at |-> clock]
    /\ UNCHANGED <<clock, worldVars, block, proofVars>>

SyncBlock ==
    /\ \E b \in BOOLEAN : block' = [says |-> b, at |-> clock]
    /\ UNCHANGED <<clock, worldVars, audience, proofVars>>

-----------------------------------------------------------------------------
(* issue_user, issue_channel, issue_substrate, issue_moderation: stage 1.     *)

Goto(p, q) == phase' = [phase EXCEPT ![p] = q]

Answer(p, o) ==
    /\ Goto(p, IF o = "Bound" THEN "bound" ELSE "done")
    /\ outcome' = [outcome EXCEPT ![p] = o]

(* Who may ask for a proof: a service for any class, a user for the user and  *)
(* channel classes, an anonymous requester for none.                          *)
HasAuthority(k, requester) ==
    \/ requester = "Service"
    \/ requester = "Did" /\ k \in User \cup Channel

Issue(p) ==
    /\ phase[p] = "none"
    /\ \E requester \in {"Did", "Service", "Anonymous"} :
          \/ /\ HasAuthority(kind[p], requester)
             /\ Goto(p, "issued")
             /\ issuedAt' = [issuedAt EXCEPT ![p] = clock]
             /\ UNCHANGED outcome
          \/ /\ ~HasAuthority(kind[p], requester)
             /\ Answer(p, "RequesterLacksAuthority")
             /\ UNCHANGED issuedAt
    /\ UNCHANGED <<clock, worldVars, oracleVars, kind, now, flow, reborrow, borrowedAt,
                   trail, notified>>

-----------------------------------------------------------------------------
(* bind: the prechecks, which leave no event, and the stages.                 *)

Age(p) == clock - issuedAt[p]

(* Who presents the proof: the DID it was issued to, as a user or as a        *)
(* service, or someone else (an anonymous requester included).                *)
Precheck(p, ctx, onTarget) ==
    IF ~onTarget THEN "TargetMismatch"
    ELSE IF ctx = "Other" THEN "ContextMismatch"
    ELSE IF Age(p) > MaxAge THEN "Expired"
    ELSE None

Enter(p, stage) == Goto(p, stage) /\ UNCHANGED flow
Queue(p, e)     == Goto(p, "commit") /\ flow' = [flow EXCEPT ![p] = e]

(* bind answers with the verdict of its prechecks, or goes on to its first    *)
(* stage with a reading of the clock.                                         *)
Begin(p, verdict, first) ==
    /\ phase[p] = "issued"
    /\ \/ /\ verdict # None
          /\ Answer(p, verdict)
          /\ UNCHANGED <<now, flow>>
       \/ /\ verdict = None
          /\ now' = [now EXCEPT ![p] = clock]
          /\ first
          /\ UNCHANGED outcome
    /\ UNCHANGED <<clock, worldVars, oracleVars, kind, issuedAt, reborrow, borrowedAt,
                   trail, notified>>

(* Only a write is held against the deprecation of its lexicon. *)
BindUser(p, ctx, onTarget) ==
    /\ kind[p] \in User
    /\ Begin(p, Precheck(p, ctx, onTarget),
             Enter(p, IF kind[p] \in Write THEN "deprecation" ELSE "block"))

BindChannel(p, ctx, onTarget) ==
    /\ kind[p] \in Channel
    /\ Begin(p, Precheck(p, ctx, onTarget), Queue(p, "Bound"))

(* Only a service binds a substrate proof. *)
BindSubstrate(p, ctx, onTarget) ==
    LET verdict == Precheck(p, ctx, onTarget)
    IN  /\ kind[p] \in Substrate
        /\ Begin(p, IF verdict = None /\ ctx # "Service" THEN "ContextMismatch" ELSE verdict,
                 Queue(p, "Bound"))

BindModeration(p, ctx, onTarget) ==
    /\ kind[p] \in Moderation
    /\ Begin(p, Precheck(p, ctx, onTarget), Enter(p, "deprecation"))

Bind(p) ==
    \E ctx \in {"Did", "Service", "Other"}, onTarget \in BOOLEAN :
        \/ BindUser(p, ctx, onTarget)
        \/ BindChannel(p, ctx, onTarget)
        \/ BindSubstrate(p, ctx, onTarget)
        \/ BindModeration(p, ctx, onTarget)

(* What a stage leaves alone. *)
StageFrame ==
    UNCHANGED <<clock, worldVars, oracleVars, kind, issuedAt, now, outcome, reborrow,
                borrowedAt, trail, notified>>

(* Stage 0, check_stage_0_deprecation: it reads the clock on its own. *)
DeprecationGate(p) ==
    /\ phase[p] = "deprecation"
    /\ \/ clock > GraceUntil /\ Queue(p, "Denied")
       \/ clock <= GraceUntil /\ kind[p] \in Moderation /\ Queue(p, "Bound")
       \/ clock <= GraceUntil /\ kind[p] \in User /\ Enter(p, "block")
    /\ StageFrame

(* Stage 2: the block oracle is asked, whatever the age of its data.  Without *)
(* an audience query the stage 5 predicates of v1 let everything pass.        *)
BlockConsultation(p) ==
    /\ phase[p] = "block"
    /\ \/ block.says /\ Queue(p, "Denied")
       \/ ~block.says /\ kind[p] \in Audience /\ Enter(p, "freshness")
       \/ ~block.says /\ kind[p] \notin Audience /\ Queue(p, "Bound")
    /\ StageFrame

(* Mutation of Stale: only a sync from the future is refused. *)
StaleIfAhead(p) == now[p] < audience.at

(* Stale data, or a sync that bind's own clock reading has not seen yet. *)
Stale(p) == now[p] < audience.at \/ now[p] > audience.at + AudienceBound

(* Stage 3, its first oracle call. *)
AudienceFreshness(p) ==
    /\ phase[p] = "freshness"
    /\ \/ Stale(p) /\ Queue(p, "OracleStale")
       \/ ~Stale(p) /\ Enter(p, "audience")
    /\ StageFrame

(* Stage 3, its second oracle call.  set_audience hands InAudience to the     *)
(* stage 5 predicate, require_in_audience, which then passes.                 *)
AudienceConsultation(p) ==
    /\ phase[p] = "audience"
    /\ Queue(p, IF audience.says THEN "Bound" ELSE "Denied")
    /\ StageFrame

(* An oracle is operator code and may panic: nothing was committed. *)
OracleUnwinds(p) ==
    /\ phase[p] \in {"block", "freshness", "audience"}
    /\ Answer(p, "Unwound")
    /\ UNCHANGED <<clock, worldVars, oracleVars, kind, issuedAt, now, flow, reborrow,
                   borrowedAt, trail, notified>>

-----------------------------------------------------------------------------
(* The commit of composite_audit, and what follows it.                        *)

(* Mutation of Settle: an audit failure is returned before stage 6. *)
SettleAuditErrorAtOnce(p, v) ==
    /\ outcome' = [outcome EXCEPT ![p] = v]
    /\ Goto(p, IF kind[p] \in User /\ v # "AuditUnavailable" THEN "equalize"
                 ELSE IF kind[p] \in Moderation /\ v = "Bound" THEN "notify"
                 ELSE IF v = "Bound" THEN "bound" ELSE "done")

(* pipeline_result is known: user binds equalize their timing, moderation     *)
(* binds that succeeded notify the owner, the others answer.                  *)
Settle(p, v) ==
    /\ outcome' = [outcome EXCEPT ![p] = v]
    /\ Goto(p, IF kind[p] \in User THEN "equalize"
                 ELSE IF kind[p] \in Moderation /\ v = "Bound" THEN "notify"
                 ELSE IF v = "Bound" THEN "bound" ELSE "done")

CommitFrame ==
    UNCHANGED <<clock, worldVars, oracleVars, kind, issuedAt, now, flow, reborrow, borrowedAt,
                notified>>

SinkTakes(p) ==
    /\ phase[p] = "commit"
    /\ trail' = [trail EXCEPT ![p] = Append(@, flow[p])]
    /\ Settle(p, flow[p])
    /\ CommitFrame

(* Mutation of Refusal: the commit error is swallowed. *)
RefusalIgnored(p) == flow[p]

(* From<CompositeAuditError> for BindError, for a SinkCommitFailed. *)
Refusal(p) == "AuditUnavailable"

SinkRefuses(p) ==
    /\ phase[p] = "commit"
    /\ Settle(p, Refusal(p))
    /\ UNCHANGED trail
    /\ CommitFrame

(* A sink without the guard panics: bind unwinds, stage 6 included. *)
SinkUnwinds(p) ==
    /\ phase[p] = "commit"
    /\ Answer(p, "Unwound")
    /\ UNCHANGED trail
    /\ CommitFrame

AfterCommitFrame ==
    UNCHANGED <<clock, worldVars, oracleVars, kind, issuedAt, now, flow, reborrow, borrowedAt,
                trail>>

(* Stage 6, equalize_timing: bind answers once Target has passed. *)
Equalized(p) ==
    /\ phase[p] = "equalize"
    /\ clock >= now[p] + Target
    /\ Answer(p, outcome[p])
    /\ UNCHANGED notified
    /\ AfterCommitFrame

(* The caller drops the future while it sleeps: the proof is gone. *)
DropBind(p) ==
    /\ phase[p] = "equalize"
    /\ clock < now[p] + Target
    /\ Answer(p, "Dropped")
    /\ UNCHANGED notified
    /\ AfterCommitFrame

(* Mutation of Notify: the owner is notified before the commit. *)
NotifyEarly(p) ==
    /\ phase[p] \in {"commit", "notify"}
    /\ kind[p] \in Moderation
    /\ notified' = notified \cup {p}
    /\ IF phase[p] = "notify" THEN Goto(p, "bound") ELSE UNCHANGED phase
    /\ UNCHANGED outcome
    /\ AfterCommitFrame

(* inspection_queue.enqueue, after the commit and outside its rollback. *)
Notify(p) ==
    /\ phase[p] = "notify"
    /\ notified' = notified \cup {p}
    /\ Goto(p, "bound")
    /\ UNCHANGED outcome
    /\ AfterCommitFrame

(* The queue is operator code and may panic; or the CSRNG fails. *)
NotifyUnwinds(p) ==
    /\ phase[p] = "notify"
    /\ Answer(p, "Unwound")
    /\ UNCHANGED notified
    /\ AfterCommitFrame

-----------------------------------------------------------------------------
(* reborrow: one poll, without an await that suspends.                        *)

BorrowFrame ==
    UNCHANGED <<clock, worldVars, oracleVars, phase, kind, issuedAt, now, flow, outcome,
                notified>>

Borrowed(p, b) == reborrow' = [reborrow EXCEPT ![p] = b]

InWindow(p) == Age(p) <= MaxAge

Reborrow(p) ==
    /\ phase[p] = "bound"
    /\ InWindow(p)
    /\ Borrowed(p, "Ref")
    /\ borrowedAt' = [borrowedAt EXCEPT ![p] = clock]
    /\ UNCHANGED trail
    /\ BorrowFrame

(* The proof is past its window. *)
Lapsed(p) == phase[p] = "bound" /\ ~InWindow(p)

(* No event is left: Expired is all there is to see. *)
FailsSilently(p) ==
    /\ Borrowed(p, "Expired")
    /\ UNCHANGED <<trail, borrowedAt>>
    /\ BorrowFrame

(* The failure is committed before it is answered, in a scope of its own. *)
FailsOnRecord(p) ==
    /\ Len(trail[p]) < MaxTrail
    /\ \/ /\ trail' = [trail EXCEPT ![p] = Append(@, "ReborrowFailed")]
          /\ Borrowed(p, "Expired")
       \/ /\ \E b \in {"AuditUnavailable", "Unwound"} : Borrowed(p, b)
          /\ UNCHANGED trail
    /\ UNCHANGED borrowedAt
    /\ BorrowFrame

UserReborrowFails(p)    == Lapsed(p) /\ kind[p] \in User /\ FailsOnRecord(p)
ChannelReborrowFails(p) == Lapsed(p) /\ kind[p] \in Channel /\ FailsOnRecord(p)

(* A ScopeBound with the outcome Expired, which takes a service: for any      *)
(* other requester nothing is emitted.                                        *)
SubstrateReborrowFails(p) ==
    /\ Lapsed(p)
    /\ kind[p] \in Substrate
    /\ FailsOnRecord(p) \/ FailsSilently(p)

ModerationReborrowFails(p) == Lapsed(p) /\ kind[p] \in Moderation /\ FailsSilently(p)

-----------------------------------------------------------------------------
World == JoinAudience \/ LeaveAudience \/ SyncAudience \/ SyncBlock

Step(p) ==
    \/ Issue(p) \/ Bind(p)
    \/ DeprecationGate(p) \/ BlockConsultation(p)
    \/ AudienceFreshness(p) \/ AudienceConsultation(p) \/ OracleUnwinds(p)
    \/ SinkTakes(p) \/ SinkRefuses(p) \/ SinkUnwinds(p)
    \/ Equalized(p) \/ DropBind(p) \/ Notify(p) \/ NotifyUnwinds(p)
    \/ Reborrow(p) \/ UserReborrowFails(p) \/ ChannelReborrowFails(p)
    \/ SubstrateReborrowFails(p) \/ ModerationReborrowFails(p)

Next == Tick \/ World \/ \E p \in Proof : Step(p)

Spec == Init /\ [][Next]_vars

-----------------------------------------------------------------------------
(* Properties *)

(* The trail of a bind that is over and was not handed out, by its outcome.   *)
Promised(o) == IF o \in Flows THEN <<o>> ELSE <<>>

(* What a caller may conclude about the audit trail from what bind returned:  *)
(* a bound proof has its success event first and nothing but failed reborrows *)
(* after it; a denial has its denial event alone; any other error left        *)
(* nothing; a reborrow refused as expired has left its event (user and        *)
(* channel classes).  Only a bind that was dropped in its timing equalization,*)
(* or that unwound, may disagree: it leaves at most its terminal event.       *)
TrailMatchesOutcome ==
    \A p \in Proof : phase[p] \in {"bound", "done"} =>
        /\ outcome[p] \in {"Dropped", "Unwound"} => trail[p] \in {<<>>, <<flow[p]>>}
        /\ outcome[p] \notin {"Dropped", "Unwound", "Bound"} => trail[p] = Promised(outcome[p])
        /\ outcome[p] = "Bound" =>
              /\ trail[p] # <<>> /\ trail[p][1] = "Bound"
              /\ \A i \in 2 .. Len(trail[p]) : trail[p][i] = "ReborrowFailed"
        /\ reborrow[p] = "Expired" /\ kind[p] \in User \cup Channel =>
              "ReborrowFailed" \in {trail[p][i] : i \in DOMAIN trail[p]}

(* The last instant at which the requester was in the audience. *)
LastMember == IF member THEN clock ELSE memberUntil

(* Leaving an audience takes effect: a proof is recorded as bound no later    *)
(* than the oracle's freshness bound and the latency of bind after its        *)
(* requester was last in the audience, and no reference is borrowed from it   *)
(* later than that freshness bound and MAX_AGE after.                         *)
RevocationHonoured ==
    [][\A p \in Proof : kind[p] \in Audience =>
           /\ trail[p] = <<>> /\ trail'[p] = <<"Bound">> =>
                  clock <= LastMember + AudienceBound + MaxLatency
           /\ borrowedAt'[p] # borrowedAt[p] =>
                  clock <= LastMember + AudienceBound + MaxAge]_vars

(* The owner's inspection queue and the moderation trail agree: the owner is  *)
(* only notified of an act that is in the trail, and of every act whose proof *)
(* was handed out.                                                            *)
NoticeFollowsAudit ==
    \A p \in Proof :
        /\ p \in notified => trail[p] = <<"Bound">>
        /\ phase[p] = "bound" /\ kind[p] \in Moderation => p \in notified

(* The answer of a user bind does not come before the equalization target,    *)
(* whichever stage ended it and even if the audit failed.                     *)
NoEarlyAnswer ==
    [][\A p \in Proof :
          /\ kind[p] \in User
          /\ phase[p] \notin {"none", "issued", "bound", "done"}
          /\ phase'[p] \in {"bound", "done"}
          /\ outcome'[p] \notin {"Dropped", "Unwound"}
          => clock >= now[p] + Target]_vars

(* What the BlockOracle trait's comment on data_freshness_bound says: binds   *)
(* against its queries fail closed when its data is past the bound.           *)
StaleBlockFailsClosed ==
    [][\A p \in Proof : kind[p] \in User =>
           (trail[p] = <<>> /\ trail'[p] = <<"Bound">> => now[p] <= block.at + BlockBound)]_vars
=============================================================================
