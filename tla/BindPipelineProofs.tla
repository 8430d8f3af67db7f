------------------------- MODULE BindPipelineProofs -------------------------
(***************************************************************************)
(* Proofs about BindPipeline for any number of proofs of any kinds, any    *)
(* bounds and any histories of the audience and its oracle: what bind      *)
(* returned and what the audit trail holds agree, revocation takes effect  *)
(* within its bounds, and no user bind answers before its target.          *)
(***************************************************************************)
EXTENDS BindPipeline, TLAPS

-----------------------------------------------------------------------------
(* The inductive invariant, in parts. *)

Stages == {"deprecation", "block", "freshness", "audience", "commit"}

(* Bind has not answered and left nothing. *)
Unanswered(p) ==
    outcome[p] = None /\ trail[p] = <<>> /\ reborrow[p] = None /\ p \notin notified

(* The trail of a bound proof. *)
Opened(p) ==
    /\ trail[p] # <<>> /\ trail[p][1] = "Bound"
    /\ \A i \in 2 .. Len(trail[p]) : trail[p][i] = "ReborrowFailed"

HasFailure(p) == \E i \in DOMAIN trail[p] : trail[p][i] = "ReborrowFailed"

(* What each phase of a proof says of its trail and of its answers. *)
PhaseInv(p) ==
    /\ phase[p] \in {"none", "issued"} \cup Stages => Unanswered(p)
    /\ phase[p] = "commit" => flow[p] \in Flows
    /\ phase[p] = "equalize" =>
          /\ kind[p] \in User /\ reborrow[p] = None /\ p \notin notified
          /\ \/ outcome[p] \in Flows /\ outcome[p] = flow[p] /\ trail[p] = <<flow[p]>>
             \/ outcome[p] = "AuditUnavailable" /\ trail[p] = <<>>
    /\ phase[p] = "notify" =>
          /\ kind[p] \in Moderation /\ reborrow[p] = None /\ p \notin notified
          /\ outcome[p] = "Bound" /\ flow[p] = "Bound" /\ trail[p] = <<"Bound">>
    /\ phase[p] = "bound" =>
          /\ outcome[p] = "Bound" /\ Opened(p)
          /\ kind[p] \in Moderation => p \in notified /\ trail[p] = <<"Bound">>
          /\ kind[p] \notin Moderation => p \notin notified
          /\ reborrow[p] = "Expired" /\ kind[p] \in User \cup Channel => HasFailure(p)
    /\ phase[p] = "done" =>
          /\ reborrow[p] = None /\ p \notin notified
          /\ \/ outcome[p] \in {"Dropped", "Unwound"} /\ trail[p] \in {<<>>, <<flow[p]>>}
             \/ /\ outcome[p] \notin {"Dropped", "Unwound", "Bound"}
                /\ trail[p] = Promised(outcome[p])

(* The audience oracle says of a member what was true at its last sync. *)
WorldInv ==
    /\ memberUntil <= clock
    /\ audience.at <= clock
    /\ audience.says => audience.at <= LastMember

(* The audience check of this bind was passed. *)
Granted(p) ==
    \/ phase[p] = "commit" /\ flow[p] = "Bound"
    \/ phase[p] = "equalize" /\ outcome[p] = "Bound"
    \/ phase[p] = "bound"

(* The clock readings of a bind, and how they relate to the oracle's sync and *)
(* to the time the requester was last in the audience.                        *)
TimeInv(p) ==
    /\ issuedAt[p] <= clock /\ now[p] <= clock
    /\ phase[p] \notin {"none", "issued", "done"} => issuedAt[p] <= now[p]
    /\ Running(p) => clock <= now[p] + MaxLatency
    /\ phase[p] = "audience" => now[p] <= audience.at + AudienceBound
    /\ kind[p] \in Audience /\ Granted(p) => now[p] <= LastMember + AudienceBound

IInv ==
    /\ TypeOK
    /\ WorldInv
    /\ \A p \in Proof : PhaseInv(p) /\ TimeInv(p)

-----------------------------------------------------------------------------
(* The capability classes, and the frame of a step. *)

LEMMA KindClasses ==
    /\ \A k \in User : k \notin Channel \cup Substrate \cup Moderation
    /\ \A k \in Moderation : k \notin User \cup Channel \cup Substrate
    /\ Audience \subseteq User
BY DEF User, Channel, Substrate, Moderation, Audience

(* The variables of the proofs are functions on them. *)
Functional ==
    /\ phase \in [Proof -> Phases] /\ kind \in [Proof -> Kind]
    /\ issuedAt \in [Proof -> Nat] /\ now \in [Proof -> Nat]
    /\ flow \in [Proof -> Flows \cup {None}] /\ outcome \in [Proof -> Outcomes \cup {None}]
    /\ reborrow \in [Proof -> Borrows \cup {None}] /\ borrowedAt \in [Proof -> Nat]
    /\ trail \in [Proof -> Seq(Events)]

(* Nothing about proof q changes. *)
SameProof(q) ==
    /\ phase'[q] = phase[q] /\ issuedAt'[q] = issuedAt[q] /\ now'[q] = now[q]
    /\ flow'[q] = flow[q] /\ outcome'[q] = outcome[q] /\ reborrow'[q] = reborrow[q]
    /\ borrowedAt'[q] = borrowedAt[q] /\ trail'[q] = trail[q]
    /\ q \in notified' <=> q \in notified

(* The step of proof p, the rest of the state being as it was. *)
OnlyProof(p) ==
    /\ UNCHANGED <<clock, worldVars, oracleVars, kind>>
    /\ \A q \in Proof \ {p} : SameProof(q)

(* bind begins: it answers with the verdict of its prechecks, or reads the    *)
(* clock and enters its first stage; capabilities without an audience query   *)
(* may go straight to their commit.                                           *)
LEMMA BindCases ==
    ASSUME NEW p \in Proof, Bind(p)
    PROVE  /\ phase[p] = "issued"
           /\ UNCHANGED <<clock, worldVars, oracleVars, kind, issuedAt, reborrow, borrowedAt,
                          trail, notified>>
           /\ \/ /\ \E v \in {"TargetMismatch", "ContextMismatch", "Expired"} : Answer(p, v)
                 /\ UNCHANGED <<now, flow>>
              \/ /\ now' = [now EXCEPT ![p] = clock] /\ UNCHANGED outcome
                 /\ \/ \E stage \in {"deprecation", "block"} : Enter(p, stage)
                    \/ Queue(p, "Bound") /\ kind[p] \in Channel \cup Substrate
<1>1. PICK ctx \in {"Did", "Service", "Other"}, onTarget \in BOOLEAN :
          \/ BindUser(p, ctx, onTarget) \/ BindChannel(p, ctx, onTarget)
          \/ BindSubstrate(p, ctx, onTarget) \/ BindModeration(p, ctx, onTarget)
  BY DEF Bind
<1>2. Precheck(p, ctx, onTarget) \in {None, "TargetMismatch", "ContextMismatch", "Expired"}
  BY DEF Precheck
<1>3. CASE BindUser(p, ctx, onTarget)
  <2>1. CASE kind[p] \in Write
    BY <1>2, <1>3, <2>1 DEF BindUser, Begin
  <2>2. CASE kind[p] \notin Write
    BY <1>2, <1>3, <2>2 DEF BindUser, Begin
  <2>3. QED
    BY <2>1, <2>2
<1>4. CASE BindChannel(p, ctx, onTarget)
  BY <1>2, <1>4 DEF BindChannel, Begin
<1>5. CASE BindSubstrate(p, ctx, onTarget)
  <2>1. CASE Precheck(p, ctx, onTarget) = None /\ ctx # "Service"
    BY <1>5, <2>1 DEF BindSubstrate, Begin, None
  <2>2. CASE ~(Precheck(p, ctx, onTarget) = None /\ ctx # "Service")
    BY <1>2, <1>5, <2>2 DEF BindSubstrate, Begin
  <2>3. QED
    BY <2>1, <2>2
<1>6. CASE BindModeration(p, ctx, onTarget)
  BY <1>2, <1>6 DEF BindModeration, Begin
<1>7. QED
  BY <1>1, <1>3, <1>4, <1>5, <1>6

(* A reborrow that fails. *)
ReborrowFails(p) ==
    UserReborrowFails(p) \/ ChannelReborrowFails(p) \/ SubstrateReborrowFails(p)
    \/ ModerationReborrowFails(p)

LEMMA ReborrowCases ==
    ASSUME NEW p \in Proof, ReborrowFails(p)
    PROVE  /\ phase[p] = "bound" /\ BorrowFrame /\ UNCHANGED borrowedAt
           /\ \/ /\ trail' = [trail EXCEPT ![p] = Append(@, "ReborrowFailed")]
                 /\ Borrowed(p, "Expired") /\ kind[p] \in User \cup Channel \cup Substrate
              \/ /\ UNCHANGED trail
                 /\ \E b \in {"AuditUnavailable", "Unwound"} : Borrowed(p, b)
              \/ /\ UNCHANGED trail
                 /\ Borrowed(p, "Expired") /\ kind[p] \in Substrate \cup Moderation
BY DEF ReborrowFails, UserReborrowFails, ChannelReborrowFails, SubstrateReborrowFails,
       ModerationReborrowFails, Lapsed, FailsOnRecord, FailsSilently

LEMMA StepFrame ==
    ASSUME Functional, NEW p \in Proof, Step(p)
    PROVE  OnlyProof(p)
<1> USE DEF Functional, OnlyProof, SameProof, Goto, Answer
<1>1. CASE Issue(p)
  BY <1>1 DEF Issue
<1>2. CASE Bind(p)
  <2>1. /\ UNCHANGED <<clock, worldVars, oracleVars, kind, issuedAt, reborrow, borrowedAt,
                       trail, notified>>
        /\ \E v : phase' = [phase EXCEPT ![p] = v]
        /\ outcome' = outcome \/ \E v : outcome' = [outcome EXCEPT ![p] = v]
        /\ now' = now \/ now' = [now EXCEPT ![p] = clock]
        /\ flow' = flow \/ \E v : flow' = [flow EXCEPT ![p] = v]
    BY <1>2, BindCases, Zenon DEF Enter, Queue
  <2>2. QED
    BY <2>1
<1>3. CASE DeprecationGate(p) \/ BlockConsultation(p) \/ AudienceFreshness(p)
           \/ AudienceConsultation(p)
  BY <1>3 DEF DeprecationGate, BlockConsultation, AudienceFreshness, AudienceConsultation,
              StageFrame, Enter, Queue
<1>4. CASE OracleUnwinds(p)
  BY <1>4 DEF OracleUnwinds
<1>5. CASE SinkTakes(p) \/ SinkRefuses(p) \/ SinkUnwinds(p)
  BY <1>5 DEF SinkTakes, SinkRefuses, SinkUnwinds, Settle, CommitFrame
<1>6. CASE Equalized(p) \/ DropBind(p)
  BY <1>6 DEF Equalized, DropBind, AfterCommitFrame
<1>7. CASE Notify(p) \/ NotifyUnwinds(p)
  BY <1>7 DEF Notify, NotifyUnwinds, AfterCommitFrame
<1>8. CASE Reborrow(p)
  BY <1>8 DEF Reborrow, BorrowFrame, Borrowed
<1>9. CASE ReborrowFails(p)
  BY <1>9, ReborrowCases DEF BorrowFrame, Borrowed
<1>10. QED
  BY <1>1, <1>2, <1>3, <1>4, <1>5, <1>6, <1>7, <1>8, <1>9 DEF Step, ReborrowFails

-----------------------------------------------------------------------------
(* Types *)

LEMMA InvFunctional == TypeOK => Functional
BY DEF TypeOK, Functional

LEMMA SinglesTyped ==
    ASSUME NEW e \in Events, NEW s \in Seq(Events)
    PROVE  /\ Append(s, e) \in Seq(Events) /\ Len(Append(s, e)) = Len(s) + 1
           /\ Append(s, e)[Len(s) + 1] = e
           /\ \A i \in 1 .. Len(s) : Append(s, e)[i] = s[i]
           /\ DOMAIN Append(s, e) = 1 .. Len(s) + 1
OBVIOUS

LEMMA TrailExtended ==
    ASSUME Functional, NEW p \in Proof, NEW e \in Events,
           trail' = [trail EXCEPT ![p] = Append(trail[p], e)]
    PROVE  /\ trail' \in [Proof -> Seq(Events)]
           /\ trail'[p] = Append(trail[p], e)
<1> DEFINE s == Append(trail[p], e)
<1>1. s \in Seq(Events) /\ trail \in [Proof -> Seq(Events)]
  BY SinglesTyped DEF Functional
<1>2. trail' = [trail EXCEPT ![p] = s]
  OBVIOUS
<1> HIDE DEF s
<1>3. trail' \in [Proof -> Seq(Events)] /\ trail'[p] = s
  BY <1>1, <1>2
<1>4. QED
  BY <1>3 DEF s

LEMMA StepFunctional ==
    ASSUME TypeOK, NEW p \in Proof, Step(p), PhaseInv(p)
    PROVE  Functional'
<1> USE DEF Functional
<1>a. Functional /\ clock \in Nat /\ "ReborrowFailed" \in Events
  BY InvFunctional DEF TypeOK, Events
<1>b. \A o : Answer(p, o) /\ o \in Outcomes =>
          phase' \in [Proof -> Phases] /\ outcome' \in [Proof -> Outcomes \cup {None}]
  BY <1>a DEF Answer, Goto, Phases
<1>c. \A q : Goto(p, q) /\ q \in Phases => phase' \in [Proof -> Phases]
  BY <1>a DEF Goto
<1>d. \A e : Queue(p, e) /\ e \in Flows =>
          phase' \in [Proof -> Phases] /\ flow' \in [Proof -> Flows \cup {None}]
  BY <1>a DEF Queue, Goto, Phases
<1>e. \A v : Settle(p, v) /\ v \in Outcomes =>
          phase' \in [Proof -> Phases] /\ outcome' \in [Proof -> Outcomes \cup {None}]
  BY <1>a DEF Settle, Goto, Phases
<1>1. CASE Issue(p)
  <2>1. phase' \in [Proof -> Phases] /\ outcome' \in [Proof -> Outcomes \cup {None}]
    BY <1>1, <1>a, <1>b, <1>c DEF Issue, Outcomes, Phases
  <2>2. issuedAt' \in [Proof -> Nat]
    BY <1>1, <1>a DEF Issue
  <2>3. QED
    BY <1>1, <1>a, <2>1, <2>2 DEF Issue
<1>2. CASE Bind(p)
  <2>1. now' \in [Proof -> Nat]
    BY <1>2, <1>a, BindCases
  <2>2. phase' \in [Proof -> Phases] /\ outcome' \in [Proof -> Outcomes \cup {None}]
        /\ flow' \in [Proof -> Flows \cup {None}]
    BY <1>2, <1>a, <1>b, <1>c, <1>d, BindCases DEF Enter, Outcomes, Phases, Flows
  <2>3. QED
    BY <1>2, <1>a, <2>1, <2>2, BindCases
<1>3. CASE DeprecationGate(p) \/ BlockConsultation(p) \/ AudienceFreshness(p)
           \/ AudienceConsultation(p)
  <2>1. phase' \in [Proof -> Phases] /\ flow' \in [Proof -> Flows \cup {None}]
    BY <1>3, <1>a, <1>c, <1>d DEF DeprecationGate, BlockConsultation, AudienceFreshness,
              AudienceConsultation, Enter, Flows, Phases
  <2>2. StageFrame
    BY <1>3 DEF DeprecationGate, BlockConsultation, AudienceFreshness, AudienceConsultation
  <2>3. QED
    BY <1>a, <2>1, <2>2 DEF StageFrame
<1>4. CASE OracleUnwinds(p)
  BY <1>4, <1>a, <1>b DEF OracleUnwinds, Outcomes
<1>5. CASE SinkTakes(p) \/ SinkRefuses(p) \/ SinkUnwinds(p)
  <2>1. flow[p] \in Flows /\ Flows \subseteq Outcomes /\ Flows \subseteq Events
        /\ "AuditUnavailable" \in Outcomes /\ "Unwound" \in Outcomes
    BY <1>5 DEF PhaseInv, SinkTakes, SinkRefuses, SinkUnwinds, Outcomes, Flows, Events
  <2>2. phase' \in [Proof -> Phases] /\ outcome' \in [Proof -> Outcomes \cup {None}]
    BY <1>5, <1>b, <1>e, <2>1 DEF SinkTakes, SinkRefuses, SinkUnwinds, Refusal
  <2>3. trail' \in [Proof -> Seq(Events)]
    <3>1. trail' = trail \/ trail' = [trail EXCEPT ![p] = Append(trail[p], flow[p])]
      BY <1>5 DEF SinkTakes, SinkRefuses, SinkUnwinds
    <3>2. QED
      BY <1>a, <2>1, <3>1, TrailExtended
  <2>4. QED
    BY <1>5, <1>a, <2>2, <2>3 DEF SinkTakes, SinkRefuses, SinkUnwinds, CommitFrame
<1>6. CASE Equalized(p) \/ DropBind(p) \/ NotifyUnwinds(p)
  <2>1. outcome[p] \in Outcomes \/ phase[p] # "equalize"
    BY DEF PhaseInv, Outcomes, Flows
  <2>2. \E o \in Outcomes : Answer(p, o)
    BY <1>6, <2>1 DEF Equalized, DropBind, NotifyUnwinds, Outcomes
  <2>3. AfterCommitFrame
    BY <1>6 DEF Equalized, DropBind, NotifyUnwinds
  <2>4. QED
    BY <1>a, <1>b, <2>2, <2>3 DEF AfterCommitFrame
<1>7. CASE Notify(p)
  BY <1>7, <1>a, <1>c DEF Notify, AfterCommitFrame, Phases
<1>8. CASE Reborrow(p)
  BY <1>8, <1>a DEF Reborrow, BorrowFrame, Borrowed, Borrows
<1>9. CASE ReborrowFails(p)
  <2>1. trail' \in [Proof -> Seq(Events)]
    <3>1. trail' = trail \/ trail' = [trail EXCEPT ![p] = Append(trail[p], "ReborrowFailed")]
      BY <1>9, ReborrowCases
    <3>2. QED
      BY <1>a, <3>1, TrailExtended
  <2>2. reborrow' \in [Proof -> Borrows \cup {None}]
    BY <1>9, <1>a, ReborrowCases DEF Borrowed, Borrows
  <2>3. QED
    BY <1>9, <1>a, <2>1, <2>2, ReborrowCases DEF BorrowFrame
<1>10. QED
  BY <1>1, <1>2, <1>3, <1>4, <1>5, <1>6, <1>7, <1>8, <1>9 DEF Step, ReborrowFails

-----------------------------------------------------------------------------
(* The invariant of one proof, step by step. *)

LEMMA StepPhaseInv ==
    ASSUME TypeOK, NEW p \in Proof, PhaseInv(p), Step(p)
    PROVE  PhaseInv(p)'
<1>a. /\ phase \in [Proof -> Phases] /\ outcome \in [Proof -> Outcomes \cup {None}]
      /\ flow \in [Proof -> Flows \cup {None}] /\ reborrow \in [Proof -> Borrows \cup {None}]
      /\ trail \in [Proof -> Seq(Events)] /\ trail[p] \in Seq(Events) /\ kind[p] \in Kind
      /\ Functional
  BY InvFunctional DEF TypeOK
<1>b. kind' = kind
  BY <1>a, StepFrame DEF OnlyProof
<1> USE DEF Goto, Answer
(* Bind answers before anything was queued. *)
<1>c. ASSUME phase[p] \in {"none", "issued"} \cup Stages, UNCHANGED <<trail, reborrow, notified>>,
             NEW v \in {"RequesterLacksAuthority", "TargetMismatch", "ContextMismatch",
                        "Expired", "Unwound"},
             Answer(p, v)
      PROVE  PhaseInv(p)'
  <2>1. Unanswered(p)
    BY <1>c DEF PhaseInv
  <2>2. phase'[p] = "done" /\ outcome'[p] = v
    BY <1>a, <1>c
  <2>3. trail'[p] = <<>> /\ reborrow'[p] = None /\ p \notin notified'
    BY <1>c, <2>1 DEF Unanswered
  <2>4. v \notin Flows
    BY DEF Flows
  <2>5. QED
    BY <1>b, <2>2, <2>3, <2>4 DEF PhaseInv, Promised, Stages
(* Bind goes from stage to stage, and leaves nothing on its way. *)
<1>d. ASSUME phase[p] \in {"none", "issued"} \cup Stages,
             UNCHANGED <<trail, reborrow, notified, outcome>>,
             NEW q \in {"issued"} \cup Stages, Goto(p, q),
             q = "commit" => flow'[p] \in Flows
      PROVE  PhaseInv(p)'
  <2>1. Unanswered(p)'
    BY <1>d DEF PhaseInv, Unanswered
  <2>2. phase'[p] = q
    BY <1>a, <1>d
  <2>3. QED
    BY <1>b, <1>d, <2>1, <2>2 DEF PhaseInv, Stages
<1>1. CASE Issue(p)
  BY <1>1, <1>c, <1>d DEF Issue
<1>2. CASE Bind(p)
  <2>1. phase[p] = "issued" /\ UNCHANGED <<reborrow, trail, notified>>
    BY <1>2, BindCases
  <2>2. CASE \E v \in {"TargetMismatch", "ContextMismatch", "Expired"} : Answer(p, v)
    BY <1>c, <2>1, <2>2
  <2>3. CASE UNCHANGED outcome /\ \E stage \in {"deprecation", "block"} : Enter(p, stage)
    BY <1>d, <2>1, <2>3 DEF Enter, Stages
  <2>4. CASE UNCHANGED outcome /\ Queue(p, "Bound")
    <3>1. flow'[p] \in Flows
      BY <1>a, <2>4 DEF Queue, Flows
    <3>2. QED
      BY <1>d, <2>1, <2>4, <3>1 DEF Queue, Stages
  <2>5. QED
    BY <1>2, <2>2, <2>3, <2>4, BindCases
<1>3. CASE DeprecationGate(p) \/ BlockConsultation(p) \/ AudienceFreshness(p)
           \/ AudienceConsultation(p)
  <2>1. phase[p] \in Stages /\ UNCHANGED <<reborrow, trail, notified, outcome>>
    BY <1>3 DEF DeprecationGate, BlockConsultation, AudienceFreshness, AudienceConsultation,
                StageFrame, Stages
  <2>2. (\E e \in Flows : Queue(p, e)) \/ \E q \in {"block", "freshness", "audience"} : Enter(p, q)
    BY <1>3 DEF DeprecationGate, BlockConsultation, AudienceFreshness, AudienceConsultation, Flows
  <2>3. ASSUME NEW e \in Flows, Queue(p, e) PROVE PhaseInv(p)'
    <3>1. flow'[p] \in Flows
      BY <1>a, <2>3 DEF Queue
    <3>2. QED
      BY <1>d, <2>1, <2>3, <3>1 DEF Queue, Stages
  <2>4. QED
    BY <1>d, <2>1, <2>2, <2>3 DEF Enter, Stages
<1>4. CASE OracleUnwinds(p)
  BY <1>4, <1>c DEF OracleUnwinds, Stages
<1>5. CASE SinkTakes(p)
  <2>1. /\ phase[p] = "commit" /\ flow[p] \in Flows /\ flow' = flow /\ reborrow' = reborrow
        /\ notified' = notified /\ Unanswered(p)
    BY <1>5 DEF SinkTakes, CommitFrame, PhaseInv, Stages
  <2>2. trail'[p] = <<flow[p]>>
    <3>1. trail' = [trail EXCEPT ![p] = Append(trail[p], flow[p])] /\ flow[p] \in Events
      BY <1>5, <2>1 DEF SinkTakes, Events
    <3>2. trail'[p] = Append(<<>>, flow[p])
      BY <1>a, <2>1, <3>1, TrailExtended DEF Unanswered
    <3>3. QED
      BY <3>2
  <2>3. outcome'[p] = flow[p]
    BY <1>a, <1>5 DEF SinkTakes, Settle
  <2>4. phase'[p] = IF kind[p] \in User THEN "equalize"
                    ELSE IF kind[p] \in Moderation /\ flow[p] = "Bound" THEN "notify"
                    ELSE IF flow[p] = "Bound" THEN "bound" ELSE "done"
    BY <1>a, <1>5 DEF SinkTakes, Settle
  <2>5. reborrow'[p] = None /\ p \notin notified' /\ flow'[p] = flow[p] /\ kind'[p] = kind[p]
    BY <1>b, <2>1 DEF Unanswered
  <2>6. CASE kind[p] \in User
    BY <2>1, <2>2, <2>3, <2>4, <2>5, <2>6 DEF PhaseInv, Stages
  <2>7. CASE kind[p] \in Moderation /\ flow[p] = "Bound"
    BY <2>2, <2>3, <2>4, <2>5, <2>7, KindClasses DEF PhaseInv, Stages
  <2>8. CASE kind[p] \notin User \cup Moderation /\ flow[p] = "Bound"
    <3>1. phase'[p] = "bound"
      BY <2>4, <2>8
    <3>2. Opened(p)'
      BY <2>2, <2>8 DEF Opened
    <3>3. reborrow'[p] # "Expired"
      BY <2>5 DEF None
    <3>4. QED
      BY <2>3, <2>5, <2>8, <3>1, <3>2, <3>3 DEF PhaseInv, Stages
  <2>9. CASE kind[p] \notin User /\ flow[p] # "Bound"
    <3>1. phase'[p] = "done"
      BY <2>4, <2>9
    <3>2. outcome'[p] \notin {"Dropped", "Unwound", "Bound"} /\ trail'[p] = Promised(outcome'[p])
      BY <2>1, <2>2, <2>3, <2>9 DEF Flows, Promised
    <3>3. QED
      BY <2>5, <3>1, <3>2 DEF PhaseInv, Stages, Promised
  <2>10. QED
    BY <2>6, <2>7, <2>8, <2>9
<1>6. CASE SinkRefuses(p)
  <2>1. phase[p] = "commit" /\ Unanswered(p)
    BY <1>6 DEF SinkRefuses, PhaseInv, Stages
  <2>2. outcome'[p] = "AuditUnavailable" /\ trail'[p] = <<>> /\ reborrow'[p] = None
        /\ p \notin notified' /\ kind'[p] = kind[p]
    BY <1>a, <1>6, <2>1 DEF SinkRefuses, Settle, Refusal, CommitFrame, Unanswered
  <2>3. phase'[p] = IF kind[p] \in User THEN "equalize" ELSE "done"
    BY <1>a, <1>6 DEF SinkRefuses, Settle, Refusal
  <2>4. QED
    BY <2>2, <2>3 DEF PhaseInv, Stages, Promised, Flows
<1>7. CASE SinkUnwinds(p)
  BY <1>7, <1>c DEF SinkUnwinds, CommitFrame, Stages
<1>8. CASE Equalized(p)
  <2>1. /\ phase[p] = "equalize" /\ outcome'[p] = outcome[p] /\ UNCHANGED <<trail, reborrow, notified, flow>>
        /\ phase'[p] = IF outcome[p] = "Bound" THEN "bound" ELSE "done"
    BY <1>a, <1>8 DEF Equalized, AfterCommitFrame
  <2>2. /\ kind[p] \in User /\ reborrow[p] = None /\ p \notin notified
        /\ \/ outcome[p] \in Flows /\ outcome[p] = flow[p] /\ trail[p] = <<flow[p]>>
           \/ outcome[p] = "AuditUnavailable" /\ trail[p] = <<>>
    BY <2>1 DEF PhaseInv
  <2>3. CASE outcome[p] = "Bound"
    <3>1. Opened(p)'
      <4>1. trail'[p] = <<"Bound">>
        BY <2>1, <2>2, <2>3
      <4>2. QED
        BY <4>1 DEF Opened
    <3>2. reborrow'[p] # "Expired"
      BY <2>1, <2>2 DEF None
    <3>3. QED
      BY <1>b, <2>1, <2>2, <2>3, <3>1, <3>2, KindClasses DEF PhaseInv, Stages
  <2>4. CASE outcome[p] # "Bound"
    BY <1>b, <2>1, <2>2, <2>4 DEF PhaseInv, Stages, Promised, Flows
  <2>5. QED
    BY <2>3, <2>4
<1>9. CASE DropBind(p) \/ NotifyUnwinds(p)
  <2>1. phase[p] \in {"equalize", "notify"} /\ UNCHANGED <<trail, reborrow, notified, flow>>
        /\ phase'[p] = "done" /\ outcome'[p] \in {"Dropped", "Unwound"}
    BY <1>a, <1>9 DEF DropBind, NotifyUnwinds, AfterCommitFrame
  <2>2. reborrow[p] = None /\ p \notin notified /\ trail[p] \in {<<>>, <<flow[p]>>}
    BY <2>1 DEF PhaseInv
  <2>3. QED
    BY <2>1, <2>2 DEF PhaseInv, Stages
<1>10. CASE Notify(p)
  <2>1. phase[p] = "notify" /\ UNCHANGED <<trail, reborrow, flow, outcome>>
        /\ phase'[p] = "bound" /\ p \in notified'
    BY <1>a, <1>10 DEF Notify, AfterCommitFrame
  <2>2. kind[p] \in Moderation /\ reborrow[p] = None /\ outcome[p] = "Bound" /\ trail[p] = <<"Bound">>
    BY <2>1 DEF PhaseInv
  <2>3. Opened(p)'
    <3>1. trail'[p] = <<"Bound">>
      BY <2>1, <2>2
    <3>2. QED
      BY <3>1 DEF Opened
  <2>4. reborrow'[p] # "Expired"
    BY <2>1, <2>2 DEF None
  <2>5. QED
    BY <1>b, <2>1, <2>2, <2>3, <2>4 DEF PhaseInv, Stages
<1>11. CASE Reborrow(p)
  <2>1. phase[p] = "bound" /\ UNCHANGED <<phase, trail, outcome, notified, flow>> /\ reborrow'[p] = "Ref"
    BY <1>a, <1>11 DEF Reborrow, BorrowFrame, Borrowed
  <2>2. QED
    BY <1>b, <2>1 DEF PhaseInv, Stages, Opened
<1>12. CASE ReborrowFails(p)
  <2>1. /\ phase[p] = "bound" /\ UNCHANGED <<phase, outcome, notified, flow>>
        /\ Opened(p) /\ outcome[p] = "Bound"
        /\ kind[p] \in Moderation => p \in notified /\ trail[p] = <<"Bound">>
        /\ kind[p] \notin Moderation => p \notin notified
    BY <1>12, ReborrowCases DEF BorrowFrame, PhaseInv
  <2>2. CASE /\ trail' = [trail EXCEPT ![p] = Append(trail[p], "ReborrowFailed")]
             /\ kind[p] \in User \cup Channel \cup Substrate
    <3> DEFINE s == trail'[p]
               n == Len(trail[p])
    <3>1. "ReborrowFailed" \in Events /\ s = Append(trail[p], "ReborrowFailed")
      BY <1>a, <2>2, TrailExtended DEF Events
    <3>2. /\ Len(s) = n + 1 /\ s[n + 1] = "ReborrowFailed" /\ n \in Nat
          /\ \A i \in 1 .. n : s[i] = trail[p][i]
          /\ DOMAIN s = 1 .. n + 1 /\ s \in Seq(Events)
      BY <1>a, <3>1, SinglesTyped
    <3>3. n >= 1
      BY <1>a, <2>1 DEF Opened
    <3> HIDE DEF s
    <3>4. s # <<>> /\ s[1] = "Bound" /\ \A i \in 2 .. Len(s) : s[i] = "ReborrowFailed"
      <4>1. ASSUME NEW i \in 2 .. n + 1 PROVE s[i] = "ReborrowFailed"
        BY <2>1, <3>2 DEF Opened
      <4>2. s[1] = "Bound"
        BY <2>1, <3>2, <3>3 DEF Opened
      <4>3. s # <<>>
        BY <3>2
      <4>4. QED
        BY <3>2, <4>1, <4>2, <4>3
    <3>5. Opened(p)'
      BY <3>4 DEF Opened, s
    <3>6. HasFailure(p)'
      <4>1. n + 1 \in DOMAIN s /\ s[n + 1] = "ReborrowFailed"
        BY <3>2
      <4>2. QED
        BY <4>1 DEF HasFailure, s
    <3>7. kind'[p] \notin Moderation
      BY <1>b, <2>2, KindClasses
    <3>8. QED
      BY <1>b, <2>1, <3>5, <3>6, <3>7 DEF PhaseInv, Stages
  <2>3. CASE UNCHANGED trail /\ reborrow'[p] # "Expired"
    BY <1>b, <2>1, <2>3 DEF PhaseInv, Stages, Opened
  <2>4. CASE UNCHANGED trail /\ kind[p] \in Substrate \cup Moderation
    <3>1. kind[p] \notin User \cup Channel
      BY <2>4, KindClasses DEF Substrate, Channel
    <3>2. QED
      BY <1>b, <2>1, <2>4, <3>1 DEF PhaseInv, Stages, Opened
  <2>5. QED
    BY <1>a, <1>12, <2>2, <2>3, <2>4, ReborrowCases DEF Borrowed
<1>13. QED
  BY <1>1, <1>2, <1>3, <1>4, <1>5, <1>6, <1>7, <1>8, <1>9, <1>10, <1>11, <1>12
     DEF Step, ReborrowFails

-----------------------------------------------------------------------------
(* The clock readings, step by step. *)

LEMMA Bounds == /\ AudienceBound \in Nat /\ MaxLatency \in Nat /\ MaxAge \in Nat
BY BindAssumption

LEMMA StepTimeInv ==
    ASSUME TypeOK, WorldInv, NEW p \in Proof, PhaseInv(p), TimeInv(p), Step(p)
    PROVE  TimeInv(p)'
<1>a. /\ clock \in Nat /\ memberUntil \in Nat /\ audience.at \in Nat /\ member \in BOOLEAN
      /\ issuedAt[p] \in Nat /\ now[p] \in Nat /\ LastMember \in Nat
      /\ issuedAt \in [Proof -> Nat] /\ now \in [Proof -> Nat]
      /\ phase \in [Proof -> Phases] /\ outcome \in [Proof -> Outcomes \cup {None}]
      /\ flow \in [Proof -> Flows \cup {None}] /\ Functional
  BY InvFunctional DEF TypeOK, LastMember
<1>b. UNCHANGED <<clock, member, memberUntil, audience, kind>> /\ LastMember' = LastMember
  BY <1>a, StepFrame DEF OnlyProof, worldVars, oracleVars, LastMember
<1> USE DEF Goto, Answer
(* Bind is over: nothing is said of its readings any more. *)
<1>c. ASSUME phase'[p] = "done", UNCHANGED <<issuedAt, now>> PROVE TimeInv(p)'
  BY <1>a, <1>b, <1>c DEF TimeInv, Running, Granted
(* A stage that grants nothing. *)
<1>d. ASSUME phase[p] \in Stages, phase'[p] \in Stages, phase'[p] # "audience",
             phase'[p] = "commit" => flow'[p] # "Bound" \/ kind[p] \notin Audience,
             UNCHANGED <<issuedAt, now>>
      PROVE  TimeInv(p)'
  BY <1>a, <1>b, <1>d DEF TimeInv, Running, Granted, Stages
(* A phase after the commit that keeps what was granted. *)
<1>e. ASSUME phase[p] \notin {"none", "issued", "done"},
             phase'[p] \in {"equalize", "notify", "bound", "done"},
             Granted(p)' /\ kind[p] \in Audience => Granted(p),
             UNCHANGED <<issuedAt, now>>
      PROVE  TimeInv(p)'
  BY <1>a, <1>b, <1>e DEF TimeInv, Running
<1>1. CASE Issue(p)
  <2>1. phase'[p] \in {"issued", "done"} /\ now' = now /\ (issuedAt'[p] = clock \/ issuedAt' = issuedAt)
    BY <1>1, <1>a DEF Issue
  <2>2. QED
    BY <1>a, <1>b, <2>1 DEF TimeInv, Running, Granted
<1>2. CASE Bind(p)
  <2>1. phase[p] = "issued" /\ issuedAt' = issuedAt
    BY <1>2, BindCases
  <2>2. CASE \E v \in {"TargetMismatch", "ContextMismatch", "Expired"} : Answer(p, v)
             /\ UNCHANGED <<now, flow>>
    BY <1>a, <1>c, <2>1, <2>2
  <2>3. CASE /\ now' = [now EXCEPT ![p] = clock]
             /\ \/ \E stage \in {"deprecation", "block"} : Enter(p, stage)
                \/ Queue(p, "Bound") /\ kind[p] \in Channel \cup Substrate
    <3>1. now'[p] = clock
      BY <1>a, <2>3
    <3>2. phase'[p] \in {"deprecation", "block"} \/ (phase'[p] = "commit" /\ kind[p] \notin Audience)
      <4>1. kind[p] \in Channel \cup Substrate => kind[p] \notin Audience
        BY KindClasses
      <4>2. QED
        BY <1>a, <2>3, <4>1 DEF Enter, Queue
    <3>3. QED
      BY <1>a, <1>b, <2>1, <3>1, <3>2, Bounds DEF TimeInv, Running, Granted
  <2>4. QED
    BY <1>2, <2>2, <2>3, BindCases
<1>3. CASE DeprecationGate(p)
  <2>1. /\ phase[p] = "deprecation" /\ UNCHANGED <<issuedAt, now>>
        /\ \/ Queue(p, "Denied")
           \/ Queue(p, "Bound") /\ kind[p] \in Moderation
           \/ Enter(p, "block")
    BY <1>3 DEF DeprecationGate, StageFrame
  <2>2. kind[p] \in Moderation => kind[p] \notin Audience
    BY KindClasses
  <2>3. QED
    BY <1>a, <1>d, <2>1, <2>2 DEF Queue, Enter, Stages
<1>4. CASE BlockConsultation(p)
  BY <1>a, <1>d, <1>4 DEF BlockConsultation, StageFrame, Queue, Enter, Stages
<1>5. CASE AudienceFreshness(p)
  <2>1. phase[p] = "freshness" /\ UNCHANGED <<issuedAt, now>>
    BY <1>5 DEF AudienceFreshness, StageFrame
  <2>2. CASE Queue(p, "OracleStale")
    BY <1>a, <1>d, <2>1, <2>2 DEF Queue, Stages
  <2>3. CASE ~Stale(p) /\ Enter(p, "audience")
    <3>1. phase'[p] = "audience"
      BY <1>a, <2>3 DEF Enter
    <3>2. now[p] <= audience.at + AudienceBound
      BY <1>a, <2>3, Bounds DEF Stale
    <3>3. QED
      BY <1>a, <1>b, <2>1, <3>1, <3>2 DEF TimeInv, Running, Granted
  <2>4. QED
    BY <1>5, <2>2, <2>3 DEF AudienceFreshness
<1>6. CASE AudienceConsultation(p)
  <2>1. phase[p] = "audience" /\ UNCHANGED <<issuedAt, now>> /\ phase'[p] = "commit"
        /\ flow'[p] = IF audience.says THEN "Bound" ELSE "Denied"
    BY <1>a, <1>6 DEF AudienceConsultation, StageFrame, Queue
  <2>2. CASE ~audience.says
    BY <1>d, <2>1, <2>2 DEF Stages
  <2>3. CASE audience.says
    <3>1. now[p] <= LastMember + AudienceBound
      BY <1>a, <2>1, <2>3, Bounds DEF WorldInv, TimeInv
    <3>2. QED
      BY <1>a, <1>b, <2>1, <3>1 DEF TimeInv, Running, Granted
  <2>4. QED
    BY <2>2, <2>3
<1>7. CASE OracleUnwinds(p) \/ SinkUnwinds(p) \/ DropBind(p) \/ NotifyUnwinds(p)
  BY <1>a, <1>c, <1>7 DEF OracleUnwinds, SinkUnwinds, DropBind, NotifyUnwinds, CommitFrame,
                          AfterCommitFrame
<1>8. CASE SinkTakes(p) \/ SinkRefuses(p)
  <2>1. /\ phase[p] = "commit" /\ UNCHANGED <<issuedAt, now, flow>>
        /\ phase'[p] \in {"equalize", "notify", "bound", "done"}
    BY <1>a, <1>8 DEF SinkTakes, SinkRefuses, Settle, CommitFrame
  <2>2. Granted(p)' => Granted(p)
    <3>1. CASE SinkTakes(p)
      <4>1. outcome'[p] = flow[p] /\ (phase'[p] = "bound" => flow[p] = "Bound")
        BY <1>a, <3>1 DEF SinkTakes, Settle
      <4>2. QED
        BY <2>1, <4>1 DEF Granted
    <3>2. CASE SinkRefuses(p)
      <4>1. outcome'[p] = "AuditUnavailable" /\ phase'[p] # "bound"
        BY <1>a, <3>2 DEF SinkRefuses, Settle, Refusal
      <4>2. QED
        BY <2>1, <4>1 DEF Granted
    <3>3. QED
      BY <1>8, <3>1, <3>2
  <2>3. QED
    BY <1>e, <2>1, <2>2
<1>9. CASE Equalized(p)
  <2>1. /\ phase[p] = "equalize" /\ UNCHANGED <<issuedAt, now, flow>> /\ outcome'[p] = outcome[p]
        /\ phase'[p] = IF outcome[p] = "Bound" THEN "bound" ELSE "done"
    BY <1>a, <1>9 DEF Equalized, AfterCommitFrame
  <2>2. QED
    BY <1>e, <2>1 DEF Granted
<1>10. CASE Notify(p)
  <2>1. phase[p] = "notify" /\ UNCHANGED <<issuedAt, now>> /\ phase'[p] = "bound"
    BY <1>a, <1>10 DEF Notify, AfterCommitFrame
  <2>2. kind[p] \notin Audience
    BY <2>1, KindClasses DEF PhaseInv
  <2>3. QED
    BY <1>e, <2>1, <2>2
<1>11. CASE Reborrow(p) \/ ReborrowFails(p)
  <2>1. phase[p] = "bound" /\ UNCHANGED <<phase, issuedAt, now>>
    BY <1>11, ReborrowCases DEF Reborrow, BorrowFrame
  <2>2. QED
    BY <1>e, <2>1 DEF Granted
<1>12. QED
  BY <1>1, <1>2, <1>3, <1>4, <1>5, <1>6, <1>7, <1>8, <1>9, <1>10, <1>11
     DEF Step, ReborrowFails

(* The proofs a step does not move, and the steps that move none. *)

LEMMA FramedInv ==
    ASSUME NEW q \in Proof, SameProof(q), PhaseInv(q), TimeInv(q),
           UNCHANGED <<clock, worldVars, oracleVars, kind>>
    PROVE  PhaseInv(q)' /\ TimeInv(q)'
<1>1. PhaseInv(q)'
  BY DEF PhaseInv, SameProof, Unanswered, Opened, HasFailure
<1>2. LastMember' = LastMember
  BY DEF LastMember, worldVars
<1>3. TimeInv(q)'
  BY <1>2 DEF TimeInv, SameProof, Running, Granted, oracleVars
<1>4. QED
  BY <1>1, <1>3

LEMMA WorldStep ==
    ASSUME IInv, Tick \/ World \/ UNCHANGED vars
    PROVE  IInv'
<1>a. /\ clock \in Nat /\ clock' \in Nat /\ memberUntil \in Nat /\ memberUntil' \in Nat
      /\ audience.at \in Nat /\ audience'.at \in Nat /\ member \in BOOLEAN /\ member' \in BOOLEAN
      /\ audience' \in [says : BOOLEAN, at : Nat] /\ block' \in [says : BOOLEAN, at : Nat]
      /\ UNCHANGED proofVars
      /\ MaxLatency \in Nat /\ AudienceBound \in Nat
  <2>1. /\ clock \in Nat /\ memberUntil \in Nat /\ member \in BOOLEAN
        /\ audience \in [says : BOOLEAN, at : Nat] /\ block \in [says : BOOLEAN, at : Nat]
    BY DEF IInv, TypeOK
  <2>2. CASE Tick \/ UNCHANGED vars
    BY <2>1, <2>2, Bounds DEF Tick, vars, worldVars, oracleVars
  <2>3. CASE JoinAudience
    BY <2>1, <2>3, Bounds DEF JoinAudience, oracleVars
  <2>4. CASE LeaveAudience
    BY <2>1, <2>4, Bounds DEF LeaveAudience, oracleVars
  <2>5. CASE SyncAudience
    BY <2>1, <2>5, Bounds DEF SyncAudience, worldVars
  <2>6. CASE SyncBlock
    BY <2>1, <2>6, Bounds DEF SyncBlock, worldVars
  <2>7. QED
    BY <2>2, <2>3, <2>4, <2>5, <2>6 DEF World
<1>1. TypeOK'
  BY <1>a DEF IInv, TypeOK, proofVars
<1>2. /\ LastMember \in Nat /\ LastMember' \in Nat /\ LastMember <= LastMember'
      /\ audience.at <= audience'.at /\ clock <= clock'
      /\ WorldInv'
  <2>1. /\ memberUntil <= clock /\ audience.at <= clock
        /\ audience.says => audience.at <= LastMember
    BY DEF IInv, WorldInv
  <2>2. CASE Tick \/ UNCHANGED vars
    BY <1>a, <2>1, <2>2 DEF Tick, vars, worldVars, oracleVars, LastMember, WorldInv
  <2>3. CASE JoinAudience
    BY <1>a, <2>1, <2>3 DEF JoinAudience, oracleVars, LastMember, WorldInv
  <2>4. CASE LeaveAudience
    BY <1>a, <2>1, <2>4 DEF LeaveAudience, oracleVars, LastMember, WorldInv
  <2>5. CASE SyncAudience
    BY <1>a, <2>1, <2>5 DEF SyncAudience, worldVars, LastMember, WorldInv
  <2>6. CASE SyncBlock
    BY <1>a, <2>1, <2>6 DEF SyncBlock, worldVars, LastMember, WorldInv
  <2>7. QED
    BY <2>2, <2>3, <2>4, <2>5, <2>6 DEF World
<1>3. ASSUME NEW q \in Proof PROVE PhaseInv(q)' /\ TimeInv(q)'
  <2>1. PhaseInv(q) /\ TimeInv(q) /\ now[q] \in Nat /\ issuedAt[q] \in Nat
    BY DEF IInv, TypeOK
  <2>2. PhaseInv(q)'
    BY <1>a, <2>1 DEF proofVars, PhaseInv, Unanswered, Opened, HasFailure
  <2>3. Running(q) => clock' <= now[q] + MaxLatency
    <3>1. \/ clock' = clock
          \/ clock' = clock + 1 /\ (Running(q) => clock < now[q] + MaxLatency)
      BY DEF Tick, World, JoinAudience, LeaveAudience, SyncAudience, SyncBlock, vars
    <3>2. QED
      BY <1>a, <2>1, <3>1 DEF TimeInv
  <2>4. TimeInv(q)'
    BY <1>a, <1>2, <2>1, <2>3 DEF proofVars, TimeInv, Running, Granted
  <2>5. QED
    BY <2>2, <2>4
<1>4. QED
  BY <1>1, <1>2, <1>3 DEF IInv

LEMMA ProofStep ==
    ASSUME IInv, NEW p \in Proof, Step(p)
    PROVE  IInv'
<1>a. Functional /\ OnlyProof(p) /\ PhaseInv(p) /\ TimeInv(p)
  BY InvFunctional, StepFrame DEF IInv
<1>1. PhaseInv(p)' /\ TimeInv(p)' /\ Functional'
  BY <1>a, StepPhaseInv, StepTimeInv, StepFunctional DEF IInv
<1>2. \A q \in Proof : PhaseInv(q)' /\ TimeInv(q)'
  <2>1. ASSUME NEW q \in Proof, q # p PROVE PhaseInv(q)' /\ TimeInv(q)'
    BY <1>a, <2>1, FramedInv DEF OnlyProof, IInv
  <2>2. QED
    BY <1>1, <2>1
<1>3. WorldInv'
  BY <1>a DEF IInv, WorldInv, OnlyProof, worldVars, oracleVars, LastMember
<1>4. TypeOK'
  <2>1. notified' \subseteq {q \in Proof : kind'[q] \in Moderation}
    <3>1. kind' = kind /\ notified \subseteq {q \in Proof : kind[q] \in Moderation}
      BY <1>a DEF OnlyProof, IInv, TypeOK
    <3>2. ASSUME p \in notified' PROVE kind[p] \in Moderation
      <4>1. CASE p \in notified
        BY <3>1, <4>1
      <4>2. CASE p \notin notified
        <5>1. phase'[p] = "bound" => kind[p] \in Moderation
          BY <1>1, <3>1, <3>2 DEF PhaseInv
        <5>2. phase'[p] = "bound"
          BY <1>1, <3>2 DEF PhaseInv, Functional, Phases, Stages, Unanswered
        <5>3. QED
          BY <5>1, <5>2
      <4>3. QED
        BY <4>1, <4>2
    <3>3. notified' \subseteq notified \cup {p}
      <4>1. notified' = notified \/ notified' = notified \cup {p}
        <5>1. Bind(p) => notified' = notified
          BY BindCases
        <5>2. ReborrowFails(p) => notified' = notified
          BY ReborrowCases DEF BorrowFrame
        <5>3. QED
          BY <5>1, <5>2 DEF Step, ReborrowFails, Issue, DeprecationGate, BlockConsultation,
             AudienceFreshness, AudienceConsultation, OracleUnwinds, SinkTakes, SinkRefuses,
             SinkUnwinds, Equalized, DropBind, Notify, NotifyUnwinds, Reborrow, StageFrame,
             CommitFrame, BorrowFrame
      <4>2. QED
        BY <4>1
    <3>4. QED
      BY <3>1, <3>2, <3>3
  <2>2. \A q \in Proof : phase'[q] = "bound" => outcome'[q] = "Bound"
    BY <1>2 DEF PhaseInv
  <2>3. UNCHANGED <<clock, member, memberUntil, audience, block>>
    BY <1>a DEF OnlyProof, worldVars, oracleVars
  <2>4. QED
    BY <1>1, <2>1, <2>2, <2>3 DEF TypeOK, Functional, IInv
<1>5. QED
  BY <1>2, <1>3, <1>4 DEF IInv

LEMMA InitInv == Init => IInv
<1> SUFFICES ASSUME Init PROVE IInv
  OBVIOUS
<1>1. /\ kind \in [Proof -> Kind] /\ notified = {}
      /\ \A p \in Proof :
            /\ phase[p] = "none" /\ issuedAt[p] = 0 /\ now[p] = 0 /\ outcome[p] = None
            /\ reborrow[p] = None /\ trail[p] = <<>>
  BY DEF Init
<1>2. TypeOK
  <2>1. <<>> \in Seq(Events)
    OBVIOUS
  <2>2. QED
    BY <2>1 DEF Init, TypeOK, Phases
<1>3. WorldInv
  BY DEF Init, WorldInv, LastMember
<1>4. \A p \in Proof : PhaseInv(p) /\ TimeInv(p)
  <2>1. clock = 0
    BY DEF Init
  <2>2. ASSUME NEW p \in Proof PROVE PhaseInv(p)
    BY <1>1 DEF PhaseInv, Unanswered, Stages
  <2>3. ASSUME NEW p \in Proof PROVE TimeInv(p)
    BY <1>1, <2>1 DEF TimeInv, Running, Granted
  <2>4. QED
    BY <2>2, <2>3
<1>5. QED
  BY <1>2, <1>3, <1>4 DEF IInv

-----------------------------------------------------------------------------
(* Theorems *)

(* Phase by phase, what is in the trail, what was answered and how old the    *)
(* readings are.                                                              *)
THEOREM InductiveInvariant == Spec => []IInv
<1>1. IInv /\ [Next]_vars => IInv'
  BY WorldStep, ProofStep DEF Next
<1>2. QED
  BY <1>1, InitInv, PTL DEF Spec

(* Every variable keeps its type. *)
THEOREM TypeCorrect == Spec => []TypeOK
<1>1. IInv => TypeOK
  BY DEF IInv
<1>2. QED
  BY <1>1, InductiveInvariant, PTL

(* What bind and reborrow returned tells what the trail of the proof holds,   *)
(* for any number of proofs and wherever a sink, an oracle or the caller      *)
(* breaks off.                                                                *)
THEOREM OutcomesOnRecord == Spec => []TrailMatchesOutcome
<1>1. IInv => TrailMatchesOutcome
  <2> SUFFICES ASSUME IInv, NEW p \in Proof, phase[p] \in {"bound", "done"}
               PROVE  /\ outcome[p] \in {"Dropped", "Unwound"} => trail[p] \in {<<>>, <<flow[p]>>}
                      /\ outcome[p] \notin {"Dropped", "Unwound", "Bound"} =>
                             trail[p] = Promised(outcome[p])
                      /\ outcome[p] = "Bound" => Opened(p)
                      /\ reborrow[p] = "Expired" /\ kind[p] \in User \cup Channel => HasFailure(p)
    BY DEF TrailMatchesOutcome, Opened, HasFailure
  <2>1. PhaseInv(p)
    BY DEF IInv
  <2>2. QED
    BY <2>1 DEF PhaseInv, None
<1>2. QED
  BY <1>1, InductiveInvariant, PTL

(* The owner is notified of a moderation act only once it is in the trail,    *)
(* and of every act whose proof was handed out.                               *)
THEOREM NoticesOnRecord == Spec => []NoticeFollowsAudit
<1>1. IInv => NoticeFollowsAudit
  <2> SUFFICES ASSUME IInv, NEW p \in Proof
               PROVE  /\ p \in notified => trail[p] = <<"Bound">>
                      /\ phase[p] = "bound" /\ kind[p] \in Moderation => p \in notified
    BY DEF NoticeFollowsAudit
  <2>1. PhaseInv(p) /\ phase[p] \in Phases
    BY DEF IInv, TypeOK
  <2>2. QED
    BY <2>1 DEF PhaseInv, Phases, Stages, Unanswered
<1>2. QED
  BY <1>1, InductiveInvariant, PTL

(* A membership that has ended backs no bind past the freshness bound and one *)
(* latency, and no reference past the freshness bound and MAX_AGE.            *)
THEOREM RevocationIsHonoured == Spec => RevocationHonoured
<1> DEFINE Honoured(p) ==
               /\ trail[p] = <<>> /\ trail'[p] = <<"Bound">> =>
                      clock <= LastMember + AudienceBound + MaxLatency
               /\ borrowedAt'[p] # borrowedAt[p] =>
                      clock <= LastMember + AudienceBound + MaxAge
<1>1. ASSUME IInv, Next, NEW p \in Proof, kind[p] \in Audience PROVE Honoured(p)
  <2>a. /\ clock \in Nat /\ now[p] \in Nat /\ issuedAt[p] \in Nat /\ LastMember \in Nat
        /\ trail \in [Proof -> Seq(Events)] /\ borrowedAt \in [Proof -> Nat] /\ Functional
        /\ PhaseInv(p) /\ TimeInv(p)
    BY <1>1, InvFunctional DEF IInv, TypeOK, LastMember
  <2>b. trail'[p] = trail[p] => ~(trail[p] = <<>> /\ trail'[p] = <<"Bound">>)
    <3>1. ASSUME NEW s, s = <<>>, s = <<"Bound">> PROVE FALSE
      <4>1. Len(s) = 0
        BY <3>1
      <4>2. Len(s) = 1
        BY <3>1
      <4>3. QED
        BY <4>1, <4>2
    <3>2. QED
      BY <3>1
  <2>1. CASE trail'[p] = trail[p] /\ borrowedAt'[p] = borrowedAt[p]
    BY <2>b, <2>1
  <2>2. CASE SinkTakes(p)
    <3>1. phase[p] = "commit" /\ borrowedAt' = borrowedAt
      BY <2>2 DEF SinkTakes, CommitFrame
    <3>2. trail'[p] = Append(trail[p], flow[p]) /\ trail[p] = <<>>
      BY <2>a, <2>2, <3>1 DEF SinkTakes, PhaseInv, Stages, Unanswered
    <3>3. trail'[p] = <<"Bound">> => flow[p] = "Bound"
      BY <3>2
    <3>4. trail'[p] = <<"Bound">> => now[p] <= LastMember + AudienceBound
      BY <1>1, <2>a, <3>1, <3>3 DEF TimeInv, Granted
    <3>5. clock <= now[p] + MaxLatency
      BY <2>a, <3>1 DEF TimeInv, Running
    <3>6. now[p] <= LastMember + AudienceBound => clock <= LastMember + AudienceBound + MaxLatency
      BY <2>a, <3>5, Bounds
    <3>7. QED
      BY <3>1, <3>4, <3>6
  <2>3. CASE Reborrow(p)
    <3>1. phase[p] = "bound" /\ trail' = trail /\ clock - issuedAt[p] <= MaxAge
      BY <2>3 DEF Reborrow, InWindow, Age
    <3>2. now[p] <= LastMember + AudienceBound /\ issuedAt[p] <= now[p]
      BY <1>1, <2>a, <3>1 DEF TimeInv, Granted
    <3>3. clock <= LastMember + AudienceBound + MaxAge
      BY <2>a, <3>1, <3>2, Bounds
    <3>4. QED
      BY <2>b, <3>1, <3>3
  <2>4. CASE ReborrowFails(p)
    <3>1. borrowedAt' = borrowedAt
      BY <2>4, ReborrowCases
    <3>2. trail[p] # <<>>
      BY <2>a, <2>4, ReborrowCases DEF PhaseInv, Opened
    <3>3. QED
      BY <3>1, <3>2
  <2>5. QED
    <3>1. ASSUME NEW q \in Proof, Step(q), q # p
          PROVE  trail'[p] = trail[p] /\ borrowedAt'[p] = borrowedAt[p]
      BY <2>a, <3>1, StepFrame DEF OnlyProof, SameProof
    <3>2. Tick \/ World => trail' = trail /\ borrowedAt' = borrowedAt
      BY DEF Tick, World, JoinAudience, LeaveAudience, SyncAudience, SyncBlock, proofVars
    <3>3. ASSUME Step(p), ~SinkTakes(p), ~Reborrow(p), ~ReborrowFails(p)
          PROVE  trail' = trail /\ borrowedAt' = borrowedAt
      BY <3>3, BindCases DEF Step, ReborrowFails, Issue, DeprecationGate, BlockConsultation,
         AudienceFreshness, AudienceConsultation, OracleUnwinds, SinkRefuses, SinkUnwinds,
         Equalized, DropBind, Notify, NotifyUnwinds, StageFrame, CommitFrame, AfterCommitFrame
    <3>4. \/ SinkTakes(p) \/ Reborrow(p) \/ ReborrowFails(p)
          \/ trail'[p] = trail[p] /\ borrowedAt'[p] = borrowedAt[p]
      BY <1>1, <3>1, <3>2, <3>3 DEF Next
    <3>5. QED
      BY <2>1, <2>2, <2>3, <2>4, <3>4
<1>2. ASSUME UNCHANGED vars, NEW p \in Proof PROVE Honoured(p)
  BY <1>2 DEF vars, proofVars
<1>3. IInv /\ [Next]_vars => [\A p \in Proof : kind[p] \in Audience => Honoured(p)]_vars
  BY <1>1, <1>2
<1>4. QED
  BY <1>3, InductiveInvariant, PTL DEF Spec, RevocationHonoured

(* The answer of a user bind waits for its target in every stage that may end *)
(* it, a failed audit included.                                               *)
THEOREM AnswersAreEqualized == Spec => NoEarlyAnswer
<1> DEFINE Answers(p) == /\ kind[p] \in User
                         /\ phase[p] \notin {"none", "issued", "bound", "done"}
                         /\ phase'[p] \in {"bound", "done"}
                         /\ outcome'[p] \notin {"Dropped", "Unwound"}
<1>1. ASSUME IInv, Next, NEW p \in Proof, Answers(p) PROVE clock >= now[p] + Target
  <2>a. /\ phase \in [Proof -> Phases] /\ outcome \in [Proof -> Outcomes \cup {None}]
        /\ Functional /\ PhaseInv(p)
    BY <1>1, InvFunctional DEF IInv, TypeOK
  <2>1. Step(p)
    <3>1. ASSUME NEW q \in Proof, Step(q), q # p PROVE phase'[p] = phase[p]
      BY <2>a, <3>1, StepFrame DEF OnlyProof, SameProof
    <3>2. Tick \/ World => phase' = phase
      BY DEF Tick, World, JoinAudience, LeaveAudience, SyncAudience, SyncBlock, proofVars
    <3>3. QED
      BY <1>1, <3>1, <3>2 DEF Next
  <2>2. ~(Issue(p) \/ Bind(p) \/ Reborrow(p) \/ ReborrowFails(p))
    BY <1>1, BindCases, ReborrowCases DEF Issue, Reborrow
  <2>3. ~(DeprecationGate(p) \/ BlockConsultation(p) \/ AudienceFreshness(p)
          \/ AudienceConsultation(p))
    BY <1>1, <2>a DEF DeprecationGate, BlockConsultation, AudienceFreshness,
                      AudienceConsultation, Queue, Enter, Goto
  <2>4. ~(OracleUnwinds(p) \/ SinkUnwinds(p) \/ DropBind(p) \/ NotifyUnwinds(p))
    BY <1>1, <2>a DEF OracleUnwinds, SinkUnwinds, DropBind, NotifyUnwinds, Answer
  <2>5. ~(SinkTakes(p) \/ SinkRefuses(p))
    BY <1>1, <2>a DEF SinkTakes, SinkRefuses, Settle, Goto
  <2>6. ~Notify(p)
    BY <1>1, <2>a, KindClasses DEF Notify, PhaseInv
  <2>7. Equalized(p)
    BY <2>1, <2>2, <2>3, <2>4, <2>5, <2>6 DEF Step, ReborrowFails
  <2>8. QED
    BY <2>7 DEF Equalized
<1>2. ASSUME UNCHANGED vars, NEW p \in Proof PROVE ~Answers(p)
  BY <1>2 DEF vars, proofVars
<1>3. IInv /\ [Next]_vars => [\A p \in Proof : Answers(p) => clock >= now[p] + Target]_vars
  BY <1>1, <1>2
<1>4. QED
  BY <1>3, InductiveInvariant, PTL DEF Spec, NoEarlyAnswer
=============================================================================
