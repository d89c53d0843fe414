------------------------------ MODULE Verification ------------------------------
(***************************************************************************)
(* One request and its verifications in turn, with time, a cancellation, the *)
(* end of the lifecycle, snapshots that are built anew and verifiers that    *)
(* answer late.  The caller of verification.py holds the newest lifecycle    *)
(* snapshot; it drops a verification when it moves the lifecycle on without  *)
(* it, but the lifecycle may be ended from elsewhere at any time.  Reports   *)
(* come from verifiers outside, with the instant at which they observed, and *)
(* are recorded in any order and any time later, or never.                   *)
(***************************************************************************)
EXTENDS VerificationControl

CONSTANTS Request,              \* admitted requests
          Decision,             \* routing decisions
          Snapshot,             \* capability snapshots; several may carry one identity
          SelectionPolicy, VerificationPolicy,
          Producer,             \* who may have produced the subject, NoProducer included
          Assertion,
          Version,              \* versions of verifiers
          Catalog,              \* the admitted evidence references, each with its class
          Report,               \* what a verifier may say: [status, evidence_refs, contradictions]
          SecurityBinding,      \* the security bindings that may be current
          NextState, Delta,     \* transitions of the lifecycle outside verification
          MaxTime, MaxSequence  \* bounds: the clock, the transitions

ASSUME VerificationAssumption ==
  /\ \A r \in Request : r.correlation_id \in CorrelationId
  /\ \A d \in Decision : d.decision_id \in DecisionId /\ d.reasoning_budget \in ReasoningBudgets
  /\ \A p \in VerificationPolicy :
       /\ p.required_assertions \subseteq Assertion /\ p.required_assertions # {}
       /\ p.minimum_supporting_verifiers \in Nat \ {0}
       /\ p.max_verifier_passes \in Nat \ {0}
  /\ \A s \in Snapshot : DOMAIN s.substrates \subseteq SubstrateId
  /\ Delta \subseteq Counters
  /\ MaxTime \in Time

ASSUME DeadlineAssumption ==
  /\ \A r \in Request : r.deadline \in Time \cup {NoTime}
  /\ \A p \in VerificationPolicy : p.deadline \in Time \cup {NoTime}
  /\ \A d \in Decision : d.created_at \in Time /\ d.expires_at \in Time

ASSUME ReportAssumption ==
  \A r \in Report : ValidObservation(r)

VARIABLES
  now,           \* the clock
  cancelled_at,  \* when the caller was told to cancel, or NoTime
  ended_at,      \* when the lifecycle ended, or NoTime
  request, decision,
  lifecycle,     \* the newest lifecycle snapshot
  state,         \* the VerificationOrchestrationState in progress, or None
  begun,         \* history: the lifecycle and capability snapshots it began with
  result         \* the VerificationResult of this state, or None

vars == <<now, cancelled_at, ended_at, request, decision, lifecycle, state, begun, result>>
world == <<now, cancelled_at, ended_at, request, decision>>

None == <<>>    \* where a record is absent
InProgress == state # None

Init ==
  /\ now = 0 /\ cancelled_at = NoTime /\ ended_at = NoTime
  /\ request \in Request /\ decision \in Decision
  /\ lifecycle = InitialSnapshot(decision, request.correlation_id)
  /\ state = None /\ begun = None /\ result = None

-----------------------------------------------------------------------------
Tick ==
  /\ now < MaxTime
  /\ now' = now + 1
  /\ UNCHANGED <<cancelled_at, ended_at, request, decision, lifecycle, state, begun, result>>

Cancel ==
  /\ cancelled_at = NoTime
  /\ cancelled_at' = now
  /\ UNCHANGED <<now, ended_at, request, decision, lifecycle, state, begun, result>>

(* transition_reasoning_state, called outside verification. *)
Transition(to, delta) ==
  /\ lifecycle.sequence < MaxSequence \/ to \in TerminalState
  /\ CanTransition(decision, lifecycle, to, delta)
  /\ lifecycle' = NextSnapshot(lifecycle, to, delta)
  /\ IF to \in TerminalState
     THEN ended_at' = now /\ UNCHANGED <<state, begun, result>>
     ELSE state' = None /\ begun' = None /\ result' = None /\ UNCHANGED ended_at
  /\ UNCHANGED <<now, cancelled_at, request, decision>>

(* A requirement for instant t may have been evaluated before an event that *)
(* happened at t or later; afterwards it takes the event into account.      *)
MayKnow(event, t, known) == IF known THEN event # NoTime ELSE event = NoTime \/ t <= event

Requirement(t, ended, cancelled) ==
  RequirementAt(ended, IF cancelled THEN cancelled_at ELSE NoTime, request.deadline, t)

EvaluatedRequirements ==
  {Requirement(e[1], e[2], e[3]) :
     e \in {x \in (0..now) \X BOOLEAN \X BOOLEAN :
              MayKnow(ended_at, x[1], x[2]) /\ MayKnow(cancelled_at, x[1], x[3])}}

(* begin_verification_orchestration, with the newest lifecycle. *)
BeginVerification(snapshot, selection, policy, producer, requirement, binding) ==
  /\ CanBeginVerification(request, decision, lifecycle, snapshot, selection, policy,
                          requirement, binding, now)
  /\ state' = Orchestration(request, lifecycle, snapshot, selection, policy, Catalog, producer, now)
  /\ begun' = [lifecycle |-> lifecycle, snapshot |-> snapshot]
  /\ result' = None
  /\ UNCHANGED <<world, lifecycle>>

(* record_verifier_observation.  The caller goes on with the new state, and *)
(* with its lifecycle unless the lifecycle has been ended in the meantime.   *)
RecordVerifierObservation(snapshot, o, requirement, binding) ==
  /\ InProgress
  /\ CanRecord(request, decision, state, snapshot, o, requirement, binding)
  /\ state' = Recorded(state, o)
  /\ lifecycle' = IF IsTerminal(lifecycle) THEN lifecycle ELSE Recorded(state, o).lifecycle
  /\ result' = None
  /\ UNCHANGED <<world, begun>>

(* finalize_verification *)
FinalizeVerification(snapshot, requirement, binding) ==
  /\ InProgress
  /\ CanFinalize(request, decision, state, snapshot, requirement, binding, now)
  /\ result' = VerificationResult(request, state, snapshot, requirement, now)
  /\ UNCHANGED <<world, lifecycle, state, begun>>

Observed(v, version, assertion, report, at) ==
  [verifier |-> v, method_version |-> version, assertion |-> assertion,
   status |-> report.status, evidence_refs |-> report.evidence_refs,
   contradictions |-> report.contradictions, observed_at |-> at]

Next ==
  \/ Tick \/ Cancel
  \/ \E to \in NextState, delta \in Delta \cup {NoCost} : Transition(to, delta)
  \/ \E snapshot \in Snapshot, selection \in SelectionPolicy, policy \in VerificationPolicy,
        producer \in Producer, r \in EvaluatedRequirements, b \in SecurityBinding :
       BeginVerification(snapshot, selection, policy, producer, r, b)
  \/ \E snapshot \in Snapshot, v \in SubstrateId, version \in Version, a \in Assertion,
        report \in Report, at \in 0..now, r \in EvaluatedRequirements, b \in SecurityBinding :
       RecordVerifierObservation(snapshot, Observed(v, version, a, report, at), r, b)
  \/ \E snapshot \in Snapshot, r \in EvaluatedRequirements, b \in SecurityBinding :
       FinalizeVerification(snapshot, r, b)

Spec == Init /\ [][Next]_vars

-----------------------------------------------------------------------------
(* The lifecycle a verification holds is VERIFYING, belongs to the decision *)
(* and is within its ceilings; every observation comes from a selected       *)
(* verifier, speaks of a required assertion and refers to catalogued         *)
(* evidence; a result says what there is to say.                            *)
TypeOK ==
  /\ now \in Time /\ cancelled_at \in Time \cup {NoTime} /\ ended_at \in Time \cup {NoTime}
  /\ request \in Request /\ decision \in Decision
  /\ lifecycle \in LifecycleSnapshots /\ lifecycle.routing_decision_id = decision.decision_id
  /\ InProgress =>
       /\ state.lifecycle \in LifecycleSnapshots /\ state.lifecycle.state = "VERIFYING"
       /\ state.lifecycle.routing_decision_id = decision.decision_id
       /\ state.policy \in VerificationPolicy /\ state.started_at \in 0..now
       /\ state.selected_verifiers \subseteq SubstrateId \ {state.subject_producer}
       /\ \A o \in state.observations :
            /\ o.verifier \in state.selected_verifiers
            /\ o.assertion \in state.policy.required_assertions
            /\ o.status \in AssertionStatus
            /\ o.evidence_refs \subseteq DOMAIN state.evidence_catalog
            /\ o.observed_at \in state.started_at..now
  /\ result # None => InProgress /\ result.status \in VerificationStatus

(* Each observation has cost exactly one verifier pass and one lifecycle     *)
(* step and nothing else, and no pass was taken beyond the ceiling of the    *)
(* policy or of the decision, passes of earlier verifications included       *)
(* (record_verifier_observation: "consume one admitted verifier pass").      *)
PassesPaid ==
  InProgress =>
    LET count == Cardinality(state.observations)
        used == state.lifecycle.budget_state.usage.used
        before == begun.lifecycle.budget_state.usage.used
    IN /\ state.lifecycle.sequence = begun.lifecycle.sequence + count
       /\ \A k \in Dimension :
            used[k] = before[k] + (IF k = VerifierPasses THEN count ELSE 0)
       /\ count > 0 => used[VerifierPasses] <= state.policy.max_verifier_passes
       /\ used[VerifierPasses] <= decision.reasoning_budget.max[VerifierPasses]

(* SUPPORTED is earned: behind every required assertion stand as many        *)
(* different verifiers as the policy asks for, none of them the producer,    *)
(* with evidence of every required class; nobody who was heard objects; no    *)
(* human has yet to look (finalize_verification).                           *)
SupportIsEarned ==
  result # None /\ result.status = "SUPPORTED" =>
    /\ ~state.policy.human_review_required
    /\ \A o \in state.observations : o.status \notin Objection
    /\ \A a \in state.policy.required_assertions :
         LET said == {o \in state.observations : o.assertion = a}
             support == {o.verifier : o \in {p \in said : p.status = "SUPPORTED"}}
         IN /\ Cardinality(support) >= state.policy.minimum_supporting_verifiers
            /\ state.subject_producer \notin support
            /\ \A class \in state.policy.required_evidence_classes :
                 \E o \in said : \E ref \in o.evidence_refs : state.evidence_catalog[ref] = class

(* An instant at which verification may go on: no stop came before it and    *)
(* neither deadline has been reached.                                       *)
Running(t) ==
  /\ cancelled_at # NoTime => t <= cancelled_at
  /\ ended_at # NoTime => t <= ended_at
  /\ request.deadline # NoTime => t < request.deadline
  /\ state.policy.deadline # NoTime => t < state.policy.deadline

(* However late it is delivered, what was observed after a cancellation, the *)
(* end of the lifecycle or a deadline is not recorded, and a verdict finished *)
(* then says that it was stopped and never what was verified.               *)
StopForbidsVerdict ==
  /\ InProgress => Running(state.started_at) /\ \A o \in state.observations : Running(o.observed_at)
  /\ result # None /\ result.status \notin StopStatus => Running(result.finished_at)

(* Who supports is not owned by the owner of the producer, as far as the     *)
(* snapshot at the start lists the producer (_selected_verifiers): no        *)
(* verifier comes in later that was not chosen then.                        *)
IndependentSupport ==
  result # None /\ result.status = "SUPPORTED"
  /\ "DISTINCT_OWNER" \in state.policy.independence_requirement =>
    \A o \in state.observations :
      LET listed == begun.snapshot.substrates
      IN /\ o.verifier \in DOMAIN listed
         /\ state.subject_producer \in DOMAIN listed =>
              listed[o.verifier].owner # listed[state.subject_producer].owner

(* Snapshots do not disagree about who owns a substrate. *)
OwnersAreStable ==
  \A s, t \in Snapshot : \A v \in DOMAIN s.substrates \cap DOMAIN t.substrates :
    s.substrates[v].owner = t.substrates[v].owner

(* Who supports an assertion has as many different owners as the policy asks *)
(* for, by the snapshot from which the verifiers were chosen, although they   *)
(* are counted in the one at the end, which need not list all of them         *)
(* (_independence_satisfied): nobody counts as independent by going missing. *)
SupportFromDistinctOwners ==
  OwnersAreStable
  /\ result # None /\ result.status = "SUPPORTED"
  /\ "DISTINCT_OWNER" \in state.policy.independence_requirement =>
    \A a \in state.policy.required_assertions :
      Cardinality({begun.snapshot.substrates[v].owner : v \in Supporting(state, a)})
        >= state.policy.minimum_supporting_verifiers

(* A stop that is reported was one: CANCELLED when somebody had cancelled or *)
(* the lifecycle had ended by the instant of the verdict, DEADLINE when the  *)
(* earlier of the two deadlines had been reached (finalize_verification).    *)
StopVerdictIsTrue ==
  result # None =>
    /\ result.status = "CANCELLED" =>
         Reached(cancelled_at, result.finished_at) \/ Reached(ended_at, result.finished_at)
    /\ result.status = "DEADLINE" =>
         ~InTime(request, state.policy, result.finished_at)

(* A verification in progress can be given a verdict at any instant until    *)
(* its decision expires: no stop, no late, missing or refused observation,   *)
(* no used up pass and no snapshot that is built anew leaves it without an    *)
(* outcome (finalize_verification raises for none of these).                *)
VerdictIsReachable ==
  InProgress /\ now < decision.expires_at =>
    \E snapshot \in Snapshot, r \in EvaluatedRequirements :
      CanFinalize(request, decision, state, snapshot, r, request.security_binding, now)

(* What a reader of verdicts sees of a verification. *)
Said(o) == [verifier |-> o.verifier, assertion |-> o.assertion, status |-> o.status]
TermsSeen ==
  IF InProgress
  THEN [producer |-> state.subject_producer,
        assertions |-> state.policy.required_assertions,
        support |-> state.policy.minimum_supporting_verifiers,
        passes |-> state.policy.max_verifier_passes]
  ELSE None
HeardSeen == IF InProgress THEN {Said(o) : o \in state.observations} ELSE {}
VerdictSeen == IF result = None THEN "NONE" ELSE result.status

(* Verification keeps the promise of VerifiedClaim. *)
Promise == INSTANCE VerifiedClaim
  WITH Verdict <- VerificationStatus, Objecting <- Objection,
       terms <- TermsSeen, heard <- HeardSeen, verdict <- VerdictSeen
VerifiedClaimPromise == Promise!Spec

-----------------------------------------------------------------------------
(* What the documents say of verification, and the code does not do.         *)

(* An observation comes from a verifier whose validation is current when it  *)
(* observes: SECURITY.md, "every recorded verifier observation to come from  *)
(* a currently selected validated verifier".  The code only looks whether    *)
(* the verifier is listed.                                                  *)
VerifiersAreValidated ==
  InProgress =>
    \A o \in state.observations : \E s \in Snapshot :
      o.verifier \in DOMAIN s.substrates
      /\ ValidationRejections(s.substrates[o.verifier], o.observed_at) = {}

(* A result that names contradictions is not SUPPORTED: ARCHITECTURE.md,     *)
(* "contradiction ... cannot be promoted to support".  An observation may be *)
(* SUPPORTED and name contradictions all the same.                          *)
ContradictionIsNotSupport ==
  result # None /\ result.status = "SUPPORTED" => result.contradictions = {}

=============================================================================
