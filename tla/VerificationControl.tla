-------------------------- MODULE VerificationControl --------------------------
(***************************************************************************)
(* The three operations of verification.py: begin, record one observation,  *)
(* finalize.  They are pure; as elsewhere Can... is the condition under      *)
(* which a call returns.  One request is verified, so its own identity is    *)
(* compared nowhere; decision, correlation, binding and snapshot are.        *)
(*                                                                         *)
(*   policy       VerificationPolicy; independence_requirement is the set of *)
(*                what it requires, {} for NONE                             *)
(*   observation  VerifierObservation without its limitations               *)
(*   catalog      the admitted evidence references, each with its class     *)
(***************************************************************************)
EXTENDS CandidateSelection, LifecycleGraph, TerminationRequirement

VerifierPasses == "verifier_passes"
ASSUME VerifierPassesAssumption == VerifierPasses \in Dimension

(* ReasoningBudgetDelta(verifier_passes=1) *)
OnePass == [k \in Dimension |-> IF k = VerifierPasses THEN 1 ELSE 0]

Objection == {"UNSUPPORTED", "CONTRADICTORY", "VERIFICATION_ERROR"}
AssertionStatus == Objection \cup {"SUPPORTED", "INSUFFICIENT_EVIDENCE"}
StopStatus == {"CANCELLED", "DEADLINE"}
VerificationStatus == AssertionStatus \cup StopStatus \cup {"POLICY_BLOCKED", "RESOURCE_LIMIT"}

Independence == {"DISTINCT_OWNER", "DETERMINISTIC"}
NoProducer == -1    \* None, for subject_producer_substrate_id

(* VerifierObservation with what its constructor requires. *)
ValidObservation(o) ==
  o.status \in AssertionStatus /\ (o.status = "CONTRADICTORY" => o.contradictions # {})

-----------------------------------------------------------------------------
(* _validate_common_bindings *)
BindingsHold(request, decision, lifecycle, snapshot, binding, now) ==
  /\ decision.security_binding = request.security_binding
  /\ binding = request.security_binding
  /\ lifecycle.routing_decision_id = decision.decision_id
  /\ lifecycle.correlation_id = request.correlation_id
  /\ lifecycle.state = "VERIFYING"
  /\ snapshot.snapshot_id = binding.capability_snapshot_id
  /\ InvalidReasons(decision, binding, now) = {}

(* Mutated form: a requirement evaluated at another instant will do. *)
EvaluatedAtAnyTime(requirement, now) == TRUE

(* _validate_termination_requirement *)
EvaluatedAt(requirement, now) == requirement.evaluated_at = now

(* _effective_deadline *)
EffectiveDeadline(request, policy) ==
  IF policy.deadline # NoTime /\ (request.deadline # NoTime => policy.deadline <= request.deadline)
  THEN policy.deadline
  ELSE request.deadline

InTime(request, policy, now) == ~Reached(EffectiveDeadline(request, policy), now)

-----------------------------------------------------------------------------
(* _selected_verifiers: the ordinary candidate selection, and only then     *)
(* what is not independent of the producer is taken out.                    *)

(* Mutated form: another substrate is enough, its owner is not asked for. *)
IndependentVerifierOfAnyOwner(snapshot, selection, policy, producer, id) ==
  /\ id # producer
  /\ "DETERMINISTIC" \in policy.independence_requirement =>
       snapshot.substrates[id].determinism_profile \in selection.deterministic_profiles

(* Mutated form: only another owner is asked for, not another substrate. *)
IndependentVerifierByOwner(snapshot, selection, policy, producer, id) ==
  LET Of(v) == snapshot.substrates[v]
  IN /\ "DETERMINISTIC" \in policy.independence_requirement =>
          Of(id).determinism_profile \in selection.deterministic_profiles
     /\ "DISTINCT_OWNER" \in policy.independence_requirement
        /\ producer \in DOMAIN snapshot.substrates => Of(id).owner # Of(producer).owner

IndependentVerifier(snapshot, selection, policy, producer, id) ==
  LET Of(v) == snapshot.substrates[v]
  IN /\ id # producer
     /\ "DETERMINISTIC" \in policy.independence_requirement =>
          Of(id).determinism_profile \in selection.deterministic_profiles
     /\ "DISTINCT_OWNER" \in policy.independence_requirement
        /\ producer \in DOMAIN snapshot.substrates => Of(id).owner # Of(producer).owner

SelectedVerifiers(request, snapshot, selection, policy, producer, now) ==
  {id \in Selected(request, snapshot, selection, now) :
     IndependentVerifier(snapshot, selection, policy, producer, id)}

(* begin_verification_orchestration *)
CanBeginVerification(request, decision, lifecycle, snapshot, selection, policy,
                     requirement, binding, now) ==
  /\ BindingsHold(request, decision, lifecycle, snapshot, binding, now)
  /\ EvaluatedAt(requirement, now) /\ ~requirement.required
  /\ InTime(request, policy, now)
  /\ policy.max_verifier_passes <= decision.reasoning_budget.max[VerifierPasses]
  /\ selection.allowed_substrate_kinds = {"VERIFIER"}
  /\ policy.required_verifier_classes \subseteq request.verification_requirements
  /\ CanSelect(request, snapshot, selection, binding, now)

Orchestration(request, lifecycle, snapshot, selection, policy, catalog, producer, now) ==
  [policy |-> policy,
   subject_producer |-> producer,
   selected_verifiers |-> SelectedVerifiers(request, snapshot, selection, policy, producer, now),
   evidence_catalog |-> catalog,
   observations |-> {},
   lifecycle |-> lifecycle,
   started_at |-> now]

-----------------------------------------------------------------------------
(* record_verifier_observation.  The instant of the call is the one that    *)
(* the observation names.                                                   *)

(* Mutated form: a verifier may be heard on one assertion again and again;   *)
(* neither this function nor the constructor of its state objects.          *)
IsAdmissibleRepeated(state, snapshot, o) ==
  /\ o.verifier \in state.selected_verifiers
  /\ o.assertion \in state.policy.required_assertions
  /\ o.verifier \in DOMAIN snapshot.substrates
  /\ snapshot.substrates[o.verifier].substrate_kind = "VERIFIER"
  /\ o.method_version = snapshot.substrates[o.verifier].substrate_version
  /\ o.evidence_refs \subseteq DOMAIN state.evidence_catalog

IsAdmissible(state, snapshot, o) ==
  /\ o.verifier \in state.selected_verifiers
  /\ o.assertion \in state.policy.required_assertions
  /\ \A p \in state.observations : p.verifier # o.verifier \/ p.assertion # o.assertion
  /\ o.verifier \in DOMAIN snapshot.substrates
  /\ snapshot.substrates[o.verifier].substrate_kind = "VERIFIER"
  /\ o.method_version = snapshot.substrates[o.verifier].substrate_version
  /\ o.evidence_refs \subseteq DOMAIN state.evidence_catalog

PassesLeft(state) ==
  state.lifecycle.budget_state.usage.used[VerifierPasses] < state.policy.max_verifier_passes

CanRecord(request, decision, state, snapshot, o, requirement, binding) ==
  /\ BindingsHold(request, decision, state.lifecycle, snapshot, binding, o.observed_at)
  /\ EvaluatedAt(requirement, o.observed_at) /\ ~requirement.required
  /\ state.started_at <= o.observed_at
  /\ InTime(request, state.policy, o.observed_at)
  /\ IsAdmissible(state, snapshot, o)
  /\ PassesLeft(state)
  /\ CanTransition(decision, state.lifecycle, "VERIFYING", OnePass)

(* Mutated form: the lifecycle is advanced, but the pass is not charged. *)
RecordedFree(state, o) ==
  [state EXCEPT !.observations = state.observations \cup {o},
                !.lifecycle = NextSnapshot(state.lifecycle, "VERIFYING", NoCost)]

Recorded(state, o) ==
  [state EXCEPT !.observations = state.observations \cup {o},
                !.lifecycle = NextSnapshot(state.lifecycle, "VERIFYING", OnePass)]

-----------------------------------------------------------------------------
(* finalize_verification *)

Relevant(state, assertion) == {o \in state.observations : o.assertion = assertion}

Supporting(state, assertion) ==
  {o.verifier : o \in {p \in Relevant(state, assertion) : p.status = "SUPPORTED"}}

(* Evidence counts whatever the status of the observation that refers to it. *)
ObservedClasses(state, assertion) ==
  {state.evidence_catalog[ref] :
     ref \in UNION {o.evidence_refs : o \in Relevant(state, assertion)}}

(* Mutated form: who is no longer listed counts as an owner of its own. *)
IndependenceSatisfiedByMissing(supporting, policy, snapshot) ==
  LET listed == supporting \cap DOMAIN snapshot.substrates
      owners == {snapshot.substrates[v].owner : v \in listed}
  IN /\ supporting # {}
     /\ "DISTINCT_OWNER" \in policy.independence_requirement =>
          Cardinality(owners) + Cardinality(supporting \ listed)
            >= policy.minimum_supporting_verifiers

(* _independence_satisfied: verifiers that are no longer listed are passed  *)
(* over, and what is not deterministic is told by its name.                 *)
IndependenceSatisfied(supporting, policy, snapshot) ==
  LET listed == supporting \cap DOMAIN snapshot.substrates
      Of(v) == snapshot.substrates[v]
  IN /\ supporting # {}
     /\ "DISTINCT_OWNER" \in policy.independence_requirement =>
          Cardinality({Of(v).owner : v \in listed}) >= policy.minimum_supporting_verifiers
     /\ "DETERMINISTIC" \in policy.independence_requirement =>
          \A v \in listed : Of(v).determinism_profile # "nondeterministic"

(* Mutated form: support is enough when somebody supports. *)
EnoughForSupportOfOne(state, assertion, snapshot) ==
  /\ state.policy.required_evidence_classes \subseteq ObservedClasses(state, assertion)
  /\ IndependenceSatisfied(Supporting(state, assertion), state.policy, snapshot)

EnoughForSupport(state, assertion, snapshot) ==
  /\ Cardinality(Supporting(state, assertion)) >= state.policy.minimum_supporting_verifiers
  /\ state.policy.required_evidence_classes \subseteq ObservedClasses(state, assertion)
  /\ IndependenceSatisfied(Supporting(state, assertion), state.policy, snapshot)

(* _assertion_result and _overall_status put the same statuses first, in    *)
(* this order.                                                              *)
FirstObjection(statuses) ==
  IF "CONTRADICTORY" \in statuses THEN "CONTRADICTORY"
  ELSE IF "VERIFICATION_ERROR" \in statuses THEN "VERIFICATION_ERROR"
  ELSE "UNSUPPORTED"

AssertionResult(state, assertion, snapshot) ==
  LET statuses == {o.status : o \in Relevant(state, assertion)}
  IN IF statuses \cap Objection # {} THEN FirstObjection(statuses)
     ELSE IF EnoughForSupport(state, assertion, snapshot) THEN "SUPPORTED"
     ELSE "INSUFFICIENT_EVIDENCE"

OverallStatus(statuses, policy) ==
  IF statuses \cap Objection # {} THEN FirstObjection(statuses)
  ELSE IF "INSUFFICIENT_EVIDENCE" \in statuses THEN "INSUFFICIENT_EVIDENCE"
  ELSE IF policy.human_review_required THEN "POLICY_BLOCKED"
  ELSE "SUPPORTED"

(* Mutated form: what has to stop is refused instead of reported. *)
CanFinalizeUnlessStopped(request, decision, state, snapshot, requirement, binding, now) ==
  /\ state.started_at <= now
  /\ BindingsHold(request, decision, state.lifecycle, snapshot, binding, now)
  /\ EvaluatedAt(requirement, now) /\ ~requirement.required

CanFinalize(request, decision, state, snapshot, requirement, binding, now) ==
  /\ state.started_at <= now
  /\ BindingsHold(request, decision, state.lifecycle, snapshot, binding, now)
  /\ EvaluatedAt(requirement, now)

(* Mutated form: every stop is taken for a cancellation. *)
FinalStatusAnyStop(request, state, snapshot, requirement, now) ==
  IF requirement.required THEN "CANCELLED"
  ELSE OverallStatus({AssertionResult(state, a, snapshot) : a \in state.policy.required_assertions},
                     state.policy)

FinalStatus(request, state, snapshot, requirement, now) ==
  LET statuses == {AssertionResult(state, a, snapshot) : a \in state.policy.required_assertions}
  IN IF requirement.required
     THEN IF requirement.reason = "DEADLINE" THEN "DEADLINE" ELSE "CANCELLED"
     ELSE IF InTime(request, state.policy, now) THEN OverallStatus(statuses, state.policy)
     ELSE "DEADLINE"

VerificationResult(request, state, snapshot, requirement, now) ==
  [status |-> FinalStatus(request, state, snapshot, requirement, now),
   contradictions |-> UNION {o.contradictions : o \in state.observations},
   verifier_identities |-> {o.verifier : o \in state.observations},
   budget_state |-> state.lifecycle.budget_state,
   started_at |-> state.started_at,
   finished_at |-> now]

=============================================================================
