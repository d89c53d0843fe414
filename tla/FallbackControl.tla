---------------------------- MODULE FallbackControl ----------------------------
(***************************************************************************)
(* replan_fallback_route of fallback.py: a fresh route for a request whose  *)
(* present route failed, on terms that may only be narrower.  The function  *)
(* raises unless every condition of CanReplan holds; then it selects, and    *)
(* NO_VALID_ROUTE is its answer when nothing is left to select.             *)
(***************************************************************************)
EXTENDS CandidateSelection, ReasoningBudget, TerminationRequirement

FailureTrigger == {"PRIMARY_ROUTE_UNAVAILABLE", "ROUTE_EXECUTION_FAILURE"}
FallbackTrigger == FailureTrigger \cup
  {"STALE_ROUTING_DECISION", "VERIFICATION_ESCALATION", "UNCERTAINTY_ESCALATION"}

-----------------------------------------------------------------------------
(* _validate_fallback_policy_narrowing *)
NarrowsPolicy(fallback, policy) ==
  /\ fallback.allowed_substrate_kinds \subseteq policy.allowed_substrate_kinds
  /\ fallback.allowed_network_requirements \subseteq policy.allowed_network_requirements
  /\ fallback.allow_degraded => policy.allow_degraded
  /\ fallback.max_selected_substrates <= policy.max_selected_substrates

(* _validate_request_continuity, one operator for each thing that must not  *)
(* be widened.                                                              *)

KeepsIdentity(previous, current) ==
  /\ current.content = previous.content
  /\ \A f \in {"authorization_context_id", "effective_data_classification",
               "provider_network_policy"} :
       current.security_binding[f] = previous.security_binding[f]

KeepsCeilings(previous, current) ==
  \A f \in {"max_latency_ms", "max_compute_units", "max_memory_bytes"} :
    current[f] <= previous[f]

(* Mutated form: verification requirements are compared the wrong way round. *)
KeepsQualityReversed(previous, current) ==
  /\ previous.required_accuracy # Absent =>
       current.required_accuracy # Absent /\ current.required_accuracy >= previous.required_accuracy
  /\ previous.required_determinism => current.required_determinism
  /\ previous.required_explainability => current.required_explainability
  /\ current.verification_requirements \subseteq previous.verification_requirements
  /\ previous.security_binding.offline_required => current.security_binding.offline_required

KeepsQuality(previous, current) ==
  /\ previous.required_accuracy # Absent =>
       current.required_accuracy # Absent /\ current.required_accuracy >= previous.required_accuracy
  /\ previous.required_determinism => current.required_determinism
  /\ previous.required_explainability => current.required_explainability
  /\ previous.verification_requirements \subseteq current.verification_requirements
  /\ previous.security_binding.offline_required => current.security_binding.offline_required

(* Mutated form: two deadlines are compared, but one may be removed. *)
KeepsDeadlineIfAny(previous, current) ==
  previous.deadline # NoTime /\ current.deadline # NoTime => current.deadline <= previous.deadline

KeepsDeadline(previous, current) ==
  previous.deadline # NoTime =>
    current.deadline # NoTime /\ current.deadline <= previous.deadline

ContinuesRequest(previous, current, binding, now) ==
  /\ current.security_binding = binding
  /\ previous.admitted_at <= current.admitted_at /\ current.admitted_at <= now
  /\ KeepsIdentity(previous, current)
  /\ KeepsCeilings(previous, current)
  /\ KeepsQuality(previous, current)
  /\ KeepsDeadline(previous, current)

(* _validate_termination_state.  An evaluation is a TerminationRequirement   *)
(* with the decision it was made for.                                       *)

(* Mutated form: an evaluation made earlier will do. *)
MayContinueOnOldEvaluation(evaluation, decision, now) ==
  /\ evaluation.decision_id = decision.decision_id
  /\ ~evaluation.requirement.required

MayContinue(evaluation, decision, now) ==
  /\ evaluation.decision_id = decision.decision_id
  /\ evaluation.requirement.evaluated_at = now
  /\ ~evaluation.requirement.required

-----------------------------------------------------------------------------
(* _carry_budget_usage *)

(* Mutated form: ceilings are not compared. *)
NarrowsBudgetByName(current, previous) ==
  /\ current.policy_name = previous.policy_name
  /\ previous.stop_conditions \subseteq current.stop_conditions

NarrowsBudget(current, previous) ==
  /\ current.policy_name = previous.policy_name
  /\ previous.stop_conditions \subseteq current.stop_conditions
  /\ \A k \in Dimension : current.max[k] <= previous.max[k]

(* Mutated form: the narrower budget need not cover what has been consumed. *)
CanCarryUnchecked(previous, current, decision, ledger) ==
  /\ previous.reasoning_budget = decision.reasoning_budget
  /\ LedgerMatches(decision, ledger)
  /\ NarrowsBudget(current.reasoning_budget, decision.reasoning_budget)

CanCarry(previous, current, decision, ledger) ==
  /\ previous.reasoning_budget = decision.reasoning_budget
  /\ LedgerMatches(decision, ledger)
  /\ NarrowsBudget(current.reasoning_budget, decision.reasoning_budget)
  /\ ExceededDimensions(current.reasoning_budget, ledger.usage.used) = {}

(* Mutated form: the ledger of the replacement starts from nothing. *)
CarriedLedgerFromZero(id, current, ledger) ==
  [decision_id |-> id, usage |-> [budget |-> current.reasoning_budget, used |-> NoCost]]

CarriedLedger(id, current, ledger) ==
  [decision_id |-> id,
   usage |-> [budget |-> current.reasoning_budget, used |-> ledger.usage.used]]

-----------------------------------------------------------------------------
(* _select_fallback_substrates *)

Excluded(decision, fallback, unavailable) ==
  unavailable \cup (IF fallback.allow_previous_substrate_reuse THEN {}
                    ELSE decision.selected_substrates)

Permitted(fallback, s) ==
  /\ s.owner \in fallback.allowed_owner_refs
  /\ s.substrate_kind \in fallback.allowed_substrate_kinds
  /\ s.network_requirements \subseteq fallback.allowed_network_requirements
  /\ s.availability_state = "DEGRADED" => fallback.allow_degraded

(* Mutated form: only what the candidate policy had selected is looked at. *)
FallbackSelectedOfSelected(request, decision, snapshot, policy, fallback, unavailable, now) ==
  FirstRanked(snapshot,
    {id \in Selected(request, snapshot, policy, now) \ Excluded(decision, fallback, unavailable) :
       Permitted(fallback, snapshot.substrates[id])},
    fallback.max_selected_substrates)

FallbackSelected(request, decision, snapshot, policy, fallback, unavailable, now) ==
  FirstRanked(snapshot,
    {id \in EligibleIds(request, policy, snapshot, now) \ Excluded(decision, fallback, unavailable) :
       Permitted(fallback, snapshot.substrates[id])},
    fallback.max_selected_substrates)

(* What replan_fallback_route is given besides the past: a record of the    *)
(* current request, its snapshot and policies, the trigger, the substrates  *)
(* reported unavailable, the new identity and its expiry.                   *)
CanReplan(previous, decision, ledger, evaluation, in, now) ==
  LET current == in.request
      binding == current.security_binding
  IN /\ in.trigger \in in.fallback.allowed_triggers
     /\ in.new_decision_id # decision.decision_id
     /\ in.expires_at > now
     /\ decision.security_binding = previous.security_binding
     /\ previous.admitted_at <= now
     /\ ContinuesRequest(previous, current, binding, now)
     /\ NarrowsPolicy(in.fallback, in.policy)
     /\ MayContinue(evaluation, decision, now)
     /\ CanCarry(previous, current, decision, ledger)
     /\ current.deadline # NoTime => in.expires_at <= current.deadline
     /\ in.trigger \in FailureTrigger => in.unavailable # {}
     /\ in.trigger = "STALE_ROUTING_DECISION" => InvalidReasons(decision, binding, now) # {}
     /\ CanSelect(current, in.snapshot, in.policy, binding, now)

(* The RoutingDecision of a replacement.  policy is the candidate policy    *)
(* that its router_policy_id and router_policy_version name.                *)
Replacement(decision, in, now) ==
  [decision_id |-> in.new_decision_id,
   security_binding |-> in.request.security_binding,
   policy |-> in.policy,
   selected_substrates |->
     FallbackSelected(in.request, decision, in.snapshot, in.policy, in.fallback,
                      in.unavailable, now),
   reasoning_budget |-> in.request.reasoning_budget,
   created_at |-> now,
   expires_at |-> in.expires_at]

=============================================================================
