--------------------------- MODULE MCReasoningSession ---------------------------
(***************************************************************************)
(* A small instance of ReasoningSession: two substrates that can replace each *)
(* other, a budget of two steps that may be narrowed to one, and identities   *)
(* of decisions that may come back.                                         *)
(***************************************************************************)
EXTENDS ReasoningSession, TLC

Counter == {"steps", BranchDepth}
Cost(steps, depth) == [k \in Counter |-> IF k = BranchDepth THEN depth ELSE steps]
Budget(steps) == [policy_name |-> "fast", stop_conditions |-> {}, max |-> Cost(steps, 1)]

Binding ==
  [request_id |-> "r", authorization_context_id |-> "a", security_policy_revision_id |-> "p",
   effective_data_classification |-> "internal", provider_network_policy |-> "native",
   offline_required |-> FALSE, capability_snapshot_id |-> "A"]

MCRequest ==
  {[security_binding |-> Binding, content |-> "question",
    max_latency_ms |-> 1, max_compute_units |-> 1, max_memory_bytes |-> 1,
    reasoning_budget |-> Budget(steps), required_accuracy |-> Absent,
    required_determinism |-> FALSE, required_explainability |-> FALSE,
    verification_requirements |-> {}, admitted_at |-> 0, deadline |-> 1] : steps \in {1, 2}}

Substrate ==
  [owner |-> "native", substrate_kind |-> "NATIVE_MODEL", capabilities |-> {"reason"},
   availability_state |-> "AVAILABLE", offline_capable |-> FALSE,
   network_requirements |-> {"local"}, data_handling_profile |-> {"internal"},
   authorization_requirements |-> {}, determinism_profile |-> "any",
   verification_profile |-> {}, min_compute_units |-> 1, min_memory_bytes |-> 1,
   max_latency_ms |-> 1, validated_at |-> 0, valid_until |-> 9]

MCSnapshot ==
  {[snapshot_id |-> "A", created_at |-> 0, substrates |-> [id \in SubstrateId |-> Substrate]]}

MCPolicy ==
  {[security_policy_revision_id |-> "p", authorization_context_id |-> "a",
    provider_network_policy |-> "native", required_capabilities |-> {"reason"},
    allowed_substrate_kinds |-> {"NATIVE_MODEL"}, allowed_network_requirements |-> {"local"},
    satisfied_authorization_requirements |-> {}, deterministic_profiles |-> {},
    allow_degraded |-> FALSE, max_selected_substrates |-> 1, explainability_profile |-> NoProfile]}

MCFallback ==
  {[allowed_triggers |-> {"ROUTE_EXECUTION_FAILURE"}, allowed_owner_refs |-> {"native"},
    allowed_substrate_kinds |-> {"NATIVE_MODEL"}, allowed_network_requirements |-> {"local"},
    allow_degraded |-> FALSE, max_selected_substrates |-> 1,
    allow_previous_substrate_reuse |-> FALSE]}

MCDelta == {Cost(1, 1)}
Identities == Permutations(DecisionId)
=============================================================================
