---------------------------- MODULE MCFallbackChain ----------------------------
(***************************************************************************)
(* A small instance of FallbackChain: two substrates, of which only the      *)
(* cheaper one can be verified in the first snapshot and both can be in the  *)
(* second, and requests that differ in everything a fallback may narrow.     *)
(***************************************************************************)
EXTENDS FallbackChain, TLC

Counter == {"steps", BranchDepth}
Cost(steps, depth) == [k \in Counter |-> IF k = BranchDepth THEN depth ELSE steps]
Budget(steps) == [policy_name |-> "fast", stop_conditions |-> {}, max |-> Cost(steps, 1)]

(* The security state before and after it became stricter. *)
Binding(snapshot_id, offline) ==
  [request_id |-> "r", authorization_context_id |-> "a", security_policy_revision_id |-> "p",
   effective_data_classification |-> "internal", provider_network_policy |-> "native",
   offline_required |-> offline, capability_snapshot_id |-> snapshot_id]

MCRequest ==
  {[security_binding |-> b, content |-> "question",
    max_latency_ms |-> 1, max_compute_units |-> 2, max_memory_bytes |-> 1,
    reasoning_budget |-> Budget(steps), required_accuracy |-> Absent,
    required_determinism |-> FALSE, required_explainability |-> FALSE,
    verification_requirements |-> v, admitted_at |-> 0, deadline |-> d] :
     b \in {Binding("A", FALSE), Binding("B", TRUE)}, steps \in {1, 2},
     v \in {{}, {"proof"}}, d \in {NoTime, 2}}

Substrate(cost, profile, offline, until) ==
  [owner |-> "native", substrate_kind |-> "NATIVE_MODEL", capabilities |-> {"reason"},
   availability_state |-> "AVAILABLE", offline_capable |-> offline,
   network_requirements |-> {"local"}, data_handling_profile |-> {"internal"},
   authorization_requirements |-> {}, determinism_profile |-> "any",
   verification_profile |-> profile, min_compute_units |-> cost, min_memory_bytes |-> 1,
   max_latency_ms |-> 1, validated_at |-> 0, valid_until |-> until]

MCSnapshot ==
  {[snapshot_id |-> "A", created_at |-> 0,
    substrates |-> 1 :> Substrate(1, {"proof"}, FALSE, 9) @@ 2 :> Substrate(2, {}, TRUE, 9)],
   [snapshot_id |-> "B", created_at |-> 1,
    substrates |-> 1 :> Substrate(1, {"proof"}, TRUE, 2) @@ 2 :> Substrate(2, {"proof"}, TRUE, 9)]}

MCPolicy ==
  {[security_policy_revision_id |-> "p", authorization_context_id |-> "a",
    provider_network_policy |-> "native", required_capabilities |-> {"reason"},
    allowed_substrate_kinds |-> {"NATIVE_MODEL"}, allowed_network_requirements |-> {"local"},
    satisfied_authorization_requirements |-> {}, deterministic_profiles |-> {},
    allow_degraded |-> FALSE, max_selected_substrates |-> 1, explainability_profile |-> NoProfile]}

MCFallback ==
  {[allowed_triggers |-> FallbackTrigger, allowed_owner_refs |-> {"native"},
    allowed_substrate_kinds |-> {"NATIVE_MODEL"}, allowed_network_requirements |-> {"local"},
    allow_degraded |-> FALSE, max_selected_substrates |-> 1,
    allow_previous_substrate_reuse |-> reuse] : reuse \in BOOLEAN}

MCDelta == {Cost(1, 1)}

Identities == Permutations(DecisionId)
=============================================================================
