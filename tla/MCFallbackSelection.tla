-------------------------- MODULE MCFallbackSelection --------------------------
(***************************************************************************)
(* Every snapshot of three substrates that are degraded or not, cheap or     *)
(* not, and local, remote or another owner's, under every pair of policies   *)
(* that differ in fan-out, degraded routes and network access.               *)
(***************************************************************************)
EXTENDS FallbackSelection, TLC

Counter == {"steps", BranchDepth}

Binding ==
  [request_id |-> "r", authorization_context_id |-> "a", security_policy_revision_id |-> "p",
   effective_data_classification |-> "internal", provider_network_policy |-> "any",
   offline_required |-> FALSE, capability_snapshot_id |-> "A"]

MCRequest ==
  {[security_binding |-> Binding, content |-> "question",
    max_latency_ms |-> 1, max_compute_units |-> 2, max_memory_bytes |-> 1,
    required_accuracy |-> Absent, required_determinism |-> FALSE,
    required_explainability |-> FALSE, verification_requirements |-> {}, deadline |-> NoTime]}

Substrates ==
  {[owner |-> place[1], substrate_kind |-> "NATIVE_MODEL", capabilities |-> {"reason"},
    availability_state |-> availability, offline_capable |-> FALSE,
    network_requirements |-> place[2], data_handling_profile |-> {"internal"},
    authorization_requirements |-> {}, determinism_profile |-> "any",
    verification_profile |-> {}, min_compute_units |-> cost, min_memory_bytes |-> 1,
    max_latency_ms |-> 1, validated_at |-> 0, valid_until |-> 9] :
     availability \in {"AVAILABLE", "DEGRADED"}, cost \in {1, 2},
     place \in {<<"native", {"local"}>>, <<"native", {"net"}>>, <<"partner", {"local"}>>}}

MCSnapshot ==
  {[snapshot_id |-> "A", created_at |-> 0, substrates |-> s] : s \in [SubstrateId -> Substrates]}

MCPolicy ==
  {[security_policy_revision_id |-> "p", authorization_context_id |-> "a",
    provider_network_policy |-> "any", required_capabilities |-> {"reason"},
    allowed_substrate_kinds |-> {"NATIVE_MODEL"}, allowed_network_requirements |-> {"local", "net"},
    satisfied_authorization_requirements |-> {}, deterministic_profiles |-> {},
    allow_degraded |-> degraded, max_selected_substrates |-> n,
    explainability_profile |-> NoProfile] : degraded \in BOOLEAN, n \in {1, 2}}

MCFallback ==
  {[allowed_owner_refs |-> {"native"}, allowed_substrate_kinds |-> {"NATIVE_MODEL"},
    allowed_network_requirements |-> net, allow_degraded |-> degraded,
    max_selected_substrates |-> n, allow_previous_substrate_reuse |-> reuse] :
     net \in {{"local"}, {"local", "net"}}, degraded \in BOOLEAN, n \in {1, 2}, reuse \in BOOLEAN}

MCPrevious == {[selected_substrates |-> {1}]}
=============================================================================
