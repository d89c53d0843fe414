------------------------------ MODULE MCDiscovery ------------------------------
(***************************************************************************)
(* A small instance of Discovery: two substrates, one of which is offered as  *)
(* revoked, and two bindings that differ in the snapshot and the policy      *)
(* revision that they name.                                                 *)
(***************************************************************************)
EXTENDS Discovery, TLC

Binding(snapshot_id, revision) ==
  [request_id |-> "r", authorization_context_id |-> "a", security_policy_revision_id |-> revision,
   effective_data_classification |-> "internal", provider_network_policy |-> "native",
   offline_required |-> FALSE, capability_snapshot_id |-> snapshot_id]
MCBinding == {Binding("A", "p"), Binding("B", "q")}

Descriptor(availability) ==
  [owner |-> "native", substrate_kind |-> "NATIVE_MODEL", capabilities |-> {"reason"},
   availability_state |-> availability, offline_capable |-> TRUE,
   network_requirements |-> {"local"}, data_handling_profile |-> {"internal"},
   authorization_requirements |-> {}, determinism_profile |-> "any",
   verification_profile |-> {}, min_compute_units |-> 1, max_compute_units |-> 2,
   min_memory_bytes |-> 1, max_memory_bytes |-> 1, max_latency_ms |-> 1]

MCOffer ==
  {[substrate_id |-> 1, descriptor |-> Descriptor("AVAILABLE")],
   [substrate_id |-> 2, descriptor |-> Descriptor("REVOKED")]}

MCTerms ==
  {[request_id |-> "r", max_latency_ms |-> 1, max_compute_units |-> 1, max_memory_bytes |-> 1,
    required_accuracy |-> Absent, required_determinism |-> FALSE,
    required_explainability |-> FALSE, verification_requirements |-> {}]}

MCPolicy ==
  {[security_policy_revision_id |-> revision, authorization_context_id |-> "a",
    provider_network_policy |-> "native", required_capabilities |-> {"reason"},
    allowed_substrate_kinds |-> {"NATIVE_MODEL"}, allowed_network_requirements |-> {"local"},
    satisfied_authorization_requirements |-> {}, deterministic_profiles |-> {},
    allow_degraded |-> FALSE, max_selected_substrates |-> 2,
    explainability_profile |-> NoProfile] : revision \in {"p", "q"}}

MCDeadline == {NoDeadline, 1}
=============================================================================
