-------------------------- MODULE MCVerificationOwners --------------------------
(***************************************************************************)
(* A small instance of Verification about owners.  Substrate 1 produced the  *)
(* subject; 1 and 2 belong to one owner, 3 and 4 to another.  The snapshot    *)
(* was built again under the same identity, without the producer and without *)
(* one of the verifiers.                                                    *)
(***************************************************************************)
EXTENDS Verification, TLC

Counter == {VerifierPasses, BranchDepth}
Cost(passes) == [k \in Counter |-> IF k = VerifierPasses THEN passes ELSE 0]

Binding ==
  [request_id |-> "r", authorization_context_id |-> "a", security_policy_revision_id |-> "p",
   effective_data_classification |-> "internal", provider_network_policy |-> "native",
   offline_required |-> FALSE, capability_snapshot_id |-> "A"]
MCBinding == {Binding}

MCRequest ==
  {[security_binding |-> Binding, correlation_id |-> "c", max_latency_ms |-> 1,
    max_compute_units |-> 1, max_memory_bytes |-> 1, required_accuracy |-> Absent,
    required_determinism |-> FALSE, required_explainability |-> FALSE,
    verification_requirements |-> {"proof"}, deadline |-> NoTime]}

MCDecision ==
  {[decision_id |-> "d", security_binding |-> Binding,
    reasoning_budget |-> [policy_name |-> "fast", stop_conditions |-> {}, max |-> Cost(3)],
    created_at |-> 0, expires_at |-> 9]}

Verifier(owner) ==
  [owner |-> owner, substrate_kind |-> "VERIFIER", substrate_version |-> 1,
   capabilities |-> {"check"}, availability_state |-> "AVAILABLE", offline_capable |-> TRUE,
   network_requirements |-> {"local"}, data_handling_profile |-> {"internal"},
   authorization_requirements |-> {}, determinism_profile |-> "exact",
   verification_profile |-> {"proof"}, min_compute_units |-> 1, min_memory_bytes |-> 1,
   max_latency_ms |-> 1, validated_at |-> 0, valid_until |-> 9]

Owner == 1 :> "native" @@ 2 :> "native" @@ 3 :> "partner" @@ 4 :> "partner"
Listing(ids) ==
  [snapshot_id |-> "A", created_at |-> 0, substrates |-> [v \in ids |-> Verifier(Owner[v])]]
MCSnapshot == {Listing(1..4), Listing(2..4), Listing(1..3), Listing({2, 4})}

MCSelectionPolicy ==
  {[security_policy_revision_id |-> "p", authorization_context_id |-> "a",
    provider_network_policy |-> "native", required_capabilities |-> {"check"},
    allowed_substrate_kinds |-> {"VERIFIER"}, allowed_network_requirements |-> {"local"},
    satisfied_authorization_requirements |-> {}, deterministic_profiles |-> {"exact"},
    allow_degraded |-> FALSE, max_selected_substrates |-> 4, explainability_profile |-> NoProfile]}

MCVerificationPolicy ==
  {[required_assertions |-> {"x"}, required_evidence_classes |-> {"log"},
    required_verifier_classes |-> {"proof"}, independence_requirement |-> {"DISTINCT_OWNER"},
    minimum_supporting_verifiers |-> support, max_verifier_passes |-> 3,
    human_review_required |-> FALSE, deadline |-> NoTime] : support \in {1, 2}}

MCReport ==
  {[status |-> "SUPPORTED", evidence_refs |-> {"e"}, contradictions |-> {}],
   [status |-> "INSUFFICIENT_EVIDENCE", evidence_refs |-> {"e"}, contradictions |-> {}]}

MCCatalog == "e" :> "log"
MCDelta == {}
MCProducer == {1}
=============================================================================
