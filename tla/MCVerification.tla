----------------------------- MODULE MCVerification -----------------------------
(***************************************************************************)
(* A small instance of Verification.  Substrate 1 produced the subject;       *)
(* 2 and 3 are verifiers of two owners, and 1 and 2 share an                 *)
(* owner.  The snapshot was built again under the same identity, without the  *)
(* producer; the validation of 3 does not last as long as the others'.       *)
(***************************************************************************)
EXTENDS Verification, TLC

Counter == {"steps", VerifierPasses, BranchDepth}
Cost(passes) == [k \in Counter |-> IF k = VerifierPasses THEN passes ELSE 0]
Budget(passes) == [policy_name |-> "fast", stop_conditions |-> {}, max |-> Cost(passes)]

Binding(revision) ==
  [request_id |-> "r", authorization_context_id |-> "a", security_policy_revision_id |-> revision,
   effective_data_classification |-> "internal", provider_network_policy |-> "native",
   offline_required |-> FALSE, capability_snapshot_id |-> "A"]
MCBinding == {Binding("p"), Binding("q")}

MCRequest ==
  {[security_binding |-> Binding("p"), correlation_id |-> "c", max_latency_ms |-> 1,
    max_compute_units |-> 1, max_memory_bytes |-> 1, required_accuracy |-> Absent,
    required_determinism |-> FALSE, required_explainability |-> FALSE,
    verification_requirements |-> {"proof"}, deadline |-> d] : d \in {NoTime, 1}}

MCDecision ==
  {[decision_id |-> "d", security_binding |-> Binding("p"), reasoning_budget |-> Budget(2),
    created_at |-> 0, expires_at |-> 9]}

Substrate(owner, kind, version, until) ==
  [owner |-> owner, substrate_kind |-> kind, substrate_version |-> version,
   capabilities |-> {"check"}, availability_state |-> "AVAILABLE", offline_capable |-> TRUE,
   network_requirements |-> {"local"}, data_handling_profile |-> {"internal"},
   authorization_requirements |-> {}, determinism_profile |-> "exact",
   verification_profile |-> {"proof"}, min_compute_units |-> 1, min_memory_bytes |-> 1,
   max_latency_ms |-> 1, validated_at |-> 0, valid_until |-> until]

MCSnapshot ==
  {[snapshot_id |-> "A", created_at |-> 0,
    substrates |-> 1 :> Substrate("native", "VERIFIER", 1, 9)
                @@ 2 :> Substrate("native", "VERIFIER", 1, 9)
                @@ 3 :> Substrate("partner", "VERIFIER", 1, 1)],
   [snapshot_id |-> "A", created_at |-> 0,
    substrates |-> 2 :> Substrate("native", "VERIFIER", 1, 9)
                @@ 3 :> Substrate("partner", "VERIFIER", 1, 1)]}

MCSelectionPolicy ==
  {[security_policy_revision_id |-> "p", authorization_context_id |-> "a",
    provider_network_policy |-> "native", required_capabilities |-> {"check"},
    allowed_substrate_kinds |-> {"VERIFIER"}, allowed_network_requirements |-> {"local"},
    satisfied_authorization_requirements |-> {}, deterministic_profiles |-> {"exact"},
    allow_degraded |-> FALSE, max_selected_substrates |-> 3, explainability_profile |-> NoProfile]}

Policy(assertions, support, independence, review, deadline) ==
  [required_assertions |-> assertions, required_evidence_classes |-> {"log"},
   required_verifier_classes |-> {"proof"}, independence_requirement |-> independence,
   minimum_supporting_verifiers |-> support, max_verifier_passes |-> 2,
   human_review_required |-> review, deadline |-> deadline]

MCVerificationPolicy ==
  {Policy({"x"}, 2, {}, FALSE, NoTime),
   Policy({"x", "y"}, 1, {"DISTINCT_OWNER"}, FALSE, 2),
   Policy({"x"}, 1, {"DETERMINISTIC"}, TRUE, 1)}

MCReport ==
  {[status |-> "SUPPORTED", evidence_refs |-> {"e"}, contradictions |-> {}],
   [status |-> "SUPPORTED", evidence_refs |-> {}, contradictions |-> {"c"}],
   [status |-> "CONTRADICTORY", evidence_refs |-> {}, contradictions |-> {"c"}],
   [status |-> "INSUFFICIENT_EVIDENCE", evidence_refs |-> {"e"}, contradictions |-> {}]}

MCCatalog == "e" :> "log"
MCDelta == {Cost(1)}
MCProducer == {1}
=============================================================================
