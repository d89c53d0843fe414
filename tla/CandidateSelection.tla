-------------------------- MODULE CandidateSelection --------------------------
(***************************************************************************)
(* Routing validity (routing.py) and candidate selection (candidates.py):   *)
(* pure functions of a request, a capability snapshot, a policy and an      *)
(* instant.  A record carries the fields that decide something.             *)
(*                                                                         *)
(*   binding    RoutingSecurityBinding: one value per security fact         *)
(*   request    BrainRequest: content stands for its identities, task       *)
(*              fields and input, which are only ever compared whole         *)
(*   substrate  ValidatedSubstrate: descriptor and validation together      *)
(*   snapshot   CapabilitySnapshot: substrates is a function on the ids of   *)
(*              the substrates that it lists                                 *)
(***************************************************************************)
EXTENDS Integers, FiniteSets

CONSTANT SubstrateId   \* numbered in the order in which the code sorts their texts

ASSUME SubstrateIdAssumption == SubstrateId \subseteq Nat /\ IsFiniteSet(SubstrateId)

Absent == -1           \* None, for a latency, an accuracy or a deadline
NoProfile == "NONE"    \* None, for a profile

BindingField == {"request_id", "authorization_context_id", "security_policy_revision_id",
                 "effective_data_classification", "provider_network_policy",
                 "offline_required", "capability_snapshot_id"}

(* validate_routing_decision: every reason why a decision no longer holds.   *)
(* A mismatch is named by the field of the binding that differs.            *)
InvalidReasons(decision, binding, now) ==
  {r \in {"NOT_YET_VALID"} : now < decision.created_at}
    \cup {r \in {"EXPIRED"} : now >= decision.expires_at}
    \cup {f \in BindingField : binding[f] # decision.security_binding[f]}

-----------------------------------------------------------------------------
(* _evaluate_candidate: every reason to reject one substrate. *)

ValidationRejections(s, now) ==
  {r \in {"VALIDATION_NOT_YET_VALID"} : now < s.validated_at}
    \cup {r \in {"VALIDATION_STALE"} : now >= s.valid_until}

PolicyRejections(policy, s) ==
  {r \in {"CAPABILITY_MISMATCH"} : ~(policy.required_capabilities \subseteq s.capabilities)}
    \cup {r \in {"SUBSTRATE_KIND_RESTRICTED"} :
            s.substrate_kind \notin policy.allowed_substrate_kinds}
    \cup {r \in {"DEGRADED_NOT_ALLOWED"} :
            s.availability_state = "DEGRADED" /\ ~policy.allow_degraded}
    \cup {r \in {"UNAVAILABLE", "REVOKED", "INCOMPATIBLE"} : s.availability_state = r}
    \cup {r \in {"NETWORK_POLICY_RESTRICTION"} :
            ~(s.network_requirements \subseteq policy.allowed_network_requirements)}
    \cup {r \in {"AUTHORIZATION_REQUIREMENT_UNSATISFIED"} :
            ~(s.authorization_requirements \subseteq policy.satisfied_authorization_requirements)}

(* required_accuracy can be met by no substrate: there is no accuracy profile. *)
RequestRejections(request, policy, s) ==
  {r \in {"OFFLINE_UNSUPPORTED"} :
     request.security_binding.offline_required /\ ~s.offline_capable}
    \cup {r \in {"DATA_CLASSIFICATION_RESTRICTION"} :
            request.security_binding.effective_data_classification \notin s.data_handling_profile}
    \cup {r \in {"COMPUTE_BUDGET_EXCEEDED"} : s.min_compute_units > request.max_compute_units}
    \cup {r \in {"MEMORY_BUDGET_EXCEEDED"} : s.min_memory_bytes > request.max_memory_bytes}
    \cup {r \in {"LATENCY_BUDGET_UNPROVEN"} : s.max_latency_ms = Absent}
    \cup {r \in {"LATENCY_BUDGET_EXCEEDED"} :
            s.max_latency_ms # Absent /\ s.max_latency_ms > request.max_latency_ms}
    \cup {r \in {"DETERMINISM_UNSUPPORTED"} :
            request.required_determinism /\
              s.determinism_profile \notin policy.deterministic_profiles}
    \cup {r \in {"VERIFICATION_REQUIREMENT_UNSUPPORTED"} :
            ~(request.verification_requirements \subseteq s.verification_profile)}
    \cup {r \in {"EXPLAINABILITY_UNSUPPORTED"} :
            request.required_explainability /\
              (policy.explainability_profile = NoProfile \/
               policy.explainability_profile \notin s.verification_profile)}
    \cup {r \in {"ACCURACY_REQUIREMENT_UNSUPPORTED"} : request.required_accuracy # Absent}

RejectionReasons(request, policy, s, now) ==
  ValidationRejections(s, now) \cup PolicyRejections(policy, s)
                               \cup RequestRejections(request, policy, s)

Eligible(request, policy, s, now) == RejectionReasons(request, policy, s, now) = {}

EligibleIds(request, policy, snapshot, now) ==
  {id \in DOMAIN snapshot.substrates : Eligible(request, policy, snapshot.substrates[id], now)}

-----------------------------------------------------------------------------
(* _rank_key: substrates that are not degraded first, then the cheaper ones, *)
(* and the text of the id decides the rest.                                 *)
(* Mutated form: a degraded substrate is only put back among equal costs. *)
RankKeyCostFirst(snapshot, id) ==
  LET s == snapshot.substrates[id]
  IN <<s.min_compute_units, s.min_memory_bytes, s.max_latency_ms,
       IF s.availability_state = "DEGRADED" THEN 1 ELSE 0, id>>

RankKey(snapshot, id) ==
  LET s == snapshot.substrates[id]
  IN <<IF s.availability_state = "DEGRADED" THEN 1 ELSE 0,
       s.min_compute_units, s.min_memory_bytes, s.max_latency_ms, id>>

RanksBefore(snapshot, a, b) ==
  LET x == RankKey(snapshot, a)
      y == RankKey(snapshot, b)
  IN \E i \in 1..5 : x[i] < y[i] /\ \A j \in 1..(i - 1) : x[j] = y[j]

(* The first n of a sorted list of substrates, as a set. *)
FirstRanked(snapshot, ids, n) ==
  {id \in ids : Cardinality({o \in ids : RanksBefore(snapshot, o, id)}) < n}

(* Mutated form: any snapshot will do, not only the one the binding names. *)
CanSelectFromAnySnapshot(request, snapshot, policy, binding, now) ==
  /\ binding = request.security_binding
  /\ snapshot.created_at <= now
  /\ policy.security_policy_revision_id = binding.security_policy_revision_id
  /\ policy.authorization_context_id = binding.authorization_context_id
  /\ policy.provider_network_policy = binding.provider_network_policy
  /\ request.deadline # Absent => now < request.deadline

(* select_candidate_substrates returns. *)
CanSelect(request, snapshot, policy, binding, now) ==
  /\ binding = request.security_binding
  /\ snapshot.snapshot_id = binding.capability_snapshot_id
  /\ snapshot.created_at <= now
  /\ policy.security_policy_revision_id = binding.security_policy_revision_id
  /\ policy.authorization_context_id = binding.authorization_context_id
  /\ policy.provider_network_policy = binding.provider_network_policy
  /\ request.deadline # Absent => now < request.deadline

Selected(request, snapshot, policy, now) ==
  FirstRanked(snapshot, EligibleIds(request, policy, snapshot, now),
              policy.max_selected_substrates)

=============================================================================
