--------------------------- MODULE SubstrateDiscovery ---------------------------
(***************************************************************************)
(* substrates.py: descriptors become routable only together with evidence    *)
(* that somebody else checked them, and a capability snapshot lists only     *)
(* such pairs.  Names, versions and references are opaque; an evidence has   *)
(* the set of its checks that were completed, and names no descriptor.       *)
(*                                                                         *)
(*   pair    [substrate_id, descriptor, validation], one discovered item     *)
(***************************************************************************)
EXTENDS CandidateSelection, Sequences

SubstrateKind == {"NATIVE_MODEL", "RETRIEVAL", "CLASSICAL_ML", "DOMAIN_RULE", "SYMBOLIC", "GRAPH",
                  "TOOL", "MEMORY", "VERIFIER", "OTHER_APPROVED"}
SubstrateAvailabilityState == {"AVAILABLE", "DEGRADED", "UNAVAILABLE", "REVOKED", "INCOMPATIBLE"}
ValidationCheck == {"trusted_source_verified", "identity_verified", "version_verified",
                    "integrity_verified", "compatibility_verified", "policy_constraints_checked"}

(* SubstrateResourceProfile *)
BoundedResources(d) ==
  /\ {d.min_compute_units, d.max_compute_units, d.min_memory_bytes, d.max_memory_bytes} \subseteq Nat
  /\ d.min_compute_units <= d.max_compute_units
  /\ d.min_memory_bytes <= d.max_memory_bytes
  /\ d.max_latency_ms \in Nat \cup {Absent}

(* SubstrateDescriptor: what it says of itself, which proves nothing. *)
ValidDescriptor(d) ==
  /\ d.substrate_kind \in SubstrateKind
  /\ d.availability_state \in SubstrateAvailabilityState
  /\ {} \notin {d.capabilities, d.network_requirements, d.data_handling_profile}
  /\ d.offline_capable \in BOOLEAN
  /\ BoundedResources(d)

(* SubstrateValidationEvidence.  A failed check makes no invalid evidence. *)
ValidEvidence(v) == v.checks \subseteq ValidationCheck /\ v.validated_at < v.valid_until

(* ValidatedSubstrate and validate_substrate_descriptor *)

(* Mutated form: evidence is current, whatever it says. *)
ValidatesUnread(v, now) == v.validated_at <= now /\ now < v.valid_until

Validates(v, now) ==
  /\ v.checks = ValidationCheck
  /\ v.validated_at <= now /\ now < v.valid_until

ValidatedSubstrate(pair) ==
  LET d == pair.descriptor
  IN [f \in DOMAIN d \cup {"validated_at", "valid_until"} |->
        IF f \in DOMAIN d THEN d[f] ELSE pair.validation[f]]

(* build_capability_snapshot: all or nothing.  discovered is a sequence;     *)
(* one pair that does not validate, or an id that comes twice, and there is   *)
(* no snapshot.                                                             *)

(* Mutated form: evidence is not looked at again when a snapshot is built. *)
CanBuildUnchecked(created_at, discovered) ==
  \A i, j \in DOMAIN discovered :
    discovered[i].substrate_id = discovered[j].substrate_id => i = j

CanBuild(created_at, discovered) ==
  /\ \A i \in DOMAIN discovered : Validates(discovered[i].validation, created_at)
  /\ \A i, j \in DOMAIN discovered :
       discovered[i].substrate_id = discovered[j].substrate_id => i = j

BuiltSnapshot(snapshot_id, created_at, discovered) ==
  [snapshot_id |-> snapshot_id,
   created_at |-> created_at,
   substrates |->
     [id \in {discovered[i].substrate_id : i \in DOMAIN discovered} |->
        ValidatedSubstrate(discovered[CHOOSE i \in DOMAIN discovered :
                                        discovered[i].substrate_id = id])]]

=============================================================================
