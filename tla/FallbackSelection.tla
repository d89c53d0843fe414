--------------------------- MODULE FallbackSelection ---------------------------
(***************************************************************************)
(* One selection by replan_fallback_route, for every input it can be given: *)
(* what candidates.py and fallback.py compute in several passes (evaluate,   *)
(* filter, rank, cut) is compared with what it should amount to.            *)
(***************************************************************************)
EXTENDS FallbackControl

CONSTANTS Request, Snapshot, Policy, Fallback, Previous

ASSUME SelectionAssumption ==
  /\ \A snapshot \in Snapshot : \A id \in DOMAIN snapshot.substrates :
       /\ id \in SubstrateId
       /\ snapshot.substrates[id].min_compute_units \in Nat
       /\ snapshot.substrates[id].min_memory_bytes \in Nat
       /\ snapshot.substrates[id].max_latency_ms \in Nat \cup {Absent}
       /\ snapshot.substrates[id].availability_state \in
            {"AVAILABLE", "DEGRADED", "UNAVAILABLE", "REVOKED", "INCOMPATIBLE"}
  /\ \A snapshot \in Snapshot : "substrates" \in DOMAIN snapshot
  /\ \A policy \in Policy :
       {"allowed_substrate_kinds", "allowed_network_requirements", "allow_degraded",
        "max_selected_substrates"} \subseteq DOMAIN policy
  /\ \A fallback \in Fallback : fallback.max_selected_substrates \in Nat \ {0}

VARIABLES given,     \* the input
          selected,  \* the substrates of the replacement, if any
          done       \* has the selection been made?
vars == <<given, selected, done>>

Inputs == [request : Request, snapshot : Snapshot, policy : Policy, fallback : Fallback,
           decision : Previous, unavailable : SUBSET SubstrateId]

Init ==
  /\ given \in Inputs
  /\ NarrowsPolicy(given.fallback, given.policy)
  /\ CanSelect(given.request, given.snapshot, given.policy, given.request.security_binding, 0)
  /\ selected = {}
  /\ done = FALSE

Select ==
  /\ ~done
  /\ selected' = FallbackSelected(given.request, given.decision, given.snapshot, given.policy,
                                  given.fallback, given.unavailable, 0)
  /\ done' = TRUE
  /\ UNCHANGED given

Next == Select
Spec == Init /\ [][Next]_vars

-----------------------------------------------------------------------------
(* The candidate policy narrowed by the fallback policy. *)
Overlay(policy, fallback) ==
  [policy EXCEPT !.allowed_substrate_kinds = fallback.allowed_substrate_kinds,
                 !.allowed_network_requirements = fallback.allowed_network_requirements,
                 !.allow_degraded = fallback.allow_degraded,
                 !.max_selected_substrates = fallback.max_selected_substrates]

(* The substrates of a snapshot that a fallback may consider at all. *)
Remaining(snapshot, excluded, owners) ==
  [snapshot EXCEPT !.substrates =
     [id \in {i \in DOMAIN snapshot.substrates \ excluded :
                snapshot.substrates[i].owner \in owners} |-> snapshot.substrates[id]]]

(* A fallback is an ordinary candidate selection under the narrowed policy, *)
(* on what is left of the snapshot: the overlay loses no candidate that it   *)
(* permits, so NO_VALID_ROUTE is never a false alarm, and it lets none in.   *)
FallbackIsNarrowedSelection ==
  done => selected =
    Selected(given.request,
             Remaining(given.snapshot,
                       Excluded(given.decision, given.fallback, given.unavailable),
                       given.fallback.allowed_owner_refs),
             Overlay(given.policy, given.fallback), 0)

(* No degraded substrate is taken while a candidate that is not degraded is  *)
(* left out, and none that needs more compute while a cheaper candidate of   *)
(* the same availability is; what is left out is only left out because the   *)
(* fan-out is used up (_fallback_rank_key).                                  *)
SelectionIsBest ==
  done =>
    LET Of(id) == given.snapshot.substrates[id]
        left == {id \in EligibleIds(given.request, given.policy, given.snapshot, 0)
                          \ Excluded(given.decision, given.fallback, given.unavailable) :
                   Permitted(given.fallback, Of(id))} \ selected
    IN /\ left # {} => Cardinality(selected) = given.fallback.max_selected_substrates
       /\ \A s \in selected, l \in left :
            IF Of(s).availability_state = Of(l).availability_state
            THEN Of(s).min_compute_units <= Of(l).min_compute_units
            ELSE Of(l).availability_state = "DEGRADED"

=============================================================================
