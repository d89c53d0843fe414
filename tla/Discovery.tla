------------------------------- MODULE Discovery -------------------------------
(***************************************************************************)
(* From an offered substrate to a route in force: evidence is issued, a       *)
(* snapshot is built of what was discovered, a request is admitted under the  *)
(* security binding of that instant, candidates are selected and a decision   *)
(* is made.  Five owners act at their own pace.  Evidence, snapshots and      *)
(* decisions are kept and may be used late and out of order; what the present *)
(* binding names, and whom its authority trusts, changes under all of them.   *)
(***************************************************************************)
EXTENDS SubstrateDiscovery, RequestAdmission

CONSTANTS Offer,           \* [substrate_id, descriptor] pairs that are offered
          FailedChecks,    \* sets of checks that may fail together
          SecurityBinding, \* the bindings that may be current
          Terms,           \* what a caller may ask for
          Deadline,        \* deadlines it may set, NoDeadline included
          Policy,          \* candidate selection policies
          MaxWindow,       \* how long evidence is valid at most
          MaxLifetime,     \* how long a decision lives at most
          MaxTime, MaxEvidence, MaxSnapshots, MaxPairs    \* bounds

ASSUME WindowAssumption == MaxWindow \in Nat \ {0} /\ MaxLifetime \in Nat \ {0}
ASSUME OfferAssumption ==
  \A offer \in Offer :
    /\ offer.substrate_id \in SubstrateId
    /\ ValidDescriptor(offer.descriptor)
    /\ {"validated_at", "valid_until"} \cap DOMAIN offer.descriptor = {}
ASSUME BindingAssumption ==
  \A b \in SecurityBinding : b = [f \in BindingField |-> b[f]]
ASSUME CheckAssumption == \A failed \in FailedChecks : failed # {} /\ failed \subseteq ValidationCheck

VARIABLES
  now,             \* the clock
  distrusted_at,   \* external: since when the authority no longer vouches for each substrate
  binding,         \* the current RoutingSecurityBinding
  discovered,      \* every pair of a descriptor and its evidence so far
  snapshots,       \* every CapabilitySnapshot built so far
  request,         \* the admitted BrainRequest, or None
  decision         \* the last RoutingDecision for it, or None

vars == <<now, distrusted_at, binding, discovered, snapshots, request, decision>>

None == <<>>    \* where a record is absent
NoTime == NoDeadline

Init ==
  /\ now = 0
  /\ distrusted_at = [id \in SubstrateId |-> NoTime]
  /\ binding \in SecurityBinding
  /\ discovered = {} /\ snapshots = {} /\ request = None /\ decision = None

-----------------------------------------------------------------------------
Tick ==
  /\ now < MaxTime
  /\ now' = now + 1
  /\ UNCHANGED <<distrusted_at, binding, discovered, snapshots, request, decision>>

(* The authority stops vouching for a substrate.  It cannot take back the   *)
(* evidence that it has issued.                                             *)
Distrust(id) ==
  /\ distrusted_at[id] = NoTime
  /\ distrusted_at' = [distrusted_at EXCEPT ![id] = now]
  /\ UNCHANGED <<now, binding, discovered, snapshots, request, decision>>

(* Evidence for what a substrate offers; all checks succeed only as long as  *)
(* the authority vouches for it.                                            *)
IssueEvidence(offer, failed, window) ==
  /\ Cardinality(discovered) < MaxEvidence
  /\ failed = {} => distrusted_at[offer.substrate_id] = NoTime
  /\ discovered' = discovered \cup
       {[substrate_id |-> offer.substrate_id, descriptor |-> offer.descriptor,
         validation |-> [checks |-> ValidationCheck \ failed,
                         validated_at |-> now, valid_until |-> now + window]]}
  /\ UNCHANGED <<now, distrusted_at, binding, snapshots, request, decision>>

(* build_capability_snapshot, of any pairs and under any identity, one that  *)
(* was used before included.                                                *)
BuildCapabilitySnapshot(snapshot_id, pairs) ==
  /\ Cardinality(snapshots) < MaxSnapshots
  /\ CanBuild(now, pairs)
  /\ snapshots' = snapshots \cup {BuiltSnapshot(snapshot_id, now, pairs)}
  /\ UNCHANGED <<now, distrusted_at, binding, discovered, request, decision>>

(* The owners of the security state replace the binding, also by an old one. *)
ChangeBinding(b) ==
  /\ binding' = b
  /\ UNCHANGED <<now, distrusted_at, discovered, snapshots, request, decision>>

(* admit_brain_request *)
AdmitBrainRequest(terms, deadline) ==
  /\ CanAdmit(terms, binding, now, deadline)
  /\ request' = Admitted(terms, binding, now, deadline)
  /\ decision' = None
  /\ UNCHANGED <<now, distrusted_at, binding, discovered, snapshots>>

(* select_candidate_substrates, and the RoutingDecision its caller makes of  *)
(* a selection that is not empty.                                           *)
Route(snapshot, policy, lifetime) ==
  /\ request # None
  /\ CanSelect(request, snapshot, policy, binding, now)
  /\ Selected(request, snapshot, policy, now) # {}
  /\ decision' = [security_binding |-> request.security_binding,
                  policy |-> policy,
                  selected_substrates |-> Selected(request, snapshot, policy, now),
                  created_at |-> now,
                  expires_at |-> now + lifetime]
  /\ UNCHANGED <<now, distrusted_at, binding, discovered, snapshots, request>>

Next ==
  \/ Tick
  \/ \E id \in SubstrateId : Distrust(id)
  \/ \E offer \in Offer, failed \in FailedChecks \cup {{}}, window \in 1..MaxWindow :
       IssueEvidence(offer, failed, window)
  \/ \E b \in SecurityBinding, n \in 0..MaxPairs : \E pairs \in [1..n -> discovered] :
       BuildCapabilitySnapshot(b.capability_snapshot_id, pairs)
  \/ \E b \in SecurityBinding : ChangeBinding(b)
  \/ \E terms \in Terms, deadline \in Deadline : AdmitBrainRequest(terms, deadline)
  \/ \E snapshot \in snapshots, policy \in Policy, lifetime \in 1..MaxLifetime :
       Route(snapshot, policy, lifetime)

Spec == Init /\ [][Next]_vars

-----------------------------------------------------------------------------
(* validate_routing_decision finds nothing against the last decision. *)
InForce == decision # None /\ InvalidReasons(decision, binding, now) = {}

(* Every pair, snapshot, request and decision is what its constructor        *)
(* requires, and a snapshot lists nothing but what was discovered.           *)
TypeOK ==
  /\ now \in Nat
  /\ distrusted_at \in [SubstrateId -> Nat \cup {NoTime}]
  /\ binding \in SecurityBinding
  /\ \A pair \in discovered :
       /\ pair.substrate_id \in SubstrateId
       /\ ValidDescriptor(pair.descriptor) /\ ValidEvidence(pair.validation)
  /\ \A s \in snapshots :
       /\ s.created_at \in 0..now
       /\ \A id \in DOMAIN s.substrates :
            /\ ValidationRejections(s.substrates[id], s.created_at) = {}
            /\ \E pair \in discovered :
                 /\ pair.substrate_id = id
                 /\ pair.validation.checks = ValidationCheck
                 /\ s.substrates[id] = ValidatedSubstrate(pair)
  /\ request # None => ValidRequest(request) /\ request.admitted_at <= now
  /\ decision # None => request # None /\ request.admitted_at <= decision.created_at

(* Trust that is withdrawn is out of use in bounded time, although evidence  *)
(* cannot be taken back and is handed on through snapshots and decisions:    *)
(* a route is in force over a substrate for less than one window of evidence *)
(* and one lifetime of a decision after its authority stopped vouching       *)
(* (freshness is checked again at every step on the way).                   *)
DistrustTakesEffect ==
  InForce =>
    \A id \in decision.selected_substrates :
      distrusted_at[id] # NoTime => now + 1 < distrusted_at[id] + MaxWindow + MaxLifetime

(* A route in force belongs to the present: whatever came between, it was    *)
(* chosen from a snapshot of the identity that the binding names now, under  *)
(* the policy revision and the authorization that are current now.           *)
RouteIsOfThePresent ==
  InForce =>
    /\ request.security_binding = binding
    /\ \E s \in snapshots :
         /\ s.snapshot_id = binding.capability_snapshot_id
         /\ s.created_at <= decision.created_at
         /\ decision.selected_substrates \subseteq DOMAIN s.substrates
    /\ decision.policy.security_policy_revision_id = binding.security_policy_revision_id
    /\ decision.policy.authorization_context_id = binding.authorization_context_id

=============================================================================
