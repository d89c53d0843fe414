----------------------------- MODULE DiscoveryProofs -----------------------------
(***************************************************************************)
(* Proofs about Discovery for every set of offers, bindings, terms and       *)
(* policies, every window and lifetime, and without its bounds.              *)
(***************************************************************************)
EXTENDS Discovery, TLAPS

-----------------------------------------------------------------------------
(* What the operators of discovery and selection return. *)

LEMMA CurrentIff ==
  ASSUME NEW s, NEW n
  PROVE  ValidationRejections(s, n) = {} <=> ~(n < s.validated_at) /\ ~(n >= s.valid_until)
  BY DEF ValidationRejections

(* The validity of a listed substrate is that of its evidence. *)
LEMMA ValidatedFields ==
  ASSUME NEW pair, {"validated_at", "valid_until"} \cap DOMAIN pair.descriptor = {}
  PROVE  /\ ValidatedSubstrate(pair).validated_at = pair.validation.validated_at
         /\ ValidatedSubstrate(pair).valid_until = pair.validation.valid_until
  BY DEF ValidatedSubstrate

(* A snapshot is built of nothing but pairs that validate at its instant. *)
LEMMA BuiltOfPairs ==
  ASSUME NEW snapshot_id, NEW at, NEW pairs, CanBuild(at, pairs)
  PROVE  /\ BuiltSnapshot(snapshot_id, at, pairs).created_at = at
         /\ \A id \in DOMAIN BuiltSnapshot(snapshot_id, at, pairs).substrates :
              \E i \in DOMAIN pairs :
                /\ pairs[i].substrate_id = id
                /\ Validates(pairs[i].validation, at)
                /\ BuiltSnapshot(snapshot_id, at, pairs).substrates[id]
                     = ValidatedSubstrate(pairs[i])
  <1> DEFINE S == {pairs[i].substrate_id : i \in DOMAIN pairs}
             At(id) == CHOOSE i \in DOMAIN pairs : pairs[i].substrate_id = id
             Listed == [id \in S |-> ValidatedSubstrate(pairs[At(id)])]
  <1>1. BuiltSnapshot(snapshot_id, at, pairs)
          = [snapshot_id |-> snapshot_id, created_at |-> at, substrates |-> Listed]
    BY DEF BuiltSnapshot
  <1>2. ASSUME NEW id \in S
        PROVE  At(id) \in DOMAIN pairs /\ pairs[At(id)].substrate_id = id
    <2>1. \E i \in DOMAIN pairs : pairs[i].substrate_id = id
      OBVIOUS
    <2>2. QED
      BY <2>1
  <1>3. \A id \in S : /\ At(id) \in DOMAIN pairs
                      /\ pairs[At(id)].substrate_id = id
                      /\ Validates(pairs[At(id)].validation, at)
    BY <1>2 DEF CanBuild
  <1>4. DOMAIN Listed = S /\ \A id \in S : Listed[id] = ValidatedSubstrate(pairs[At(id)])
    OBVIOUS
  <1> HIDE DEF S, At, Listed
  <1>5. \A id \in DOMAIN Listed :
          \E i \in DOMAIN pairs : /\ pairs[i].substrate_id = id
                                  /\ Validates(pairs[i].validation, at)
                                  /\ Listed[id] = ValidatedSubstrate(pairs[i])
    BY <1>3, <1>4
  <1>6. QED
    BY <1>1, <1>5

(* Whatever is selected is listed, and its evidence is current. *)
LEMMA SelectedIsCurrent ==
  ASSUME NEW r, NEW snapshot, NEW policy, NEW n,
         NEW id \in Selected(r, snapshot, policy, n)
  PROVE  /\ id \in DOMAIN snapshot.substrates
         /\ ValidationRejections(snapshot.substrates[id], n) = {}
  BY DEF Selected, FirstRanked, EligibleIds, Eligible, RejectionReasons

-----------------------------------------------------------------------------
(* The inductive invariant. *)

(* Evidence lasts no longer than its window, and evidence that says that     *)
(* everything was checked was issued while its authority still vouched.      *)
EvidenceInv ==
  \A pair \in discovered :
    /\ pair.substrate_id \in SubstrateId
    /\ ValidDescriptor(pair.descriptor)
    /\ {"validated_at", "valid_until"} \cap DOMAIN pair.descriptor = {}
    /\ pair.validation.checks \subseteq ValidationCheck
    /\ pair.validation.validated_at \in Nat /\ pair.validation.valid_until \in Nat
    /\ pair.validation.validated_at < pair.validation.valid_until
    /\ pair.validation.validated_at <= now
    /\ pair.validation.valid_until <= pair.validation.validated_at + MaxWindow
    /\ pair.validation.checks = ValidationCheck /\ distrusted_at[pair.substrate_id] # NoTime
         => pair.validation.validated_at <= distrusted_at[pair.substrate_id]

(* A snapshot lists evidence that was current when it was built. *)
Listing(s) ==
  /\ s.created_at \in Nat /\ s.created_at <= now
  /\ \A id \in DOMAIN s.substrates : \E pair \in discovered :
       /\ pair.substrate_id = id
       /\ Validates(pair.validation, s.created_at)
       /\ s.substrates[id] = ValidatedSubstrate(pair)

RequestInv ==
  request # None =>
    /\ ValidRequest(request)
    /\ request.admitted_at \in Nat /\ request.admitted_at <= now
    /\ request.security_binding \in SecurityBinding

(* A decision rests on a snapshot whose evidence was current at its instant. *)
DecisionInv ==
  decision # None =>
    /\ request # None
    /\ decision.security_binding = request.security_binding
    /\ decision.created_at \in Nat /\ decision.expires_at \in Nat
    /\ request.admitted_at <= decision.created_at /\ decision.created_at <= now
    /\ decision.expires_at <= decision.created_at + MaxLifetime
    /\ decision.policy.security_policy_revision_id
         = decision.security_binding.security_policy_revision_id
    /\ decision.policy.authorization_context_id
         = decision.security_binding.authorization_context_id
    /\ \E s \in snapshots :
         /\ s.snapshot_id = decision.security_binding.capability_snapshot_id
         /\ s.created_at <= decision.created_at
         /\ decision.selected_substrates \subseteq DOMAIN s.substrates
         /\ \A id \in decision.selected_substrates :
              ~(decision.created_at >= s.substrates[id].valid_until)

IInv ==
  /\ now \in Nat
  /\ distrusted_at \in [SubstrateId -> Nat \cup {NoTime}]
  /\ binding \in SecurityBinding
  /\ EvidenceInv
  /\ \A s \in snapshots : Listing(s)
  /\ RequestInv
  /\ DecisionInv

LEMMA InitEstablishes == Init => IInv
  BY DEF Init, IInv, EvidenceInv, RequestInv, DecisionInv, NoTime, NoDeadline

-----------------------------------------------------------------------------
LEMMA TickPreserves == IInv /\ Tick => IInv'
  <1> SUFFICES ASSUME IInv, Tick PROVE IInv'
    OBVIOUS
  <1>1. EvidenceInv'
    BY DEF IInv, EvidenceInv, Tick
  <1>2. \A s \in snapshots' : Listing(s)'
    BY DEF IInv, Listing, Tick
  <1>3. RequestInv'
    BY DEF IInv, RequestInv, Tick
  <1>4. DecisionInv'
    BY DEF IInv, DecisionInv, Tick
  <1>5. QED
    BY <1>1, <1>2, <1>3, <1>4 DEF IInv, Tick

LEMMA DistrustPreserves ==
  ASSUME IInv, NEW id \in SubstrateId, Distrust(id)
  PROVE  IInv'
  <1>1. distrusted_at' \in [SubstrateId -> Nat \cup {NoTime}]
    BY DEF IInv, Distrust
  <1>2. EvidenceInv'
    BY DEF IInv, EvidenceInv, Distrust
  <1>3. \A s \in snapshots' : Listing(s)'
    BY DEF IInv, Listing, Distrust
  <1>4. RequestInv' /\ DecisionInv'
    BY DEF IInv, RequestInv, DecisionInv, Distrust
  <1>5. QED
    BY <1>1, <1>2, <1>3, <1>4 DEF IInv, Distrust

LEMMA IssuePreserves ==
  ASSUME IInv, NEW offer \in Offer, NEW failed \in FailedChecks \cup {{}}, NEW window \in 1..MaxWindow,
         IssueEvidence(offer, failed, window)
  PROVE  IInv'
  <1> DEFINE validation == [checks |-> ValidationCheck \ failed,
                            validated_at |-> now, valid_until |-> now + window]
             pair == [substrate_id |-> offer.substrate_id, descriptor |-> offer.descriptor,
                      validation |-> validation]
  <1>1. /\ discovered' = discovered \cup {pair}
        /\ UNCHANGED <<now, distrusted_at, binding, snapshots, request, decision>>
        /\ failed = {} => distrusted_at[offer.substrate_id] = NoTime
    BY DEF IssueEvidence
  <1>2. /\ pair.substrate_id = offer.substrate_id /\ pair.descriptor = offer.descriptor
        /\ pair.validation = validation
        /\ validation.checks = ValidationCheck \ failed
        /\ validation.validated_at = now /\ validation.valid_until = now + window
    OBVIOUS
  <1>3. ValidationCheck \ failed = ValidationCheck => failed = {}
    BY CheckAssumption
  <1> HIDE DEF pair, validation
  <1>4. /\ pair.substrate_id \in SubstrateId /\ ValidDescriptor(pair.descriptor)
        /\ {"validated_at", "valid_until"} \cap DOMAIN pair.descriptor = {}
    BY <1>2, OfferAssumption
  <1>5. /\ validation.validated_at \in Nat /\ validation.valid_until \in Nat
        /\ validation.validated_at < validation.valid_until
        /\ validation.validated_at <= now
        /\ validation.valid_until <= validation.validated_at + MaxWindow
    BY <1>2, WindowAssumption DEF IInv
  <1>6. validation.checks = ValidationCheck => distrusted_at[pair.substrate_id] = NoTime
    BY <1>1, <1>2, <1>3
  <1>7. EvidenceInv'
    BY <1>1, <1>2, <1>4, <1>5, <1>6 DEF IInv, EvidenceInv
  <1>8. \A s \in snapshots' : Listing(s)'
    BY <1>1 DEF IInv, Listing
  <1>9. RequestInv' /\ DecisionInv'
    BY <1>1 DEF IInv, RequestInv, DecisionInv
  <1>10. QED
    BY <1>1, <1>7, <1>8, <1>9 DEF IInv

LEMMA BuildPreserves ==
  ASSUME IInv, NEW snapshot_id, NEW pairs, \A i \in DOMAIN pairs : pairs[i] \in discovered,
         BuildCapabilitySnapshot(snapshot_id, pairs)
  PROVE  IInv'
  <1> DEFINE s == BuiltSnapshot(snapshot_id, now, pairs)
  <1>1. /\ CanBuild(now, pairs) /\ snapshots' = snapshots \cup {s}
        /\ UNCHANGED <<now, distrusted_at, binding, discovered, request, decision>>
    BY DEF BuildCapabilitySnapshot
  <1>2. /\ s.created_at = now
        /\ \A id \in DOMAIN s.substrates : \E i \in DOMAIN pairs :
             /\ pairs[i].substrate_id = id
             /\ Validates(pairs[i].validation, now)
             /\ s.substrates[id] = ValidatedSubstrate(pairs[i])
    BY <1>1, BuiltOfPairs
  <1> HIDE DEF s
  <1>3. Listing(s)
    <2>1. \A id \in DOMAIN s.substrates : \E pair \in discovered :
            /\ pair.substrate_id = id
            /\ Validates(pair.validation, s.created_at)
            /\ s.substrates[id] = ValidatedSubstrate(pair)
      BY <1>2
    <2>2. QED
      BY <1>2, <2>1 DEF IInv, Listing
  <1>4. \A t \in snapshots' : Listing(t)'
    BY <1>1, <1>3 DEF IInv, Listing
  <1>5. EvidenceInv' /\ RequestInv' /\ DecisionInv'
    BY <1>1 DEF IInv, EvidenceInv, RequestInv, DecisionInv
  <1>6. QED
    BY <1>1, <1>4, <1>5 DEF IInv

LEMMA ChangeBindingPreserves ==
  ASSUME IInv, NEW b \in SecurityBinding, ChangeBinding(b)
  PROVE  IInv'
  BY DEF ChangeBinding, IInv, EvidenceInv, Listing, RequestInv, DecisionInv

LEMMA AdmitPreserves ==
  ASSUME IInv, NEW terms, NEW deadline, AdmitBrainRequest(terms, deadline)
  PROVE  IInv'
  <1> DEFINE r == Admitted(terms, binding, now, deadline)
  <1>1. /\ ValidRequest(r) /\ request' = r /\ decision' = None
        /\ UNCHANGED <<now, distrusted_at, binding, discovered, snapshots>>
    BY DEF AdmitBrainRequest, CanAdmit
  <1>2. r.security_binding = binding /\ r.admitted_at = now
    BY DEF Admitted
  <1> HIDE DEF r
  <1>3. RequestInv'
    BY <1>1, <1>2 DEF IInv, RequestInv
  <1>4. EvidenceInv' /\ DecisionInv' /\ \A s \in snapshots' : Listing(s)'
    BY <1>1 DEF IInv, EvidenceInv, DecisionInv, Listing
  <1>5. QED
    BY <1>1, <1>3, <1>4 DEF IInv

LEMMA RoutePreserves ==
  ASSUME IInv, NEW snapshot \in snapshots, NEW policy, NEW lifetime \in 1..MaxLifetime,
         Route(snapshot, policy, lifetime)
  PROVE  IInv'
  <1> DEFINE ids == Selected(request, snapshot, policy, now)
  <1>1. /\ request # None /\ CanSelect(request, snapshot, policy, binding, now)
        /\ decision' = [security_binding |-> request.security_binding,
                        policy |-> policy,
                        selected_substrates |-> ids,
                        created_at |-> now,
                        expires_at |-> now + lifetime]
        /\ UNCHANGED <<now, distrusted_at, binding, discovered, snapshots, request>>
    BY DEF Route
  <1>2. \A id \in ids : /\ id \in DOMAIN snapshot.substrates
                        /\ ~(now >= snapshot.substrates[id].valid_until)
    BY SelectedIsCurrent, CurrentIff
  <1> HIDE DEF ids
  <1>3. /\ binding = request.security_binding
        /\ snapshot.snapshot_id = binding.capability_snapshot_id
        /\ snapshot.created_at <= now
        /\ policy.security_policy_revision_id = binding.security_policy_revision_id
        /\ policy.authorization_context_id = binding.authorization_context_id
    BY <1>1 DEF CanSelect
  <1>4. now + lifetime \in Nat /\ now + lifetime <= now + MaxLifetime
    BY WindowAssumption DEF IInv
  <1>5. DecisionInv'
    BY <1>1, <1>2, <1>3, <1>4 DEF IInv, RequestInv, DecisionInv
  <1>6. EvidenceInv' /\ RequestInv' /\ \A s \in snapshots' : Listing(s)'
    BY <1>1 DEF IInv, EvidenceInv, RequestInv, Listing
  <1>7. QED
    BY <1>1, <1>5, <1>6 DEF IInv

LEMMA StutterPreserves == IInv /\ UNCHANGED vars => IInv'
  BY DEF vars, IInv, EvidenceInv, Listing, RequestInv, DecisionInv

LEMMA NextPreserves == IInv /\ [Next]_vars => IInv'
  <1> SUFFICES ASSUME IInv, [Next]_vars PROVE IInv'
    OBVIOUS
  <1>1. ASSUME NEW id \in SubstrateId, Distrust(id) PROVE IInv'
    BY <1>1, DistrustPreserves
  <1>2. ASSUME NEW offer \in Offer, NEW failed \in FailedChecks \cup {{}}, NEW window \in 1..MaxWindow,
               IssueEvidence(offer, failed, window)
        PROVE  IInv'
    BY <1>2, IssuePreserves
  <1>3. ASSUME NEW b \in SecurityBinding, NEW n \in 0..MaxPairs, NEW pairs \in [1..n -> discovered],
               BuildCapabilitySnapshot(b.capability_snapshot_id, pairs)
        PROVE  IInv'
    <2>1. \A i \in DOMAIN pairs : pairs[i] \in discovered
      OBVIOUS
    <2>2. QED
      BY <1>3, <2>1, BuildPreserves
  <1>4. ASSUME NEW b \in SecurityBinding, ChangeBinding(b) PROVE IInv'
    BY <1>4, ChangeBindingPreserves
  <1>5. ASSUME NEW terms \in Terms, NEW deadline \in Deadline, AdmitBrainRequest(terms, deadline)
        PROVE  IInv'
    BY <1>5, AdmitPreserves
  <1>6. ASSUME NEW snapshot \in snapshots, NEW policy \in Policy, NEW lifetime \in 1..MaxLifetime,
               Route(snapshot, policy, lifetime)
        PROVE  IInv'
    BY <1>6, RoutePreserves
  <1>7. CASE Tick
    BY <1>7, TickPreserves
  <1>8. CASE UNCHANGED vars
    BY <1>8, StutterPreserves
  <1>9. QED
    BY <1>1, <1>2, <1>3, <1>4, <1>5, <1>6, <1>7, <1>8 DEF Next

-----------------------------------------------------------------------------
(* What the invariant implies. *)

(* A listed substrate has the validity of some evidence that says everything *)
(* was checked.                                                             *)
LEMMA ListedEvidence ==
  ASSUME IInv, NEW s \in snapshots, NEW id \in DOMAIN s.substrates
  PROVE  \E pair \in discovered :
           /\ pair.substrate_id = id
           /\ Validates(pair.validation, s.created_at)
           /\ s.substrates[id] = ValidatedSubstrate(pair)
           /\ s.substrates[id].validated_at = pair.validation.validated_at
           /\ s.substrates[id].valid_until = pair.validation.valid_until
  <1>1. PICK pair \in discovered :
          /\ pair.substrate_id = id
          /\ Validates(pair.validation, s.created_at)
          /\ s.substrates[id] = ValidatedSubstrate(pair)
    BY DEF IInv, Listing
  <1>2. {"validated_at", "valid_until"} \cap DOMAIN pair.descriptor = {}
    BY DEF IInv, EvidenceInv
  <1>3. QED
    BY <1>1, <1>2, ValidatedFields

LEMMA ImpliesTypeOK == IInv => TypeOK
  <1> SUFFICES ASSUME IInv PROVE TypeOK
    OBVIOUS
  <1>1. \A pair \in discovered :
          /\ pair.substrate_id \in SubstrateId
          /\ ValidDescriptor(pair.descriptor) /\ ValidEvidence(pair.validation)
    BY DEF IInv, EvidenceInv, ValidEvidence
  <1>2. ASSUME NEW s \in snapshots, NEW id \in DOMAIN s.substrates
        PROVE  /\ ValidationRejections(s.substrates[id], s.created_at) = {}
               /\ \E pair \in discovered :
                    /\ pair.substrate_id = id
                    /\ pair.validation.checks = ValidationCheck
                    /\ s.substrates[id] = ValidatedSubstrate(pair)
    <2>1. PICK pair \in discovered :
            /\ pair.substrate_id = id
            /\ Validates(pair.validation, s.created_at)
            /\ s.substrates[id] = ValidatedSubstrate(pair)
            /\ s.substrates[id].validated_at = pair.validation.validated_at
            /\ s.substrates[id].valid_until = pair.validation.valid_until
      BY ListedEvidence
    <2>2. /\ s.created_at \in Nat
          /\ pair.validation.validated_at \in Nat /\ pair.validation.valid_until \in Nat
      BY DEF IInv, Listing, EvidenceInv
    <2>3. /\ pair.validation.checks = ValidationCheck
          /\ ~(s.created_at < s.substrates[id].validated_at)
          /\ ~(s.created_at >= s.substrates[id].valid_until)
      BY <2>1, <2>2 DEF Validates
    <2>4. QED
      BY <2>1, <2>3, CurrentIff
  <1>3. \A s \in snapshots : s.created_at \in 0..now
    BY DEF IInv, Listing
  <1>4. QED
    BY <1>1, <1>2, <1>3 DEF IInv, RequestInv, DecisionInv, TypeOK

LEMMA InForceIff ==
  InForce => /\ decision # None
             /\ ~(now >= decision.expires_at)
             /\ \A f \in BindingField : binding[f] = decision.security_binding[f]
  BY DEF InForce, InvalidReasons

LEMMA ImpliesDistrustTakesEffect == IInv => DistrustTakesEffect
  <1> SUFFICES ASSUME IInv, InForce, NEW id \in decision.selected_substrates,
                      distrusted_at[id] # NoTime
               PROVE  now + 1 < distrusted_at[id] + MaxWindow + MaxLifetime
    BY DEF DistrustTakesEffect
  <1>1. /\ ~(now >= decision.expires_at)
        /\ decision.created_at \in Nat /\ decision.expires_at \in Nat
        /\ decision.expires_at <= decision.created_at + MaxLifetime
    BY InForceIff DEF IInv, DecisionInv
  <1>2. PICK s \in snapshots : /\ id \in DOMAIN s.substrates
                               /\ ~(decision.created_at >= s.substrates[id].valid_until)
    BY InForceIff DEF IInv, DecisionInv
  <1>3. PICK pair \in discovered :
          /\ pair.substrate_id = id
          /\ Validates(pair.validation, s.created_at)
          /\ s.substrates[id].valid_until = pair.validation.valid_until
    BY <1>2, ListedEvidence
  <1>4. /\ pair.validation.validated_at \in Nat /\ pair.validation.valid_until \in Nat
        /\ pair.validation.valid_until <= pair.validation.validated_at + MaxWindow
        /\ pair.validation.validated_at <= distrusted_at[id]
    BY <1>3 DEF IInv, EvidenceInv, Validates
  <1>5. id \in SubstrateId /\ distrusted_at[id] \in Nat
    <2>1. id \in SubstrateId
      BY <1>3 DEF IInv, EvidenceInv
    <2>2. QED
      BY <2>1 DEF IInv
  <1>6. now \in Nat /\ MaxWindow \in Nat /\ MaxLifetime \in Nat
    BY WindowAssumption DEF IInv
  <1>7. QED
    BY <1>1, <1>2, <1>3, <1>4, <1>5, <1>6

LEMMA ImpliesRouteIsOfThePresent == IInv => RouteIsOfThePresent
  <1> SUFFICES ASSUME IInv, InForce
               PROVE  /\ request.security_binding = binding
                      /\ \E s \in snapshots :
                           /\ s.snapshot_id = binding.capability_snapshot_id
                           /\ s.created_at <= decision.created_at
                           /\ decision.selected_substrates \subseteq DOMAIN s.substrates
                      /\ decision.policy.security_policy_revision_id
                           = binding.security_policy_revision_id
                      /\ decision.policy.authorization_context_id = binding.authorization_context_id
    BY DEF RouteIsOfThePresent
  <1>1. /\ decision.security_binding = request.security_binding
        /\ request.security_binding \in SecurityBinding /\ binding \in SecurityBinding
    BY InForceIff DEF IInv, RequestInv, DecisionInv
  <1>2. request.security_binding = binding
    <2>1. /\ binding = [f \in BindingField |-> binding[f]]
          /\ request.security_binding = [f \in BindingField |-> request.security_binding[f]]
      BY <1>1, BindingAssumption
    <2>2. \A f \in BindingField : binding[f] = request.security_binding[f]
      BY <1>1, InForceIff
    <2>3. [f \in BindingField |-> binding[f]] = [f \in BindingField |-> request.security_binding[f]]
      BY <2>2
    <2>4. QED
      BY <2>1, <2>3
  <1>3. QED
    BY <1>1, <1>2, InForceIff DEF IInv, DecisionInv

-----------------------------------------------------------------------------
(* The inductive invariant holds in every behaviour. *)
LEMMA Invariance == Spec => []IInv
  BY InitEstablishes, NextPreserves, PTL DEF Spec

(* Every pair, snapshot, request and decision is what its constructor        *)
(* requires, and a snapshot lists nothing but what was discovered.           *)
THEOREM TypeCorrect == Spec => []TypeOK
  BY Invariance, ImpliesTypeOK, PTL

(* Trust that is withdrawn is out of use within one window of evidence and   *)
(* one lifetime of a decision, whatever was kept and used late on the way.   *)
THEOREM DistrustTakesEffectHolds == Spec => []DistrustTakesEffect
  BY Invariance, ImpliesDistrustTakesEffect, PTL

(* A route in force was chosen from a snapshot of the identity, and under    *)
(* the policy revision and authorization, that the present binding names.    *)
THEOREM RouteIsOfThePresentHolds == Spec => []RouteIsOfThePresent
  BY Invariance, ImpliesRouteIsOfThePresent, PTL

=============================================================================
