----------------------------- MODULE FallbackProofs -----------------------------
(***************************************************************************)
(* Proofs about FallbackChain for every set of requests, snapshots,         *)
(* policies, costs and lifetimes, and for any number of replans.            *)
(***************************************************************************)
EXTENDS FallbackChain, SharedLemmas, TLAPS

-----------------------------------------------------------------------------
(* Candidates. *)

(* A substrate is eligible exactly when no check of _evaluate_candidate      *)
(* that depends on the request or on anything else rejects it.              *)
LEMMA EligibleIff ==
  ASSUME NEW r, NEW policy, NEW s, NEW n
  PROVE  Eligible(r, policy, s, n) <=>
           /\ ValidationRejections(s, n) = {}
           /\ PolicyRejections(policy, s) = {}
           /\ RequestRejections(r, policy, s) = {}
  BY DEF Eligible, RejectionReasons

(* What the request demands of a substrate, as one condition. *)
Meets(r, policy, s) ==
  /\ r.security_binding.offline_required => s.offline_capable
  /\ r.security_binding.effective_data_classification \in s.data_handling_profile
  /\ ~(s.min_compute_units > r.max_compute_units)
  /\ ~(s.min_memory_bytes > r.max_memory_bytes)
  /\ s.max_latency_ms # Absent
  /\ ~(s.max_latency_ms > r.max_latency_ms)
  /\ r.required_determinism => s.determinism_profile \in policy.deterministic_profiles
  /\ r.verification_requirements \subseteq s.verification_profile
  /\ r.required_explainability =>
       /\ policy.explainability_profile # NoProfile
       /\ policy.explainability_profile \in s.verification_profile
  /\ r.required_accuracy = Absent

LEMMA RequestRejectionsIff ==
  ASSUME NEW r, NEW policy, NEW s
  PROVE  RequestRejections(r, policy, s) = {} <=> Meets(r, policy, s)
  BY DEF RequestRejections, Meets

(* The narrowing of requests that fallback.py enforces, without the         *)
(* conditions on the instant.                                               *)
Continues(previous, current) ==
  /\ KeepsIdentity(previous, current)
  /\ KeepsCeilings(previous, current)
  /\ KeepsQuality(previous, current)
  /\ KeepsDeadline(previous, current)
  /\ NarrowsBudget(current.reasoning_budget, previous.reasoning_budget)

LEMMA ContinuesReflexive ==
  ASSUME NEW r \in Request
  PROVE  Continues(r, r)
  <1>1. KeepsIdentity(r, r)
    BY DEF KeepsIdentity
  <1>2. KeepsCeilings(r, r) /\ KeepsDeadline(r, r) /\ KeepsQuality(r, r)
    BY RequestAssumption DEF KeepsCeilings, KeepsDeadline, KeepsQuality, Time, NoTime, Absent
  <1>3. NarrowsBudget(r.reasoning_budget, r.reasoning_budget)
    BY RequestAssumption DEF NarrowsBudget, ReasoningBudgets, Counters
  <1>4. QED
    BY <1>1, <1>2, <1>3 DEF Continues

LEMMA ContinuesTransitive ==
  ASSUME NEW a \in Request, NEW b \in Request, NEW c \in Request,
         Continues(a, b), Continues(b, c)
  PROVE  Continues(a, c)
  <1>1. KeepsIdentity(a, c)
    BY DEF Continues, KeepsIdentity
  <1>2. KeepsCeilings(a, c)
    BY RequestAssumption DEF Continues, KeepsCeilings
  <1>3. KeepsQuality(a, c)
    BY RequestAssumption DEF Continues, KeepsQuality, Absent
  <1>4. KeepsDeadline(a, c)
    BY RequestAssumption DEF Continues, KeepsDeadline, Time, NoTime
  <1>5. NarrowsBudget(c.reasoning_budget, a.reasoning_budget)
    BY RequestAssumption DEF Continues, NarrowsBudget, ReasoningBudgets, Counters
  <1>6. QED
    BY <1>1, <1>2, <1>3, <1>4, <1>5 DEF Continues

(* A stricter request has no more candidates: whatever is eligible for the  *)
(* continued request is eligible for the one it continues.                  *)
LEMMA EligibilityNarrows ==
  ASSUME NEW a \in Request, NEW b \in Request, Continues(a, b),
         NEW policy, NEW snapshot \in Snapshot, NEW n
  PROVE  EligibleIds(b, policy, snapshot, n) \subseteq EligibleIds(a, policy, snapshot, n)
  <1> SUFFICES ASSUME NEW id \in DOMAIN snapshot.substrates,
                      Eligible(b, policy, snapshot.substrates[id], n)
               PROVE  Eligible(a, policy, snapshot.substrates[id], n)
    BY DEF EligibleIds
  <1> DEFINE s == snapshot.substrates[id]
  <1>1. /\ ValidationRejections(s, n) = {} /\ PolicyRejections(policy, s) = {}
        /\ Meets(b, policy, s)
    BY EligibleIff, RequestRejectionsIff
  <1>2. /\ s.min_compute_units \in Nat /\ s.min_memory_bytes \in Nat
        /\ s.max_latency_ms \in Nat \cup {Absent}
    BY SnapshotAssumption
  <1>3. /\ a.max_latency_ms \in Nat /\ a.max_compute_units \in Nat /\ a.max_memory_bytes \in Nat
        /\ b.max_latency_ms \in Nat /\ b.max_compute_units \in Nat /\ b.max_memory_bytes \in Nat
        /\ b.max_latency_ms <= a.max_latency_ms
        /\ b.max_compute_units <= a.max_compute_units
        /\ b.max_memory_bytes <= a.max_memory_bytes
    BY RequestAssumption DEF Continues, KeepsCeilings
  <1>4. /\ a.security_binding.effective_data_classification
             = b.security_binding.effective_data_classification
        /\ a.security_binding.offline_required => b.security_binding.offline_required
        /\ a.required_determinism => b.required_determinism
        /\ a.required_explainability => b.required_explainability
        /\ a.verification_requirements \subseteq b.verification_requirements
        /\ a.required_accuracy # Absent => b.required_accuracy # Absent
    BY DEF Continues, KeepsIdentity, KeepsQuality
  <1> HIDE DEF s
  <1>5. /\ ~(s.min_compute_units > a.max_compute_units)
        /\ ~(s.min_memory_bytes > a.max_memory_bytes)
        /\ s.max_latency_ms # Absent
        /\ ~(s.max_latency_ms > a.max_latency_ms)
    BY <1>1, <1>2, <1>3 DEF Meets, Absent
  <1>6. Meets(a, policy, s)
    BY <1>1, <1>4, <1>5 DEF Meets
  <1>7. QED
    BY <1>1, <1>6, EligibleIff, RequestRejectionsIff DEF s

-----------------------------------------------------------------------------
(* The inductive invariant. *)

(* Nobody acts in the future, and an evaluation made at this instant that    *)
(* did not require a stop can only have missed what happened at this instant. *)
EvaluationIsFresh ==
  /\ now \in Time
  /\ cancelled_at \in Time \cup {NoTime} /\ cancelled_at <= now
  /\ ended_at \in Time \cup {NoTime} /\ ended_at <= now
  /\ evaluation.requirement \in Requirements
  /\ evaluation.requirement.evaluated_at <= now
  /\ (evaluation.requirement.evaluated_at = now /\ ~evaluation.requirement.required) =>
       cancelled_at \in {NoTime, now} /\ ended_at \in {NoTime, now}

(* The present route belongs to the present request. *)
RouteFits ==
  /\ root \in Request /\ request \in Request
  /\ Continues(root, request)
  /\ decision.decision_id \in DecisionId
  /\ decision.reasoning_budget = request.reasoning_budget
  /\ decision.security_binding = request.security_binding
  /\ decision.policy \in Policy
  /\ decision.created_at \in Time /\ decision.expires_at \in Time
  /\ decision.created_at < decision.expires_at /\ decision.created_at <= now
  /\ decision.selected_substrates # {}
  /\ \E snapshot \in Snapshot :
       /\ snapshot.snapshot_id = decision.security_binding.capability_snapshot_id
       /\ decision.selected_substrates
            \subseteq EligibleIds(request, decision.policy, snapshot, decision.created_at)
  /\ replans \in Nat
  /\ replans > 0 /\ request.deadline # NoTime =>
       decision.created_at < request.deadline /\ decision.expires_at <= request.deadline

(* The ledger of the present decision holds all that was ever spent. *)
LedgerIsComplete ==
  /\ ledger \in Ledgers /\ LedgerMatches(decision, ledger)
  /\ spent \in Counters /\ spent = ledger.usage.used

Rest ==
  /\ evaluation.decision_id \in DecisionId
  /\ outcome \in {"NONE", "ROUTE_SELECTED", "NO_VALID_ROUTE"}

ChainInv == EvaluationIsFresh /\ RouteFits /\ LedgerIsComplete /\ Rest

(* What a successful replan_fallback_route guarantees about its inputs. *)
LEMMA ReplanFacts ==
  ASSUME RouteFits, LedgerIsComplete, now \in Time,
         NEW in \in ReplanInputs, CanReplan(request, decision, ledger, evaluation, in, now)
  PROVE  /\ in.request \in Request /\ in.snapshot \in Snapshot /\ in.policy \in Policy
         /\ in.new_decision_id \in DecisionId
         /\ in.expires_at \in Time /\ in.expires_at > now
         /\ Continues(request, in.request)
         /\ in.snapshot.snapshot_id = in.request.security_binding.capability_snapshot_id
         /\ in.request.deadline # NoTime =>
              now < in.request.deadline /\ in.expires_at <= in.request.deadline
         /\ request.deadline # NoTime => now < request.deadline
         /\ evaluation.requirement.evaluated_at = now /\ ~evaluation.requirement.required
         /\ ExceededDimensions(in.request.reasoning_budget, ledger.usage.used) = {}
  <1>1. /\ in.request \in Request /\ in.snapshot \in Snapshot /\ in.policy \in Policy
        /\ in.new_decision_id \in DecisionId /\ in.expires_at \in {now + l : l \in Lifetime}
    BY DEF ReplanInputs
  <1>2. in.expires_at \in Time
    BY <1>1, ChainAssumption DEF Time
  <1>3. /\ ContinuesRequest(request, in.request, in.request.security_binding, now)
        /\ MayContinue(evaluation, decision, now)
        /\ CanCarry(request, in.request, decision, ledger)
        /\ in.expires_at > now
        /\ in.request.deadline # NoTime => in.expires_at <= in.request.deadline
        /\ CanSelect(in.request, in.snapshot, in.policy, in.request.security_binding, now)
    BY DEF CanReplan
  <1>4. Continues(request, in.request)
    BY <1>3 DEF Continues, ContinuesRequest, CanCarry, RouteFits
  <1>5. /\ in.snapshot.snapshot_id = in.request.security_binding.capability_snapshot_id
        /\ in.request.deadline # NoTime => now < in.request.deadline
    BY <1>3 DEF CanSelect, Absent, NoTime
  <1>6. request.deadline # NoTime => now < request.deadline
    <2>1. /\ request.deadline \in Time \cup {NoTime} /\ in.request.deadline \in Time \cup {NoTime}
      BY <1>1, RequestAssumption DEF RouteFits
    <2>2. request.deadline # NoTime =>
            in.request.deadline # NoTime /\ in.request.deadline <= request.deadline
      BY <1>4 DEF Continues, KeepsDeadline
    <2>3. QED
      BY <1>5, <2>1, <2>2 DEF Time, NoTime
  <1>7. QED
    BY <1>1, <1>2, <1>3, <1>4, <1>5, <1>6 DEF MayContinue, CanCarry

(* Selecting only ever takes eligible substrates. *)
LEMMA FallbackSelectedIsEligible ==
  ASSUME NEW r, NEW d, NEW snapshot, NEW policy, NEW fallback, NEW unavailable, NEW n
  PROVE  FallbackSelected(r, d, snapshot, policy, fallback, unavailable, n)
           \subseteq EligibleIds(r, policy, snapshot, n)
  BY DEF FallbackSelected, FirstRanked

LEMMA InitChain == Init => ChainInv
  <1> SUFFICES ASSUME Init PROVE ChainInv
    OBVIOUS
  <1>1. request \in Request /\ root = request
    BY DEF Init
  <1>2. PICK snapshot \in Snapshot, policy \in Policy, id \in DecisionId, lifetime \in Lifetime :
          /\ CanSelect(request, snapshot, policy, request.security_binding, 0)
          /\ Selected(request, snapshot, policy, 0) # {}
          /\ decision = FirstDecision(request, snapshot, policy, id, lifetime)
    BY DEF Init
  <1>3. now = 0 /\ cancelled_at = NoTime /\ ended_at = NoTime /\ replans = 0 /\ outcome = "NONE"
    BY DEF Init
  <1>4. EvaluationIsFresh
    <2>1. request.deadline \in Time \cup {NoTime} /\ NoTime \in Time \cup {NoTime} /\ 0 \in Time
      BY <1>1, RequestAssumption DEF Time
    <2> DEFINE ended == FALSE
    <2>2. evaluation.requirement = RequirementAt(ended, NoTime, request.deadline, 0)
          /\ ended \in BOOLEAN
      BY DEF Init, Evaluated
    <2> HIDE DEF ended
    <2>3. evaluation.requirement \in Requirements /\ evaluation.requirement.evaluated_at = 0
      BY <2>1, <2>2, RequirementType
    <2>4. QED
      BY <1>3, <2>1, <2>3 DEF EvaluationIsFresh, NoTime
  <1>5. RouteFits
    <2>1. Continues(root, request)
      BY <1>1, ContinuesReflexive
    <2>2. /\ decision.decision_id = id /\ decision.security_binding = request.security_binding
          /\ decision.policy = policy
          /\ decision.selected_substrates = Selected(request, snapshot, policy, 0)
          /\ decision.reasoning_budget = request.reasoning_budget
          /\ decision.created_at = 0 /\ decision.expires_at = lifetime
      BY <1>2 DEF FirstDecision
    <2>3. lifetime \in Nat /\ lifetime > 0
      BY ChainAssumption
    <2>4. Selected(request, snapshot, policy, 0) \subseteq EligibleIds(request, policy, snapshot, 0)
      BY DEF Selected, FirstRanked
    <2>5. snapshot.snapshot_id = request.security_binding.capability_snapshot_id
      BY <1>2 DEF CanSelect
    <2>6. QED
      BY <1>1, <1>2, <1>3, <2>1, <2>2, <2>3, <2>4, <2>5 DEF RouteFits, Time
  <1>6. LedgerIsComplete
    <2>1. ledger = ZeroLedger(decision) /\ spent = NoCost
      BY DEF Init
    <2>2. decision.reasoning_budget \in ReasoningBudgets /\ decision.decision_id \in DecisionId
      BY <1>5, RequestAssumption DEF RouteFits
    <2>3. NoCost \in Counters
      BY DEF NoCost, Counters
    <2>4. ExceededDimensions(decision.reasoning_budget, NoCost) = {}
      BY <2>2 DEF ExceededDimensions, NoCost, ReasoningBudgets, Counters
    <2>5. QED
      BY <2>1, <2>2, <2>3, <2>4
      DEF LedgerIsComplete, ZeroLedger, Ledgers, ReasoningBudgetUsages, LedgerMatches
  <1>7. Rest
    <2>1. evaluation.decision_id = decision.decision_id
      BY DEF Init, Evaluated
    <2>2. QED
      BY <1>3, <1>5, <2>1 DEF Rest, RouteFits
  <1>8. QED
    BY <1>4, <1>5, <1>6, <1>7 DEF ChainInv

LEMMA StepChain == ChainInv /\ [Next]_vars => ChainInv'
  <1> SUFFICES ASSUME ChainInv, [Next]_vars PROVE ChainInv'
    OBVIOUS
  <1> USE DEF clock, route
  <1>1. CASE Tick
    <2>1. now' = now + 1 /\ now \in Nat
      BY <1>1 DEF Tick, ChainInv, EvaluationIsFresh, Time
    <2>2. EvaluationIsFresh'
      BY <1>1, <2>1 DEF Tick, ChainInv, EvaluationIsFresh, Time, NoTime, Requirements
    <2>3. RouteFits'
      BY <1>1, <2>1 DEF Tick, ChainInv, RouteFits, Time
    <2>4. LedgerIsComplete' /\ Rest'
      BY <1>1 DEF Tick, ChainInv, LedgerIsComplete, Rest
    <2>5. QED
      BY <2>2, <2>3, <2>4 DEF ChainInv
  <1>2. CASE Cancel \/ EndLifecycle
    <2>1. EvaluationIsFresh'
      BY <1>2 DEF Cancel, EndLifecycle, ChainInv, EvaluationIsFresh, Time
    <2>2. RouteFits' /\ LedgerIsComplete' /\ Rest'
      BY <1>2 DEF Cancel, EndLifecycle, ChainInv, RouteFits, LedgerIsComplete, Rest
    <2>3. QED
      BY <2>1, <2>2 DEF ChainInv
  <1>3. ASSUME NEW delta \in Delta, Consume(delta) PROVE ChainInv'
    <2>1. LedgerIsComplete'
      <3>1. /\ delta \in Counters /\ ledger.usage \in ReasoningBudgetUsages
            /\ CanConsume(ledger.usage, delta) /\ LedgerMatches(decision, ledger)
        BY <1>3, ChainAssumption
        DEF Consume, ChainInv, LedgerIsComplete, Ledgers, CanConsumeLedger
      <3>2. /\ Consumed(ledger.usage, delta) \in ReasoningBudgetUsages
            /\ Consumed(ledger.usage, delta).budget = ledger.usage.budget
        BY <3>1, ConsumedFacts
      <3>3. Consumed(ledger.usage, delta).used = Charged(ledger.usage.used, delta)
        BY <3>1 DEF Consumed, ReasoningBudgetUsages
      <3>4. spent' = Charged(spent, delta) /\ spent' \in Counters
        BY <1>3, <3>1, ChargedFacts DEF Consume, ChainInv, LedgerIsComplete
      <3>5. ledger' = [decision_id |-> ledger.decision_id, usage |-> Consumed(ledger.usage, delta)]
        BY <1>3 DEF Consume, ConsumedLedger, ChainInv, LedgerIsComplete, Ledgers
      <3>6. ledger.decision_id \in DecisionId /\ decision' = decision /\ spent = ledger.usage.used
        BY <1>3 DEF Consume, ChainInv, LedgerIsComplete, Ledgers
      <3>7. QED
        BY <3>1, <3>2, <3>3, <3>4, <3>5, <3>6 DEF LedgerIsComplete, Ledgers, LedgerMatches
    <2>2. EvaluationIsFresh' /\ RouteFits' /\ Rest'
      BY <1>3 DEF Consume, ChainInv, EvaluationIsFresh, RouteFits, Rest
    <2>3. QED
      BY <2>1, <2>2 DEF ChainInv
  <1>4. CASE EvaluateTerminationRequirement
    <2> DEFINE ended == ended_at # NoTime
    <2>1. /\ ended \in BOOLEAN /\ cancelled_at \in Time \cup {NoTime}
          /\ request.deadline \in Time \cup {NoTime} /\ now \in Time
      BY RequestAssumption DEF ChainInv, EvaluationIsFresh, RouteFits
    <2>2. /\ evaluation'.decision_id = decision.decision_id
          /\ evaluation'.requirement = RequirementAt(ended, cancelled_at, request.deadline, now)
          /\ UNCHANGED <<clock, root, route, spent, outcome>>
          /\ ended <=> ended_at # NoTime
      BY <1>4 DEF EvaluateTerminationRequirement, Evaluated
    <2> HIDE DEF ended
    <2> DEFINE r == RequirementAt(ended, cancelled_at, request.deadline, now)
    <2>3. r \in Requirements /\ r.evaluated_at = now
      BY <2>1, RequirementType
    <2>4. r = RequirementAt(ended, cancelled_at, request.deadline, now)
      OBVIOUS
    <2> HIDE DEF r
    <2>5. r.required <=> ended \/ Reached(request.deadline, now) \/ Reached(cancelled_at, now)
      BY <2>1, <2>4, StopReasonFacts
    <2>6. evaluation'.requirement = r
      BY <2>2 DEF r
    <2>7. EvaluationIsFresh'
      BY <2>1, <2>2, <2>3, <2>5, <2>6 DEF ChainInv, EvaluationIsFresh, Reached, Time
    <2>8. RouteFits' /\ LedgerIsComplete' /\ Rest'
      BY <2>2 DEF ChainInv, RouteFits, LedgerIsComplete, Rest
    <2>9. QED
      BY <2>7, <2>8 DEF ChainInv
  <1>5. ASSUME NEW in \in ReplanInputs, ReplanFallbackRoute(in) PROVE ChainInv'
    <2> DEFINE replacement == Replacement(decision, in, now)
    <2>1. /\ CanReplan(request, decision, ledger, evaluation, in, now)
          /\ UNCHANGED <<now, cancelled_at, evaluation, root, spent>>
      BY <1>5 DEF ReplanFallbackRoute
    <2>2. RouteFits /\ LedgerIsComplete /\ now \in Time
      BY DEF ChainInv, EvaluationIsFresh
    <2>3. /\ in.request \in Request /\ in.snapshot \in Snapshot /\ in.policy \in Policy
          /\ in.new_decision_id \in DecisionId
          /\ in.expires_at \in Time /\ in.expires_at > now
          /\ Continues(request, in.request)
          /\ in.snapshot.snapshot_id = in.request.security_binding.capability_snapshot_id
          /\ in.request.deadline # NoTime =>
               now < in.request.deadline /\ in.expires_at <= in.request.deadline
          /\ ExceededDimensions(in.request.reasoning_budget, ledger.usage.used) = {}
      BY <2>1, <2>2, ReplanFacts
    <2>4. CASE UNCHANGED <<route, ended_at>> /\ outcome' = "NO_VALID_ROUTE"
      BY <2>1, <2>4 DEF ChainInv, EvaluationIsFresh, RouteFits, LedgerIsComplete, Rest
    <2>5. CASE /\ replacement.selected_substrates # {}
               /\ outcome' = "ROUTE_SELECTED"
               /\ request' = in.request
               /\ decision' = replacement
               /\ ledger' = CarriedLedger(in.new_decision_id, in.request, ledger)
               /\ replans' = replans + 1
               /\ ended_at' = NoTime
      <3>1. EvaluationIsFresh'
        BY <2>1, <2>5 DEF ChainInv, EvaluationIsFresh, Time, NoTime
      <3>2. /\ decision'.decision_id = in.new_decision_id
            /\ decision'.security_binding = in.request.security_binding
            /\ decision'.policy = in.policy
            /\ decision'.reasoning_budget = in.request.reasoning_budget
            /\ decision'.created_at = now /\ decision'.expires_at = in.expires_at
            /\ decision'.selected_substrates # {}
            /\ decision'.selected_substrates
                 \subseteq EligibleIds(in.request, in.policy, in.snapshot, now)
        BY <2>5, FallbackSelectedIsEligible DEF Replacement
      <3>3. Continues(root, in.request)
        BY <2>2, <2>3, ContinuesTransitive DEF RouteFits
      <3>4. RouteFits'
        BY <2>1, <2>2, <2>3, <2>5, <3>2, <3>3 DEF RouteFits, Time
      <3>5. LedgerIsComplete'
        <4>1. ledger' = [decision_id |-> in.new_decision_id,
                         usage |-> [budget |-> in.request.reasoning_budget,
                                    used |-> ledger.usage.used]]
          BY <2>5 DEF CarriedLedger
        <4>2. in.request.reasoning_budget \in ReasoningBudgets
          BY <2>3, RequestAssumption
        <4>3. spent' = spent /\ spent = ledger.usage.used /\ spent \in Counters
          BY <2>1, <2>2 DEF LedgerIsComplete
        <4>4. QED
          BY <2>3, <3>2, <4>1, <4>2, <4>3
          DEF LedgerIsComplete, Ledgers, LedgerMatches, ReasoningBudgetUsages
      <3>6. Rest'
        BY <2>1, <2>5 DEF ChainInv, Rest
      <3>7. QED
        BY <3>1, <3>4, <3>5, <3>6 DEF ChainInv
    <2>6. QED
      BY <1>5, <2>4, <2>5 DEF ReplanFallbackRoute
  <1>6. CASE UNCHANGED vars
    BY <1>6 DEF vars, ChainInv, EvaluationIsFresh, RouteFits, LedgerIsComplete, Rest
  <1>7. QED
    BY <1>1, <1>2, <1>3, <1>4, <1>5, <1>6 DEF Next

(* The strengthening that the theorems below rest on. *)
THEOREM ChainInvHolds == Spec => []ChainInv
  BY InitChain, StepChain, PTL DEF Spec

-----------------------------------------------------------------------------
(* The properties of FallbackChain. *)

(* Every value held fits its type and the other values. *)
THEOREM TypeCorrect == Spec => []TypeOK
  <1>1. ChainInv => TypeOK
    <2> SUFFICES ASSUME ChainInv PROVE TypeOK
      OBVIOUS
    <2>1. decision.selected_substrates \subseteq SubstrateId
      BY SnapshotAssumption DEF ChainInv, RouteFits, EligibleIds
    <2>2. QED
      BY <2>1 DEF ChainInv, EvaluationIsFresh, RouteFits, LedgerIsComplete, Rest, TypeOK
  <1>2. QED
    BY <1>1, ChainInvHolds, PTL

(* No number of fallbacks lets a request spend more than it was admitted     *)
(* with.                                                                    *)
THEOREM WithinRootBudgetHolds == Spec => []WithinRootBudget
  <1>1. ChainInv => WithinRootBudget
    <2> SUFFICES ASSUME ChainInv, NEW k \in Dimension
                 PROVE  spent[k] <= root.reasoning_budget.max[k]
      BY DEF WithinRootBudget
    <2>1. /\ ledger \in Ledgers /\ spent = ledger.usage.used
          /\ ledger.usage.budget = request.reasoning_budget
      BY DEF ChainInv, LedgerIsComplete, RouteFits, LedgerMatches
    <2>2. spent[k] <= request.reasoning_budget.max[k]
      BY <2>1 DEF Ledgers, ReasoningBudgetUsages, ReasoningBudgets, Counters, ExceededDimensions
    <2>3. /\ request.reasoning_budget.max[k] <= root.reasoning_budget.max[k]
          /\ root \in Request /\ request \in Request /\ spent \in Counters
      BY DEF ChainInv, LedgerIsComplete, RouteFits, Continues, NarrowsBudget
    <2>4. QED
      BY <2>2, <2>3, RequestAssumption DEF Counters, ReasoningBudgets
  <1>2. QED
    BY <1>1, ChainInvHolds, PTL

(* Whatever a route of the chain selected, the first request would have      *)
(* accepted.                                                                *)
THEOREM ServesTheRootHolds == Spec => []ServesTheRoot
  <1>1. ChainInv => ServesTheRoot
    <2> SUFFICES ASSUME ChainInv PROVE ServesTheRoot
      OBVIOUS
    <2>1. PICK snapshot \in Snapshot :
            /\ snapshot.snapshot_id = decision.security_binding.capability_snapshot_id
            /\ decision.selected_substrates
                 \subseteq EligibleIds(request, decision.policy, snapshot, decision.created_at)
      BY DEF ChainInv, RouteFits
    <2>2. EligibleIds(request, decision.policy, snapshot, decision.created_at)
            \subseteq EligibleIds(root, decision.policy, snapshot, decision.created_at)
      BY EligibilityNarrows DEF ChainInv, RouteFits
    <2>3. QED
      BY <2>1, <2>2 DEF ServesTheRoot
  <1>2. QED
    BY <1>1, ChainInvHolds, PTL

(* No replacement is made after, or outlives, the deadline of the first      *)
(* request.                                                                 *)
THEOREM WithinRootDeadlineHolds == Spec => []WithinRootDeadline
  <1>1. ChainInv => WithinRootDeadline
    <2> SUFFICES ASSUME ChainInv, replans > 0, root.deadline # NoTime
                 PROVE  decision.created_at < root.deadline /\ decision.expires_at <= root.deadline
      BY DEF WithinRootDeadline
    <2>1. request.deadline # NoTime /\ request.deadline <= root.deadline
      BY DEF ChainInv, RouteFits, Continues, KeepsDeadline
    <2>2. /\ decision.created_at < request.deadline /\ decision.expires_at <= request.deadline
          /\ decision.created_at \in Time /\ decision.expires_at \in Time
          /\ request.deadline \in Time \cup {NoTime} /\ root.deadline \in Time \cup {NoTime}
      BY <2>1, RequestAssumption DEF ChainInv, RouteFits
    <2>3. QED
      BY <2>1, <2>2 DEF Time, NoTime
  <1>2. QED
    BY <1>1, ChainInvHolds, PTL

(* No route replaces another after the execution had to stop. *)
THEOREM StopForbidsFallbackHolds == Spec => StopForbidsFallback
  <1>1. ChainInv /\ [Next]_vars =>
          [decision' # decision =>
             /\ cancelled_at \in {NoTime, now}
             /\ ended_at \in {NoTime, now}
             /\ request.deadline # NoTime => now < request.deadline]_vars
    <2> SUFFICES ASSUME ChainInv, Next, decision' # decision
                 PROVE  /\ cancelled_at \in {NoTime, now}
                        /\ ended_at \in {NoTime, now}
                        /\ request.deadline # NoTime => now < request.deadline
      BY DEF vars
    <2>1. PICK in \in ReplanInputs : ReplanFallbackRoute(in)
      BY DEF Next, Tick, Cancel, EndLifecycle, Consume, EvaluateTerminationRequirement, route
    <2>2. CanReplan(request, decision, ledger, evaluation, in, now)
      BY <2>1 DEF ReplanFallbackRoute
    <2>3. RouteFits /\ LedgerIsComplete /\ now \in Time
      BY DEF ChainInv, EvaluationIsFresh
    <2>4. /\ evaluation.requirement.evaluated_at = now /\ ~evaluation.requirement.required
          /\ request.deadline # NoTime => now < request.deadline
      BY <2>2, <2>3, ReplanFacts
    <2>5. QED
      BY <2>4 DEF ChainInv, EvaluationIsFresh
  <1>2. QED
    BY <1>1, ChainInvHolds, PTL DEF Spec, StopForbidsFallback

(* FallbackChain implements BoundedSpending: charging is the spending of the *)
(* abstract specification, a replan its narrowing, the rest is stuttering.   *)
THEOREM SpendingPromiseHolds == Spec => SpendingPromise
  <1>1. Init => Promise!Init
    <2> SUFFICES ASSUME Init PROVE Promise!Init
      OBVIOUS
    <2>1. request \in Request /\ spent = NoCost
      BY DEF Init
    <2>2. QED
      BY <2>1, RequestAssumption DEF Promise!Init, ReasoningBudgets, Counters, NoCost
  <1>2. ChainInv /\ ChainInv' /\ [Next]_vars => [Promise!Next]_(Promise!vars)
    <2> SUFFICES ASSUME ChainInv, ChainInv', [Next]_vars PROVE [Promise!Next]_(Promise!vars)
      OBVIOUS
    <2>1. /\ request \in Request /\ request' \in Request
          /\ spent \in Counters /\ spent' \in Counters
          /\ request.reasoning_budget \in ReasoningBudgets
          /\ request'.reasoning_budget \in ReasoningBudgets
      BY RequestAssumption DEF ChainInv, RouteFits, LedgerIsComplete
    <2>2. Promise!Below(spent', request'.reasoning_budget.max)
      <3>1. /\ ledger' \in Ledgers /\ spent' = ledger'.usage.used
            /\ ledger'.usage.budget = request'.reasoning_budget
        BY DEF ChainInv, LedgerIsComplete, RouteFits, LedgerMatches
      <3>2. QED
        BY <3>1, <2>1
        DEF Promise!Below, Ledgers, ReasoningBudgetUsages, ReasoningBudgets, Counters,
            ExceededDimensions
    <2>3. ASSUME NEW delta \in Delta, Consume(delta) PROVE Promise!Spend
      <3>1. /\ spent' = Charged(spent, delta) /\ request' = request /\ delta \in Counters
        BY <2>3, ChainAssumption DEF Consume
      <3>2. Promise!Below(spent, spent')
        BY <2>1, <3>1, ChargedFacts DEF Promise!Below
      <3>3. QED
        BY <2>1, <2>2, <3>1, <3>2 DEF Promise!Spend, Counters
    <2>4. ASSUME NEW in \in ReplanInputs, ReplanFallbackRoute(in), request' # request
          PROVE  Promise!Narrow
      <3>1. /\ CanReplan(request, decision, ledger, evaluation, in, now)
            /\ request' = in.request /\ spent' = spent
        BY <2>4 DEF ReplanFallbackRoute, route
      <3>2. RouteFits /\ LedgerIsComplete /\ now \in Time
        BY DEF ChainInv, EvaluationIsFresh
      <3>3. Continues(request, request')
        BY <3>1, <3>2, ReplanFacts
      <3>4. Promise!Below(request'.reasoning_budget.max, request.reasoning_budget.max)
        BY <3>3 DEF Continues, NarrowsBudget, Promise!Below
      <3>5. QED
        BY <2>1, <2>2, <3>1, <3>4 DEF Promise!Narrow, ReasoningBudgets, Counters
    <2>5. CASE UNCHANGED <<request, spent>>
      BY <2>5 DEF Promise!vars
    <2>6. CASE Tick \/ Cancel \/ EndLifecycle \/ EvaluateTerminationRequirement \/ UNCHANGED vars
      BY <2>5, <2>6
      DEF Tick, Cancel, EndLifecycle, EvaluateTerminationRequirement, route, vars
    <2>7. ASSUME NEW in \in ReplanInputs, ReplanFallbackRoute(in)
          PROVE  [Promise!Next]_(Promise!vars)
      <3>1. spent' = spent
        BY <2>7 DEF ReplanFallbackRoute
      <3>2. QED
        BY <2>4, <2>5, <2>7, <3>1 DEF Promise!Next
    <2>8. QED
      BY <2>3, <2>6, <2>7 DEF Next, Promise!Next
  <1>3. QED
    BY <1>1, <1>2, ChainInvHolds, PTL DEF Spec, SpendingPromise, Promise!Spec

=============================================================================
