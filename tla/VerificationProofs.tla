---------------------------- MODULE VerificationProofs ----------------------------
(***************************************************************************)
(* Proofs about Verification for every set of requests, decisions, snapshots, *)
(* policies, verifiers and reports, and without its bounds.                  *)
(***************************************************************************)
EXTENDS Verification, SharedLemmas, FiniteSetTheorems, TLAPS

-----------------------------------------------------------------------------
(* Evaluated requirements. *)

(* A requirement that does not ask to stop, however it was come by, speaks   *)
(* of an instant before every stop.                                         *)
LEMMA NotRequiredFacts ==
  ASSUME now \in Nat, cancelled_at \in Nat \cup {NoTime}, ended_at \in Nat \cup {NoTime},
         request.deadline \in Time \cup {NoTime}, NEW r \in EvaluatedRequirements
  PROVE  ~r.required =>
           /\ cancelled_at # NoTime => r.evaluated_at <= cancelled_at
           /\ ended_at # NoTime => r.evaluated_at <= ended_at
           /\ request.deadline # NoTime => r.evaluated_at < request.deadline
  <1>1. PICK t \in 0..now, ended \in BOOLEAN, cancelled \in BOOLEAN :
          /\ r = Requirement(t, ended, cancelled)
          /\ MayKnow(ended_at, t, ended) /\ MayKnow(cancelled_at, t, cancelled)
    BY DEF EvaluatedRequirements
  <1> DEFINE at == IF cancelled THEN cancelled_at ELSE NoTime
  <1>2. /\ t \in Time /\ at \in Time \cup {NoTime}
        /\ ended \in BOOLEAN /\ request.deadline \in Time \cup {NoTime}
    BY DEF Time
  <1>3. r = RequirementAt(ended, at, request.deadline, t)
    BY <1>1 DEF Requirement
  <1>4. cancelled => at = cancelled_at
    OBVIOUS
  <1> HIDE DEF at
  <1>5. /\ r.required <=> ended \/ Reached(request.deadline, t) \/ Reached(at, t)
        /\ r.evaluated_at = t
    <2>1. r.required <=> ended \/ Reached(request.deadline, t) \/ Reached(at, t)
      <3>1. r.required <=> StopReason(ended, at, request.deadline, t) # NoReason
        BY <1>3 DEF RequirementAt
      <3>2. QED
        BY <1>2, <3>1 DEF StopReason, Reached, NoReason
    <2>2. r.evaluated_at = t
      BY <1>2, <1>3, RequirementType
    <2>3. QED
      BY <2>1, <2>2
  <1>6. ASSUME ~r.required
        PROVE  /\ cancelled_at # NoTime => t <= cancelled_at
               /\ ended_at # NoTime => t <= ended_at
               /\ request.deadline # NoTime => t < request.deadline
    <2>1. ~ended /\ ~Reached(request.deadline, t) /\ ~Reached(at, t)
      BY <1>5, <1>6
    <2>2. ended_at # NoTime => t <= ended_at
      BY <1>1, <2>1 DEF MayKnow
    <2>3. request.deadline # NoTime => t < request.deadline
      BY <1>2, <2>1 DEF Reached, Time
    <2>4. cancelled_at # NoTime => t <= cancelled_at
      <3>1. CASE cancelled
        BY <1>2, <1>4, <2>1, <3>1 DEF Reached, Time
      <3>2. CASE ~cancelled
        BY <1>1, <3>2 DEF MayKnow
      <3>3. QED
        BY <3>1, <3>2
    <2>5. QED
      BY <2>2, <2>3, <2>4
  <1>7. QED
    BY <1>5, <1>6

(* Before the effective deadline is before the deadline of the policy.       *)
LEMMA InTimeFacts ==
  ASSUME NEW r \in Request, NEW policy \in VerificationPolicy, NEW n \in Nat, InTime(r, policy, n)
  PROVE  policy.deadline # NoTime => n < policy.deadline
  BY DeadlineAssumption DEF InTime, EffectiveDeadline, Reached, Time, NoTime

-----------------------------------------------------------------------------
(* The inductive invariant. *)

ObservationRecords ==
  [verifier : SubstrateId, method_version : Version, assertion : Assertion,
   status : AssertionStatus, evidence_refs : {r.evidence_refs : r \in Report},
   contradictions : {r.contradictions : r \in Report}, observed_at : Nat]

OrchestrationRecords ==
  [policy : VerificationPolicy, subject_producer : Producer,
   selected_verifiers : SUBSET SubstrateId, evidence_catalog : {Catalog},
   observations : SUBSET ObservationRecords, lifecycle : LifecycleSnapshots, started_at : Nat]

WorldInv ==
  /\ now \in Nat
  /\ cancelled_at \in Nat \cup {NoTime} /\ ended_at \in Nat \cup {NoTime}
  /\ request \in Request /\ decision \in Decision

(* A lifecycle belongs to the decision and spends from its budget. *)
OfDecision(s) ==
  /\ s \in LifecycleSnapshots
  /\ s.routing_decision_id = decision.decision_id
  /\ s.budget_state.usage.budget = decision.reasoning_budget

(* The verifications in progress hold what they were begun with. *)
StateInv ==
  InProgress =>
    /\ state \in OrchestrationRecords
    /\ OfDecision(state.lifecycle) /\ state.lifecycle.state = "VERIFYING"
    /\ state.started_at <= now /\ begun.snapshot \in Snapshot
    /\ \A v \in state.selected_verifiers :
         /\ v # state.subject_producer
         /\ v \in DOMAIN begun.snapshot.substrates
         /\ "DISTINCT_OWNER" \in state.policy.independence_requirement
            /\ state.subject_producer \in DOMAIN begun.snapshot.substrates =>
              begun.snapshot.substrates[v].owner
                # begun.snapshot.substrates[state.subject_producer].owner

(* Every observation was admissible, and no verifier is heard twice on one   *)
(* assertion.                                                               *)
ObservationsInv ==
  InProgress =>
    /\ \A o \in state.observations :
         /\ o.verifier \in state.selected_verifiers
         /\ o.assertion \in state.policy.required_assertions
         /\ o.evidence_refs \subseteq DOMAIN state.evidence_catalog
         /\ state.started_at <= o.observed_at /\ o.observed_at <= now
    /\ IsFiniteSet(state.observations)

(* Observations are counted in the ledger, one pass each. *)
PassesInv ==
  InProgress =>
    LET count == Cardinality(state.observations)
        used == state.lifecycle.budget_state.usage.used
        before == begun.lifecycle.budget_state.usage.used
    IN /\ begun.lifecycle \in LifecycleSnapshots
       /\ state.lifecycle.sequence = begun.lifecycle.sequence + count
       /\ \A k \in Dimension : used[k] = before[k] + (IF k = VerifierPasses THEN count ELSE 0)
       /\ count > 0 => used[VerifierPasses] <= state.policy.max_verifier_passes

(* What a verdict stands for when it is given. *)
VerdictInv ==
  result # None =>
    /\ InProgress
    /\ result.status \in VerificationStatus
    /\ result.finished_at \in Nat /\ result.finished_at <= now
    /\ result.status = "SUPPORTED" =>
         /\ ~state.policy.human_review_required
         /\ \A a \in state.policy.required_assertions :
              /\ \A o \in Relevant(state, a) : o.status \notin Objection
              /\ Cardinality(Supporting(state, a)) >= state.policy.minimum_supporting_verifiers
              /\ state.policy.required_evidence_classes \subseteq ObservedClasses(state, a)
         /\ \E s \in Snapshot : \A a \in state.policy.required_assertions :
              IndependenceSatisfied(Supporting(state, a), state.policy, s)

IInv ==
  /\ WorldInv /\ OfDecision(lifecycle)
  /\ StateInv /\ ObservationsInv /\ PassesInv /\ StopForbidsVerdict /\ VerdictInv

-----------------------------------------------------------------------------
(* Initially no verification is in progress. *)
LEMMA InitEstablishes == Init => IInv
  <1> SUFFICES ASSUME Init PROVE IInv
    OBVIOUS
  <1>1. /\ now = 0 /\ cancelled_at = NoTime /\ ended_at = NoTime
        /\ request \in Request /\ decision \in Decision
        /\ lifecycle = InitialSnapshot(decision, request.correlation_id)
        /\ ~InProgress /\ result = None
    BY DEF Init, InProgress
  <1>2. OfDecision(lifecycle)
    <2>1. /\ request.correlation_id \in CorrelationId /\ decision.decision_id \in DecisionId
          /\ decision.reasoning_budget \in ReasoningBudgets
      BY <1>1, VerificationAssumption
    <2>2. /\ lifecycle \in LifecycleSnapshots
          /\ lifecycle.routing_decision_id = decision.decision_id
          /\ lifecycle.budget_state = ZeroLedger(decision)
      BY <1>1, <2>1, InitialSnapshotFacts
    <2>3. QED
      BY <2>2 DEF OfDecision, ZeroLedger
  <1>3. QED
    BY <1>1, <1>2 DEF IInv, WorldInv, StateInv, ObservationsInv, PassesInv, StopForbidsVerdict,
                      VerdictInv

-----------------------------------------------------------------------------
(* Time, a cancellation and the end of the lifecycle leave what was recorded *)
(* before them where it was.                                                *)
LEMMA EventPreserves ==
  ASSUME IInv,
         \/ Tick \/ Cancel
         \/ /\ ended_at' = now /\ OfDecision(lifecycle)'
            /\ UNCHANGED <<now, cancelled_at, request, decision, state, begun, result>>
  PROVE  IInv'
  <1>1. /\ now' \in Nat /\ now <= now'
        /\ cancelled_at' = cancelled_at \/ cancelled_at' = now
        /\ ended_at' = ended_at \/ ended_at' = now
        /\ OfDecision(lifecycle)'
        /\ UNCHANGED <<request, decision, state, begun, result>>
    BY DEF Tick, Cancel, IInv, WorldInv, OfDecision
  <1>2. WorldInv'
    BY <1>1 DEF IInv, WorldInv
  <1>3. StateInv' /\ ObservationsInv' /\ PassesInv' /\ VerdictInv'
    <2>1. now \in Nat
      BY DEF IInv, WorldInv
    <2>2. StateInv'
      BY <1>1, <2>1 DEF IInv, StateInv, OfDecision, InProgress, OrchestrationRecords
    <2>3. ObservationsInv'
      <3>1. InProgress => \A o \in state.observations : o.observed_at \in Nat
        BY DEF IInv, StateInv, OrchestrationRecords, ObservationRecords
      <3>2. QED
        BY <1>1, <2>1, <3>1 DEF IInv, ObservationsInv, InProgress
    <2>4. PassesInv'
      BY <1>1 DEF IInv, PassesInv, InProgress
    <2>5. VerdictInv'
      BY <1>1, <2>1 DEF IInv, VerdictInv, InProgress
    <2>6. QED
      BY <2>2, <2>3, <2>4, <2>5
  <1>4. ASSUME NEW t \in Nat, t <= now, Running(t) PROVE Running(t)'
    BY <1>1, <1>4 DEF Running, IInv, WorldInv
  <1>5. StopForbidsVerdict'
    <2>1. InProgress => /\ state.started_at \in Nat /\ state.started_at <= now
                        /\ \A o \in state.observations :
                             o.observed_at \in Nat /\ o.observed_at <= now
      BY DEF IInv, StateInv, ObservationsInv, OrchestrationRecords, ObservationRecords
    <2>2. result # None => result.finished_at \in Nat /\ result.finished_at <= now
      BY DEF IInv, VerdictInv
    <2>3. QED
      BY <1>1, <1>4, <2>1, <2>2 DEF IInv, StopForbidsVerdict, InProgress
  <1>6. QED
    BY <1>1, <1>2, <1>3, <1>5 DEF IInv

(* A transition outside verification. *)
LEMMA TransitionPreserves ==
  ASSUME IInv, NEW to, NEW delta \in Delta \cup {NoCost}, Transition(to, delta)
  PROVE  IInv'
  <1>1. delta \in Counters
    BY VerificationAssumption DEF NoCost, Counters
  <1>2. /\ CanTransition(decision, lifecycle, to, delta)
        /\ lifecycle' = NextSnapshot(lifecycle, to, delta)
        /\ UNCHANGED <<now, cancelled_at, request, decision>>
    BY DEF Transition
  <1>3. OfDecision(lifecycle)'
    <2>1. lifecycle \in LifecycleSnapshots
      BY DEF IInv, OfDecision
    <2>2. /\ lifecycle' \in LifecycleSnapshots
          /\ lifecycle'.routing_decision_id = lifecycle.routing_decision_id
      BY <1>1, <1>2, <2>1, TransitionFacts
    <2>3. lifecycle'.budget_state.usage.budget = lifecycle.budget_state.usage.budget
      BY <1>1, <1>2, <2>1, TransitionCharges
    <2>4. QED
      BY <1>2, <2>2, <2>3 DEF IInv, OfDecision
  <1>4. CASE to \in TerminalState
    BY <1>2, <1>3, <1>4, EventPreserves DEF Transition
  <1>5. CASE to \notin TerminalState
    <2>1. ~InProgress' /\ result' = None /\ ended_at' = ended_at
      BY <1>5 DEF Transition, InProgress
    <2>2. QED
      BY <1>2, <1>3, <2>1 DEF IInv, WorldInv, StateInv, ObservationsInv, PassesInv,
                              StopForbidsVerdict, VerdictInv
  <1>6. QED
    BY <1>4, <1>5

-----------------------------------------------------------------------------
(* begin_verification_orchestration *)
LEMMA BeginPreserves ==
  ASSUME IInv, NEW snapshot \in Snapshot, NEW selection, NEW policy \in VerificationPolicy,
         NEW producer \in Producer, NEW r \in EvaluatedRequirements, NEW b,
         BeginVerification(snapshot, selection, policy, producer, r, b)
  PROVE  IInv'
  <1> DEFINE chosen == SelectedVerifiers(request, snapshot, selection, policy, producer, now)
  <1>1. /\ state' = [policy |-> policy, subject_producer |-> producer,
                     selected_verifiers |-> chosen, evidence_catalog |-> Catalog,
                     observations |-> {}, lifecycle |-> lifecycle, started_at |-> now]
        /\ begun' = [lifecycle |-> lifecycle, snapshot |-> snapshot]
        /\ result' = None
        /\ UNCHANGED <<now, cancelled_at, ended_at, request, decision, lifecycle>>
    BY DEF BeginVerification, Orchestration, world
  <1>2. /\ BindingsHold(request, decision, lifecycle, snapshot, b, now)
        /\ EvaluatedAt(r, now) /\ ~r.required
        /\ InTime(request, policy, now)
    BY DEF BeginVerification, CanBeginVerification
  <1>3. /\ chosen \subseteq DOMAIN snapshot.substrates
        /\ \A v \in chosen :
             /\ v # producer
             /\ "DISTINCT_OWNER" \in policy.independence_requirement
                /\ producer \in DOMAIN snapshot.substrates =>
                  snapshot.substrates[v].owner # snapshot.substrates[producer].owner
    BY DEF SelectedVerifiers, IndependentVerifier, Selected, FirstRanked, EligibleIds
  <1> HIDE DEF chosen
  <1>4. chosen \subseteq SubstrateId
    BY <1>3, VerificationAssumption
  <1>5. /\ state'.policy = policy /\ state'.subject_producer = producer
        /\ state'.selected_verifiers = chosen /\ state'.observations = {}
        /\ state'.lifecycle = lifecycle /\ state'.started_at = now
        /\ begun'.lifecycle = lifecycle /\ begun'.snapshot = snapshot
    BY <1>1
  <1>6. WorldInv /\ OfDecision(lifecycle) /\ lifecycle.state = "VERIFYING"
    BY <1>2 DEF IInv, BindingsHold
  <1>7. WorldInv' /\ OfDecision(lifecycle)'
    BY <1>1, <1>6 DEF WorldInv, OfDecision
  <1>8. StateInv'
    <2>1. state' \in OrchestrationRecords
      BY <1>1, <1>4, <1>6 DEF OrchestrationRecords, WorldInv, OfDecision
    <2>2. OfDecision(state.lifecycle)'
      BY <1>1, <1>5, <1>6 DEF OfDecision
    <2>3. now' = now /\ now \in Nat
      BY <1>1, <1>6 DEF WorldInv
    <2>4. QED
      BY <1>3, <1>5, <1>6, <2>1, <2>2, <2>3 DEF StateInv
  <1>9. ObservationsInv' /\ PassesInv'
    <2>1. IsFiniteSet({}) /\ Cardinality({}) = 0
      BY FS_EmptySet
    <2>2. lifecycle \in LifecycleSnapshots
      BY <1>6 DEF OfDecision
    <2>3. lifecycle.sequence \in Nat /\ lifecycle.budget_state.usage.used \in Counters
      BY <2>2 DEF LifecycleSnapshots, Ledgers, ReasoningBudgetUsages
    <2>4. ObservationsInv'
      BY <1>5, <2>1 DEF ObservationsInv
    <2>5. PassesInv'
      BY <1>5, <2>1, <2>2, <2>3 DEF PassesInv, Counters
    <2>6. QED
      BY <2>4, <2>5
  <1>10. StopForbidsVerdict'
    <2>1. request.deadline \in Time \cup {NoTime}
      BY <1>6, DeadlineAssumption DEF WorldInv
    <2>2. /\ cancelled_at # NoTime => now <= cancelled_at
          /\ ended_at # NoTime => now <= ended_at
          /\ request.deadline # NoTime => now < request.deadline
      BY <1>2, <1>6, <2>1, NotRequiredFacts DEF WorldInv, EvaluatedAt
    <2>3. policy.deadline # NoTime => now < policy.deadline
      BY <1>2, <1>6, InTimeFacts DEF WorldInv
    <2>4. QED
      BY <1>1, <1>5, <2>2, <2>3 DEF StopForbidsVerdict, Running
  <1>11. VerdictInv'
    BY <1>1 DEF VerdictInv
  <1>12. QED
    BY <1>7, <1>8, <1>9, <1>10, <1>11 DEF IInv

-----------------------------------------------------------------------------
(* record_verifier_observation *)

(* An observation that was recorded is new, and costs one pass. *)
LEMMA RecordFacts ==
  ASSUME IInv, InProgress, NEW snapshot, NEW o \in ObservationRecords, NEW r, NEW b,
         CanRecord(request, decision, state, snapshot, o, r, b)
  PROVE  /\ o.verifier \in state.selected_verifiers
         /\ o.assertion \in state.policy.required_assertions
         /\ o.evidence_refs \subseteq DOMAIN state.evidence_catalog
         /\ state.started_at <= o.observed_at
         /\ o \notin state.observations
         /\ \A p \in state.observations : p.verifier # o.verifier \/ p.assertion # o.assertion
         /\ Recorded(state, o) \in OrchestrationRecords
         /\ Recorded(state, o).observations = state.observations \cup {o}
         /\ Recorded(state, o).policy = state.policy
         /\ Recorded(state, o).subject_producer = state.subject_producer
         /\ Recorded(state, o).selected_verifiers = state.selected_verifiers
         /\ Recorded(state, o).evidence_catalog = state.evidence_catalog
         /\ Recorded(state, o).started_at = state.started_at
         /\ OfDecision(Recorded(state, o).lifecycle)
         /\ Recorded(state, o).lifecycle.state = "VERIFYING"
         /\ Recorded(state, o).lifecycle.sequence = state.lifecycle.sequence + 1
         /\ \A k \in Dimension :
              Recorded(state, o).lifecycle.budget_state.usage.used[k]
                = state.lifecycle.budget_state.usage.used[k] + (IF k = VerifierPasses THEN 1 ELSE 0)
         /\ state.lifecycle.budget_state.usage.used[VerifierPasses] < state.policy.max_verifier_passes
  <1> DEFINE n == NextSnapshot(state.lifecycle, "VERIFYING", OnePass)
             used == state.lifecycle.budget_state.usage.used
             new == Recorded(state, o)
  <1>1. /\ o.verifier \in state.selected_verifiers
        /\ o.assertion \in state.policy.required_assertions
        /\ o.evidence_refs \subseteq DOMAIN state.evidence_catalog
        /\ state.started_at <= o.observed_at
        /\ \A p \in state.observations : p.verifier # o.verifier \/ p.assertion # o.assertion
        /\ used[VerifierPasses] < state.policy.max_verifier_passes
        /\ CanTransition(decision, state.lifecycle, "VERIFYING", OnePass)
    BY DEF CanRecord, IsAdmissible, PassesLeft
  <1>2. o \notin state.observations
    BY <1>1
  <1>3. state \in OrchestrationRecords /\ OfDecision(state.lifecycle)
    BY DEF IInv, StateInv
  <1>4. state.lifecycle \in LifecycleSnapshots /\ OnePass \in Counters
    BY <1>3 DEF OrchestrationRecords, OnePass, Counters
  <1>5. /\ n \in LifecycleSnapshots
        /\ n.routing_decision_id = state.lifecycle.routing_decision_id
        /\ n.sequence = state.lifecycle.sequence + 1
        /\ n.state = "VERIFYING"
    BY <1>1, <1>4, TransitionFacts
  <1>6. /\ n.budget_state.usage.budget = state.lifecycle.budget_state.usage.budget
        /\ n.budget_state.usage.used = Charged(used, OnePass)
    BY <1>1, <1>4, TransitionCharges
  <1>7. ASSUME NEW k \in Dimension
        PROVE  Charged(used, OnePass)[k] = used[k] + (IF k = VerifierPasses THEN 1 ELSE 0)
    <2>1. used \in Counters
      BY <1>4 DEF LifecycleSnapshots, Ledgers, ReasoningBudgetUsages
    <2>2. QED
      BY <2>1 DEF Charged, OnePass, Counters, VerifierPasses, BranchDepth
  <1>8. new = [state EXCEPT !.observations = state.observations \cup {o}, !.lifecycle = n]
    BY DEF Recorded
  <1> HIDE DEF n, new
  <1>9. /\ new \in OrchestrationRecords
        /\ new.observations = state.observations \cup {o}
        /\ new.lifecycle = n
        /\ new.policy = state.policy
        /\ new.subject_producer = state.subject_producer
        /\ new.selected_verifiers = state.selected_verifiers
        /\ new.evidence_catalog = state.evidence_catalog
        /\ new.started_at = state.started_at
    BY <1>3, <1>5, <1>8 DEF OrchestrationRecords
  <1>10. OfDecision(new.lifecycle)
    BY <1>3, <1>5, <1>6, <1>9 DEF OfDecision
  <1>11. \A k \in Dimension : new.lifecycle.budget_state.usage.used[k]
           = used[k] + (IF k = VerifierPasses THEN 1 ELSE 0)
    BY <1>6, <1>7, <1>9
  <1>12. QED
    BY <1>1, <1>2, <1>5, <1>9, <1>10, <1>11 DEF new

(* The order in which observations arrive decides nothing: when one is       *)
(* recorded and then another, each with the snapshot, the requirement and    *)
(* the binding of its own call, so they are in the other order, and the      *)
(* state that results is the same, passes and lifecycle included.            *)
THEOREM RecordingsCommute ==
  ASSUME NEW rq, NEW d, NEW st \in OrchestrationRecords,
         NEW a \in ObservationRecords, NEW sa, NEW ra, NEW ba,
         NEW b \in ObservationRecords, NEW sb, NEW rb, NEW bb,
         CanRecord(rq, d, st, sa, a, ra, ba),
         CanRecord(rq, d, Recorded(st, a), sb, b, rb, bb)
  PROVE  /\ CanRecord(rq, d, st, sb, b, rb, bb)
         /\ CanRecord(rq, d, Recorded(st, b), sa, a, ra, ba)
         /\ Recorded(Recorded(st, a), b) = Recorded(Recorded(st, b), a)
  <1> DEFINE n == NextSnapshot(st.lifecycle, "VERIFYING", OnePass)
             With(o) == [st EXCEPT !.observations = st.observations \cup {o}, !.lifecycle = n]
  <1>1. st.lifecycle \in LifecycleSnapshots /\ OnePass \in Counters
    BY DEF OrchestrationRecords, OnePass, Counters
  <1>2. /\ n \in LifecycleSnapshots
        /\ n.routing_decision_id = st.lifecycle.routing_decision_id
        /\ n.correlation_id = st.lifecycle.correlation_id
        /\ n.state = "VERIFYING"
    BY <1>1, TransitionFacts DEF CanRecord
  <1>3. st.lifecycle.state = "VERIFYING"
    BY DEF CanRecord, BindingsHold
  <1>4. Recorded(st, a) = With(a) /\ Recorded(st, b) = With(b)
    BY DEF Recorded
  <1> HIDE DEF n
  <1>5. ASSUME NEW o \in {a, b}
        PROVE  /\ With(o).observations = st.observations \cup {o} /\ With(o).lifecycle = n
               /\ With(o).policy = st.policy /\ With(o).started_at = st.started_at
               /\ With(o).selected_verifiers = st.selected_verifiers
               /\ With(o).evidence_catalog = st.evidence_catalog
    BY DEF OrchestrationRecords
  <1> DEFINE m == NextSnapshot(n, "VERIFYING", OnePass)
  <1>6. Recorded(With(a), b) = Recorded(With(b), a)
    <2>1. /\ Recorded(With(a), b) = [With(a) EXCEPT !.observations = st.observations \cup {a} \cup {b},
                                                   !.lifecycle = m]
          /\ Recorded(With(b), a) = [With(b) EXCEPT !.observations = st.observations \cup {b} \cup {a},
                                                   !.lifecycle = m]
      BY <1>5 DEF Recorded
    <2> HIDE DEF m
    <2>2. (st.observations \cup {a}) \cup {b} = (st.observations \cup {b}) \cup {a}
      OBVIOUS
    <2>3. QED
      BY <2>1, <2>2 DEF OrchestrationRecords
  <1> HIDE DEF With, m
  <1>7. CanRecord(rq, d, st, sb, b, rb, bb)
    <2>1. BindingsHold(rq, d, st.lifecycle, sb, bb, b.observed_at)
      BY <1>2, <1>3, <1>4, <1>5 DEF CanRecord, BindingsHold
    <2>2. IsAdmissible(st, sb, b)
      BY <1>4, <1>5 DEF CanRecord, IsAdmissible
    <2>3. QED
      BY <1>4, <1>5, <2>1, <2>2 DEF CanRecord
  <1>8. CanRecord(rq, d, With(b), sa, a, ra, ba)
    <2>1. BindingsHold(rq, d, n, sa, ba, a.observed_at)
      BY <1>2, <1>3 DEF CanRecord, BindingsHold
    <2>2. b.verifier # a.verifier \/ b.assertion # a.assertion
      BY <1>4, <1>5 DEF CanRecord, IsAdmissible
    <2>3. IsAdmissible(With(b), sa, a)
      BY <1>5, <2>2 DEF CanRecord, IsAdmissible
    <2>4. PassesLeft(With(b)) /\ CanTransition(d, n, "VERIFYING", OnePass)
      BY <1>4, <1>5 DEF CanRecord, PassesLeft
    <2>5. QED
      BY <1>5, <2>1, <2>3, <2>4 DEF CanRecord
  <1>9. QED
    BY <1>4, <1>6, <1>7, <1>8

(* Recording keeps the invariant. *)
LEMMA RecordPreserves ==
  ASSUME IInv, NEW snapshot, NEW o \in ObservationRecords, o.observed_at <= now,
         NEW r \in EvaluatedRequirements, NEW b,
         RecordVerifierObservation(snapshot, o, r, b)
  PROVE  IInv'
  <1>1. /\ InProgress /\ CanRecord(request, decision, state, snapshot, o, r, b)
        /\ state' = Recorded(state, o)
        /\ lifecycle' = IF IsTerminal(lifecycle) THEN lifecycle ELSE Recorded(state, o).lifecycle
        /\ result' = None
        /\ UNCHANGED <<now, cancelled_at, ended_at, request, decision, begun>>
    BY DEF RecordVerifierObservation, world
  <1>2. state' \in OrchestrationRecords
    BY <1>1, RecordFacts
  <1>3. /\ o.verifier \in state.selected_verifiers
        /\ o.assertion \in state.policy.required_assertions
        /\ o.evidence_refs \subseteq DOMAIN state.evidence_catalog
        /\ state.started_at <= o.observed_at
        /\ o \notin state.observations
    BY <1>1, RecordFacts
  <1>4. /\ state' \in OrchestrationRecords /\ state' # None
        /\ state'.observations = state.observations \cup {o}
        /\ state'.policy = state.policy
        /\ state'.subject_producer = state.subject_producer
        /\ state'.selected_verifiers = state.selected_verifiers
        /\ state'.evidence_catalog = state.evidence_catalog
        /\ state'.started_at = state.started_at
    <2>1. state' # None
      BY <1>2 DEF OrchestrationRecords, None
    <2>2. QED
      BY <1>1, <1>2, <2>1, RecordFacts
  <1>5. /\ OfDecision(state'.lifecycle)
        /\ state'.lifecycle.state = "VERIFYING"
        /\ state'.lifecycle.sequence = state.lifecycle.sequence + 1
    BY <1>1, RecordFacts
  <1>6. \A k \in Dimension :
          state'.lifecycle.budget_state.usage.used[k]
            = state.lifecycle.budget_state.usage.used[k] + (IF k = VerifierPasses THEN 1 ELSE 0)
    BY <1>1, RecordFacts
  <1>7. state.lifecycle.budget_state.usage.used[VerifierPasses] < state.policy.max_verifier_passes
    BY <1>1, RecordFacts
  <1>8. now \in Nat /\ o.observed_at \in Nat
    BY DEF IInv, WorldInv, ObservationRecords
  <1>9. WorldInv'
    BY <1>1 DEF IInv, WorldInv
  <1>10. OfDecision(lifecycle)' /\ OfDecision(state.lifecycle)'
    <2>1. decision' = decision /\ (lifecycle' = lifecycle \/ lifecycle' = state'.lifecycle)
      BY <1>1
    <2>2. QED
      BY <1>5, <2>1 DEF IInv, OfDecision
  <1>11. StateInv'
    BY <1>1, <1>4, <1>5, <1>10 DEF IInv, StateInv
  <1>12. ObservationsInv'
    <2>1. IsFiniteSet(state.observations \cup {o})
      BY <1>1, FS_AddElement DEF IInv, ObservationsInv
    <2>2. QED
      BY <1>1, <1>3, <1>4, <2>1 DEF IInv, ObservationsInv
  <1>13. PassesInv'
    <2> DEFINE count == Cardinality(state.observations)
               used == state.lifecycle.budget_state.usage.used
               before == begun.lifecycle.budget_state.usage.used
    <2>1. count \in Nat /\ Cardinality(state.observations \cup {o}) = count + 1
      BY <1>1, <1>3, FS_AddElement, FS_CardinalityType DEF IInv, ObservationsInv
    <2>2. /\ begun.lifecycle \in LifecycleSnapshots
          /\ state.lifecycle.sequence = begun.lifecycle.sequence + count
          /\ \A k \in Dimension : used[k] = before[k] + (IF k = VerifierPasses THEN count ELSE 0)
      BY <1>1 DEF IInv, PassesInv
    <2>3. begun.lifecycle.sequence \in Nat /\ before \in Counters
      BY <2>2 DEF LifecycleSnapshots, Ledgers, ReasoningBudgetUsages
    <2>4. used \in Counters
      BY <1>1 DEF IInv, StateInv, OfDecision, LifecycleSnapshots, Ledgers, ReasoningBudgetUsages
    <2>5. state.policy.max_verifier_passes \in Nat
      BY <1>1, VerificationAssumption DEF IInv, StateInv, OrchestrationRecords
    <2> HIDE DEF count
    <2>6. state'.lifecycle.sequence = begun.lifecycle.sequence + (count + 1)
      BY <1>5, <2>1, <2>2, <2>3
    <2>7. ASSUME NEW k \in Dimension
          PROVE  state'.lifecycle.budget_state.usage.used[k]
                   = before[k] + (IF k = VerifierPasses THEN count + 1 ELSE 0)
      <3>1. before[k] \in Nat /\ used[k] \in Nat
        BY <2>3, <2>4 DEF Counters
      <3>2. QED
        BY <1>6, <2>1, <2>2, <3>1
    <2>8. state'.lifecycle.budget_state.usage.used[VerifierPasses] <= state.policy.max_verifier_passes
      <3>1. used[VerifierPasses] \in Nat
        BY <2>4, VerifierPassesAssumption DEF Counters
      <3>2. QED
        BY <1>6, <1>7, <2>5, <3>1, VerifierPassesAssumption
    <2>9. Cardinality(state'.observations) = count + 1
      BY <1>4, <2>1
    <2>10. QED
      BY <1>1, <1>4, <2>2, <2>6, <2>7, <2>8, <2>9 DEF PassesInv
  <1>14. StopForbidsVerdict'
    <2>1. request.deadline \in Time \cup {NoTime} /\ state.policy \in VerificationPolicy
      BY <1>1, DeadlineAssumption DEF IInv, WorldInv, StateInv, OrchestrationRecords
    <2>2. r.evaluated_at = o.observed_at /\ ~r.required /\ InTime(request, state.policy, o.observed_at)
      BY <1>1 DEF CanRecord, EvaluatedAt
    <2>3. /\ cancelled_at # NoTime => o.observed_at <= cancelled_at
          /\ ended_at # NoTime => o.observed_at <= ended_at
          /\ request.deadline # NoTime => o.observed_at < request.deadline
      BY <2>1, <2>2, NotRequiredFacts DEF IInv, WorldInv
    <2>4. state.policy.deadline # NoTime => o.observed_at < state.policy.deadline
      BY <1>8, <2>1, <2>2, InTimeFacts DEF IInv, WorldInv
    <2>5. Running(o.observed_at)
      BY <2>3, <2>4 DEF Running
    <2>6. \A t : Running(t) => Running(t)'
      BY <1>1, <1>4 DEF Running
    <2>7. Running(state.started_at) /\ \A p \in state.observations : Running(p.observed_at)
      BY <1>1 DEF IInv, StopForbidsVerdict
    <2>8. QED
      BY <1>1, <1>4, <2>5, <2>6, <2>7 DEF StopForbidsVerdict
  <1>15. VerdictInv'
    BY <1>1 DEF VerdictInv
  <1>16. QED
    BY <1>9, <1>10, <1>11, <1>12, <1>13, <1>14, <1>15 DEF IInv

-----------------------------------------------------------------------------
(* finalize_verification *)

(* An assertion is SUPPORTED by enough verifiers and no objection. *)
LEMMA AssertionResultFacts ==
  ASSUME NEW st, NEW a, NEW snapshot
  PROVE  /\ AssertionResult(st, a, snapshot) \in AssertionStatus
         /\ AssertionResult(st, a, snapshot) = "SUPPORTED" =>
              /\ \A o \in Relevant(st, a) : o.status \notin Objection
              /\ EnoughForSupport(st, a, snapshot)
  <1> DEFINE statuses == {o.status : o \in Relevant(st, a)}
             res == AssertionResult(st, a, snapshot)
  <1>1. CASE statuses \cap Objection # {}
    <2>1. res = FirstObjection(statuses)
      BY <1>1 DEF AssertionResult
    <2>2. QED
      BY <2>1 DEF FirstObjection, AssertionStatus, Objection
  <1>2. CASE statuses \cap Objection = {}
    <2>1. res = IF EnoughForSupport(st, a, snapshot) THEN "SUPPORTED" ELSE "INSUFFICIENT_EVIDENCE"
      BY <1>2 DEF AssertionResult
    <2>2. \A o \in Relevant(st, a) : o.status \notin Objection
      BY <1>2
    <2>3. res \in {"SUPPORTED", "INSUFFICIENT_EVIDENCE"}
          /\ (res = "SUPPORTED" => EnoughForSupport(st, a, snapshot))
      BY <2>1
    <2>4. QED
      BY <2>2, <2>3 DEF AssertionStatus
  <1>3. QED
    BY <1>1, <1>2

(* The verdict SUPPORTED takes every assertion SUPPORTED, and no human who   *)
(* has yet to look.                                                         *)
LEMMA OverallStatusFacts ==
  ASSUME NEW statuses \in SUBSET AssertionStatus, NEW policy
  PROVE  /\ OverallStatus(statuses, policy) \in VerificationStatus \ StopStatus
         /\ OverallStatus(statuses, policy) = "SUPPORTED" =>
              /\ \A s \in statuses : s = "SUPPORTED"
              /\ ~policy.human_review_required
  <1>1. CASE statuses \cap Objection # {}
    <2>1. OverallStatus(statuses, policy) = FirstObjection(statuses)
      BY <1>1 DEF OverallStatus
    <2>2. QED
      BY <2>1 DEF FirstObjection, VerificationStatus, AssertionStatus, Objection, StopStatus
  <1>2. CASE statuses \cap Objection = {}
    <2>1. \A s \in statuses : s \in {"SUPPORTED", "INSUFFICIENT_EVIDENCE"}
      BY <1>2 DEF AssertionStatus
    <2>2. OverallStatus(statuses, policy)
            = IF "INSUFFICIENT_EVIDENCE" \in statuses THEN "INSUFFICIENT_EVIDENCE"
              ELSE IF policy.human_review_required THEN "POLICY_BLOCKED" ELSE "SUPPORTED"
      BY <1>2 DEF OverallStatus
    <2>3. QED
      BY <2>1, <2>2 DEF VerificationStatus, AssertionStatus, StopStatus
  <1>3. QED
    BY <1>1, <1>2

LEMMA FinalStatusFacts ==
  ASSUME NEW st, NEW snapshot, NEW r, NEW n
  PROVE  /\ FinalStatus(request, st, snapshot, r, n) \in VerificationStatus
         /\ FinalStatus(request, st, snapshot, r, n) \notin StopStatus =>
              ~r.required /\ InTime(request, st.policy, n)
         /\ FinalStatus(request, st, snapshot, r, n) = "SUPPORTED" =>
              /\ ~st.policy.human_review_required
              /\ \A a \in st.policy.required_assertions :
                   /\ \A o \in Relevant(st, a) : o.status \notin Objection
                   /\ Cardinality(Supporting(st, a)) >= st.policy.minimum_supporting_verifiers
                   /\ st.policy.required_evidence_classes \subseteq ObservedClasses(st, a)
                   /\ IndependenceSatisfied(Supporting(st, a), st.policy, snapshot)
  <1> DEFINE statuses == {AssertionResult(st, a, snapshot) : a \in st.policy.required_assertions}
             final == FinalStatus(request, st, snapshot, r, n)
             overall == OverallStatus(statuses, st.policy)
  <1>1. CASE r.required
    <2>1. final \in StopStatus
      BY <1>1 DEF FinalStatus, StopStatus
    <2>2. QED
      BY <2>1 DEF StopStatus, VerificationStatus
  <1>2. CASE ~r.required /\ ~InTime(request, st.policy, n)
    <2>1. final = "DEADLINE"
      BY <1>2 DEF FinalStatus
    <2>2. QED
      BY <2>1 DEF StopStatus, VerificationStatus
  <1>3. CASE ~r.required /\ InTime(request, st.policy, n)
    <2>1. final = overall
      BY <1>3 DEF FinalStatus
    <2>2. statuses \in SUBSET AssertionStatus
      BY AssertionResultFacts
    <2> HIDE DEF statuses
    <2>3. /\ overall \in VerificationStatus
          /\ overall = "SUPPORTED" =>
               (\A s \in statuses : s = "SUPPORTED") /\ ~st.policy.human_review_required
      BY <2>2, OverallStatusFacts
    <2>4. ASSUME final = "SUPPORTED", NEW a \in st.policy.required_assertions
          PROVE  /\ \A o \in Relevant(st, a) : o.status \notin Objection
                 /\ Cardinality(Supporting(st, a)) >= st.policy.minimum_supporting_verifiers
                 /\ st.policy.required_evidence_classes \subseteq ObservedClasses(st, a)
                 /\ IndependenceSatisfied(Supporting(st, a), st.policy, snapshot)
      <3>1. AssertionResult(st, a, snapshot) = "SUPPORTED"
        BY <2>1, <2>3, <2>4 DEF statuses
      <3>2. QED
        BY <3>1, AssertionResultFacts DEF EnoughForSupport
    <2>5. QED
      BY <1>3, <2>1, <2>3, <2>4
  <1>4. QED
    BY <1>1, <1>2, <1>3

LEMMA FinalizePreserves ==
  ASSUME IInv, NEW snapshot \in Snapshot, NEW r \in EvaluatedRequirements, NEW b,
         FinalizeVerification(snapshot, r, b)
  PROVE  IInv'
  <1>1. /\ InProgress /\ r.evaluated_at = now
        /\ result' = VerificationResult(request, state, snapshot, r, now)
        /\ UNCHANGED <<now, cancelled_at, ended_at, request, decision, lifecycle, state, begun>>
    BY DEF FinalizeVerification, CanFinalize, EvaluatedAt, world
  <1>2. /\ result'.status = FinalStatus(request, state, snapshot, r, now)
        /\ result'.finished_at = now
    BY <1>1 DEF VerificationResult
  <1>3. WorldInv' /\ OfDecision(lifecycle)' /\ StateInv' /\ ObservationsInv' /\ PassesInv'
    BY <1>1 DEF IInv, WorldInv, OfDecision, StateInv, ObservationsInv, PassesInv, InProgress
  <1>4. now \in Nat /\ request.deadline \in Time \cup {NoTime} /\ state.policy \in VerificationPolicy
    BY <1>1, DeadlineAssumption DEF IInv, WorldInv, StateInv, OrchestrationRecords
  <1>5. VerdictInv'
    <2>1. /\ result'.status \in VerificationStatus
          /\ result'.status = "SUPPORTED" =>
               /\ ~state.policy.human_review_required
               /\ \A a \in state.policy.required_assertions :
                    /\ \A o \in Relevant(state, a) : o.status \notin Objection
                    /\ Cardinality(Supporting(state, a)) >= state.policy.minimum_supporting_verifiers
                    /\ state.policy.required_evidence_classes \subseteq ObservedClasses(state, a)
                    /\ IndependenceSatisfied(Supporting(state, a), state.policy, snapshot)
      BY <1>2, FinalStatusFacts
    <2>2. state' = state /\ now' = now /\ InProgress'
      BY <1>1 DEF InProgress
    <2>3. QED
      BY <1>2, <1>4, <2>1, <2>2 DEF VerdictInv
  <1>6. StopForbidsVerdict'
    <2>1. ASSUME result'.status \notin StopStatus
          PROVE  Running(now)
      <3>1. ~r.required /\ InTime(request, state.policy, now)
        BY <1>2, <2>1, FinalStatusFacts
      <3>2. /\ cancelled_at # NoTime => now <= cancelled_at
            /\ ended_at # NoTime => now <= ended_at
            /\ request.deadline # NoTime => now < request.deadline
        BY <1>1, <1>4, <3>1, NotRequiredFacts DEF IInv, WorldInv
      <3>3. state.policy.deadline # NoTime => now < state.policy.deadline
        BY <1>4, <3>1, InTimeFacts DEF IInv, WorldInv
      <3>4. QED
        BY <3>2, <3>3 DEF Running
    <2>2. \A t : Running(t) => Running(t)'
      BY <1>1 DEF Running
    <2>3. /\ Running(state.started_at)
          /\ \A o \in state.observations : Running(o.observed_at)
      BY <1>1 DEF IInv, StopForbidsVerdict
    <2>4. state' = state
      BY <1>1
    <2>5. QED
      BY <1>2, <2>1, <2>2, <2>3, <2>4 DEF StopForbidsVerdict
  <1>7. QED
    BY <1>3, <1>5, <1>6 DEF IInv

-----------------------------------------------------------------------------
(* Every step preserves the invariant. *)

LEMMA ObservedIsRecord ==
  ASSUME NEW v \in SubstrateId, NEW version \in Version, NEW a \in Assertion,
         NEW report \in Report, NEW at \in Nat
  PROVE  Observed(v, version, a, report, at) \in ObservationRecords
  BY ReportAssumption DEF ValidObservation, Observed, ObservationRecords

LEMMA NextPreserves == IInv /\ [Next]_vars => IInv'
  <1> SUFFICES ASSUME IInv, [Next]_vars PROVE IInv'
    OBVIOUS
  <1>1. CASE Tick \/ Cancel
    BY <1>1, EventPreserves
  <1>2. ASSUME NEW to \in NextState, NEW delta \in Delta \cup {NoCost}, Transition(to, delta)
        PROVE  IInv'
    BY <1>2, TransitionPreserves
  <1>3. ASSUME NEW snapshot \in Snapshot, NEW selection \in SelectionPolicy,
               NEW policy \in VerificationPolicy, NEW producer \in Producer,
               NEW r \in EvaluatedRequirements, NEW b \in SecurityBinding,
               BeginVerification(snapshot, selection, policy, producer, r, b)
        PROVE  IInv'
    BY <1>3, BeginPreserves
  <1>4. ASSUME NEW snapshot \in Snapshot, NEW v \in SubstrateId, NEW version \in Version,
               NEW a \in Assertion, NEW report \in Report, NEW at \in 0..now,
               NEW r \in EvaluatedRequirements, NEW b \in SecurityBinding,
               RecordVerifierObservation(snapshot, Observed(v, version, a, report, at), r, b)
        PROVE  IInv'
    <2> DEFINE o == Observed(v, version, a, report, at)
    <2>1. now \in Nat /\ at \in Nat /\ at <= now
      BY DEF IInv, WorldInv
    <2>2. o \in ObservationRecords /\ o.observed_at = at
      BY <2>1, ObservedIsRecord DEF Observed
    <2> HIDE DEF o
    <2>3. RecordVerifierObservation(snapshot, o, r, b)
      BY <1>4 DEF o
    <2>4. QED
      BY <2>1, <2>2, <2>3, RecordPreserves
  <1>5. ASSUME NEW snapshot \in Snapshot, NEW r \in EvaluatedRequirements, NEW b \in SecurityBinding,
               FinalizeVerification(snapshot, r, b)
        PROVE  IInv'
    BY <1>5, FinalizePreserves
  <1>6. CASE UNCHANGED vars
    BY <1>6 DEF vars, IInv, WorldInv, OfDecision, StateInv, ObservationsInv, PassesInv, InProgress,
                StopForbidsVerdict, Running, VerdictInv
  <1>7. QED
    BY <1>1, <1>2, <1>3, <1>4, <1>5, <1>6 DEF Next

LEMMA Invariance == Spec => []IInv
  BY InitEstablishes, NextPreserves, PTL DEF Spec

-----------------------------------------------------------------------------
(* The theorems. *)

(* The lifecycle a verification holds is VERIFYING and belongs to the         *)
(* decision; every observation comes from a selected verifier and refers to  *)
(* catalogued evidence.                                                     *)
THEOREM TypeCorrect == Spec => []TypeOK
  <1>1. IInv => TypeOK
    <2> SUFFICES ASSUME IInv PROVE TypeOK
      OBVIOUS
    <2>1. ASSUME InProgress, NEW o \in state.observations
          PROVE  /\ o.verifier \in state.selected_verifiers
                 /\ o.assertion \in state.policy.required_assertions
                 /\ o.status \in AssertionStatus
                 /\ o.evidence_refs \subseteq DOMAIN state.evidence_catalog
                 /\ o.observed_at \in state.started_at..now
      BY <2>1 DEF IInv, WorldInv, StateInv, ObservationsInv, OrchestrationRecords, ObservationRecords
    <2>2. ASSUME InProgress
          PROVE  /\ state.lifecycle \in LifecycleSnapshots
                 /\ state.lifecycle.state = "VERIFYING"
                 /\ state.lifecycle.routing_decision_id = decision.decision_id
                 /\ state.policy \in VerificationPolicy /\ state.started_at \in 0..now
                 /\ state.selected_verifiers \subseteq SubstrateId \ {state.subject_producer}
      BY <2>2 DEF IInv, WorldInv, StateInv, OfDecision, OrchestrationRecords
    <2>3. QED
      BY <2>1, <2>2 DEF IInv, WorldInv, OfDecision, VerdictInv, TypeOK, Time
  <1>2. QED
    BY <1>1, Invariance, PTL

(* Each observation has cost one pass and one step of the lifecycle, and no  *)
(* pass was taken beyond the ceilings of the policy and of the decision.     *)
THEOREM PassesPaidHolds == Spec => []PassesPaid
  <1>1. IInv => PassesPaid
    <2> SUFFICES ASSUME IInv, InProgress
                 PROVE  state.lifecycle.budget_state.usage.used[VerifierPasses]
                          <= decision.reasoning_budget.max[VerifierPasses]
      BY DEF PassesPaid, IInv, PassesInv
    <2> DEFINE usage == state.lifecycle.budget_state.usage
    <2>1. usage \in ReasoningBudgetUsages /\ usage.budget = decision.reasoning_budget
      BY DEF IInv, StateInv, OfDecision, LifecycleSnapshots, Ledgers
    <2> HIDE DEF usage
    <2>2. usage.used[VerifierPasses] <= usage.budget.max[VerifierPasses]
      BY <2>1, VerifierPassesAssumption
      DEF ReasoningBudgetUsages, ReasoningBudgets, Counters, ExceededDimensions
    <2>3. QED
      BY <2>1, <2>2 DEF usage
  <1>2. QED
    BY <1>1, Invariance, PTL

(* SUPPORTED is earned: enough verifiers other than the producer, evidence   *)
(* of every required class, no objection, no human who has yet to look.      *)
THEOREM SupportIsEarnedHolds == Spec => []SupportIsEarned
  <1>1. IInv => SupportIsEarned
    <2> SUFFICES ASSUME IInv, result # None, result.status = "SUPPORTED" PROVE SupportIsEarned
      BY DEF SupportIsEarned
    <2>1. /\ InProgress /\ ~state.policy.human_review_required
          /\ \A a \in state.policy.required_assertions :
               /\ \A o \in Relevant(state, a) : o.status \notin Objection
               /\ Cardinality(Supporting(state, a)) >= state.policy.minimum_supporting_verifiers
               /\ state.policy.required_evidence_classes \subseteq ObservedClasses(state, a)
      BY DEF IInv, VerdictInv
    <2>2. \A o \in state.observations :
            /\ o.verifier # state.subject_producer
            /\ o.assertion \in state.policy.required_assertions
      BY <2>1 DEF IInv, StateInv, ObservationsInv
    <2>3. \A o \in state.observations : o.status \notin Objection
      BY <2>1, <2>2 DEF Relevant
    <2>4. ASSUME NEW a \in state.policy.required_assertions
          PROVE  LET said == {o \in state.observations : o.assertion = a}
                     support == {o.verifier : o \in {p \in said : p.status = "SUPPORTED"}}
                 IN /\ Cardinality(support) >= state.policy.minimum_supporting_verifiers
                    /\ state.subject_producer \notin support
                    /\ \A class \in state.policy.required_evidence_classes :
                         \E o \in said : \E ref \in o.evidence_refs :
                           state.evidence_catalog[ref] = class
      <3> DEFINE said == {o \in state.observations : o.assertion = a}
                 support == {o.verifier : o \in {p \in said : p.status = "SUPPORTED"}}
      <3>1. support = Supporting(state, a) /\ said = Relevant(state, a)
        BY DEF Supporting, Relevant
      <3>2. Cardinality(support) >= state.policy.minimum_supporting_verifiers
        BY <2>1, <3>1
      <3>3. state.subject_producer \notin support
        BY <2>2
      <3>4. \A class \in state.policy.required_evidence_classes :
              \E o \in said : \E ref \in o.evidence_refs : state.evidence_catalog[ref] = class
        <4>1. state.policy.required_evidence_classes \subseteq ObservedClasses(state, a)
          BY <2>1
        <4>2. QED
          BY <3>1, <4>1 DEF ObservedClasses
      <3>5. QED
        BY <3>2, <3>3, <3>4
    <2>5. QED
      BY <2>1, <2>3, <2>4 DEF SupportIsEarned
  <1>2. QED
    BY <1>1, Invariance, PTL

(* What is observed or concluded after a stop is not recorded as a verdict.  *)
THEOREM StopForbidsVerdictHolds == Spec => []StopForbidsVerdict
  <1>1. IInv => StopForbidsVerdict
    BY DEF IInv
  <1>2. QED
    BY <1>1, Invariance, PTL

(* Who supports was chosen at the start, independently of the producer's     *)
(* owner when the producer is listed then.                                  *)
THEOREM IndependentSupportHolds == Spec => []IndependentSupport
  <1>1. IInv => IndependentSupport
    BY DEF IInv, VerdictInv, StateInv, ObservationsInv, IndependentSupport
  <1>2. QED
    BY <1>1, Invariance, PTL

(* Who is counted in another snapshot, less those it does not list, has the  *)
(* same owners here: leaving some out makes owners fewer, never more.        *)
LEMMA OwnersAtTheStart ==
  ASSUME OwnersAreStable, NEW s \in Snapshot, NEW t \in Snapshot, NEW V,
         IsFiniteSet(V), V \subseteq DOMAIN s.substrates
  PROVE  LET owners == {s.substrates[v].owner : v \in V}
             counted == {t.substrates[v].owner : v \in V \cap DOMAIN t.substrates}
         IN /\ IsFiniteSet(owners) /\ IsFiniteSet(counted)
            /\ Cardinality(counted) <= Cardinality(owners)
  <1> DEFINE owners == {s.substrates[v].owner : v \in V}
             counted == {t.substrates[v].owner : v \in V \cap DOMAIN t.substrates}
  <1>1. counted \subseteq owners
    BY DEF OwnersAreStable
  <1>2. IsFiniteSet(owners)
    <2> DEFINE owner == [v \in V |-> s.substrates[v].owner]
    <2>1. owner \in Surjection(V, owners)
      BY DEF Surjection
    <2>2. QED
      BY <2>1, FS_Surjection
  <1> HIDE DEF owners, counted
  <1>3. IsFiniteSet(counted) /\ Cardinality(counted) <= Cardinality(owners)
    BY <1>1, <1>2, FS_Subset
  <1>4. QED
    BY <1>2, <1>3 DEF owners, counted

(* Support by owners at the end is support by owners at the start, for every *)
(* set of snapshots and any number of verifiers.                            *)
THEOREM SupportFromDistinctOwnersHolds == Spec => []SupportFromDistinctOwners
  <1>1. IInv => SupportFromDistinctOwners
    <2> SUFFICES ASSUME IInv, OwnersAreStable, result # None, result.status = "SUPPORTED",
                        "DISTINCT_OWNER" \in state.policy.independence_requirement,
                        NEW a \in state.policy.required_assertions
                 PROVE  Cardinality({begun.snapshot.substrates[v].owner : v \in Supporting(state, a)})
                          >= state.policy.minimum_supporting_verifiers
      BY DEF SupportFromDistinctOwners
    <2> DEFINE V == Supporting(state, a)
               least == state.policy.minimum_supporting_verifiers
    <2>1. InProgress
      BY DEF IInv, VerdictInv
    <2>2. PICK t \in Snapshot : IndependenceSatisfied(V, state.policy, t)
      BY DEF IInv, VerdictInv
    <2>3. /\ begun.snapshot \in Snapshot /\ least \in Nat
          /\ IsFiniteSet(state.observations)
      BY <2>1, VerificationAssumption DEF IInv, StateInv, ObservationsInv, OrchestrationRecords
    <2>4. V \subseteq DOMAIN begun.snapshot.substrates
      BY <2>1 DEF IInv, StateInv, ObservationsInv, Supporting, Relevant
    <2>5. IsFiniteSet(V)
      <3> DEFINE said == {p \in Relevant(state, a) : p.status = "SUPPORTED"}
                 speaker == [o \in said |-> o.verifier]
      <3>1. IsFiniteSet(said)
        BY <2>3, FS_Subset DEF Relevant
      <3>2. speaker \in Surjection(said, V)
        BY DEF Surjection, Supporting
      <3>3. QED
        BY <3>1, <3>2, FS_Surjection
    <2> DEFINE owners == {begun.snapshot.substrates[v].owner : v \in V}
               counted == {t.substrates[v].owner : v \in V \cap DOMAIN t.substrates}
    <2>6. Cardinality(counted) >= least
      BY <2>2 DEF IndependenceSatisfied
    <2> HIDE DEF V, least
    <2>7. /\ IsFiniteSet(owners) /\ IsFiniteSet(counted)
          /\ Cardinality(counted) <= Cardinality(owners)
      BY <2>3, <2>4, <2>5, OwnersAtTheStart
    <2> HIDE DEF owners, counted
    <2>8. Cardinality(owners) \in Nat /\ Cardinality(counted) \in Nat
      BY <2>7, FS_CardinalityType
    <2>9. Cardinality(owners) >= least
      BY <2>3, <2>6, <2>7, <2>8
    <2>10. QED
      BY <2>9 DEF V, owners, least
  <1>2. QED
    BY <1>1, Invariance, PTL

-----------------------------------------------------------------------------
(* Stops that are reported. *)

(* A requirement that asks to stop names a stop that came.                   *)
LEMMA RequiredFacts ==
  ASSUME now \in Nat, cancelled_at \in Nat \cup {NoTime}, ended_at \in Nat \cup {NoTime},
         request.deadline \in Time \cup {NoTime}, NEW r \in EvaluatedRequirements, r.required
  PROVE  /\ r.reason \in TerminationReason
         /\ r.reason = "TERMINAL_STATE" => ended_at # NoTime
         /\ r.reason = "CANCELLATION" => Reached(cancelled_at, r.evaluated_at)
         /\ r.reason = "DEADLINE" => Reached(request.deadline, r.evaluated_at)
  <1>1. PICK t \in 0..now, ended \in BOOLEAN, cancelled \in BOOLEAN :
          /\ r = Requirement(t, ended, cancelled)
          /\ MayKnow(ended_at, t, ended) /\ MayKnow(cancelled_at, t, cancelled)
    BY DEF EvaluatedRequirements
  <1> DEFINE at == IF cancelled THEN cancelled_at ELSE NoTime
  <1>2. t \in Time /\ at \in Time \cup {NoTime}
    BY DEF Time
  <1>3. at # NoTime => at = cancelled_at
    OBVIOUS
  <1>4. r = RequirementAt(ended, at, request.deadline, t)
    BY <1>1 DEF Requirement
  <1> HIDE DEF at
  <1>5. /\ r.evaluated_at = t /\ r.reason = StopReason(ended, at, request.deadline, t)
        /\ r \in Requirements
    BY <1>2, <1>4, RequirementType DEF RequirementAt
  <1>6. r.reason \in TerminationReason
    BY <1>5 DEF Requirements
  <1>7. r.reason = "TERMINAL_STATE" => ended_at # NoTime
    <2>1. r.reason = "TERMINAL_STATE" => ended
      BY <1>5 DEF StopReason, NoReason
    <2>2. QED
      BY <1>1, <2>1 DEF MayKnow
  <1>8. r.reason = "CANCELLATION" => Reached(cancelled_at, t)
    BY <1>3, <1>5 DEF StopReason, Reached, NoReason
  <1>9. r.reason = "DEADLINE" => Reached(request.deadline, t)
    BY <1>5 DEF StopReason, NoReason
  <1>10. QED
    BY <1>5, <1>6, <1>7, <1>8, <1>9

(* The deadline of the request, once reached, is the effective deadline      *)
(* reached: no policy puts it off.                                          *)
LEMMA DeadlineNotPutOff ==
  ASSUME NEW r \in Request, NEW policy \in VerificationPolicy, NEW n \in Nat,
         Reached(r.deadline, n)
  PROVE  ~InTime(r, policy, n)
  BY DeadlineAssumption DEF InTime, EffectiveDeadline, Reached, Time, NoTime

(* Where the two outcomes of a stop come from.                              *)
LEMMA StopStatusFacts ==
  ASSUME NEW st, NEW snapshot, NEW r, NEW n
  PROVE  /\ FinalStatus(request, st, snapshot, r, n) = "CANCELLED" =>
              r.required /\ r.reason # "DEADLINE"
         /\ FinalStatus(request, st, snapshot, r, n) = "DEADLINE" =>
              (r.required /\ r.reason = "DEADLINE") \/ ~InTime(request, st.policy, n)
  <1>1. \A s, policy : OverallStatus(s, policy) \notin {"CANCELLED", "DEADLINE"}
    BY DEF OverallStatus, FirstObjection
  <1>2. QED
    BY <1>1 DEF FinalStatus

(* The lifecycle ends once, and not in the future.                           *)
EndInv == ended_at # NoTime => ended_at <= now /\ IsTerminal(lifecycle)

LEMMA EndPreserved ==
  ASSUME IInv, EndInv, [Next]_vars
  PROVE  EndInv' /\ (ended_at # NoTime => ended_at' = ended_at)
  <1>1. now \in Nat /\ ended_at \in Nat \cup {NoTime}
    BY DEF IInv, WorldInv
  <1>2. CASE Tick
    BY <1>1, <1>2 DEF Tick, EndInv
  <1>3. ASSUME NEW to \in NextState, NEW delta \in Delta \cup {NoCost}, Transition(to, delta)
        PROVE  EndInv' /\ (ended_at # NoTime => ended_at' = ended_at)
    <2>1. /\ CanTransition(decision, lifecycle, to, delta) /\ delta \in Counters
          /\ lifecycle \in LifecycleSnapshots
          /\ lifecycle' = NextSnapshot(lifecycle, to, delta)
      BY <1>3, VerificationAssumption DEF Transition, IInv, OfDecision, NoCost, Counters
    <2>2. ~IsTerminal(lifecycle) /\ lifecycle'.state = to
      BY <2>1, TransitionFacts
    <2>3. ended_at = NoTime
      BY <2>2 DEF EndInv
    <2>4. IsTerminal(lifecycle') \/ ended_at' = NoTime
      BY <1>3, <2>2, <2>3 DEF Transition, IsTerminal
    <2>5. ended_at' # NoTime => ended_at' = now /\ now' = now
      BY <1>3, <2>3 DEF Transition
    <2>6. QED
      BY <1>1, <2>3, <2>4, <2>5 DEF EndInv
  <1>4. CASE /\ UNCHANGED <<now, ended_at>>
             /\ lifecycle' = lifecycle \/ ~IsTerminal(lifecycle)
    BY <1>4 DEF EndInv
  <1>5. QED
    BY <1>2, <1>3, <1>4 DEF Next, vars, world, Cancel, BeginVerification,
       RecordVerifierObservation, FinalizeVerification

(* A stop that is reported was one, for every policy, report and order of    *)
(* events.                                                                  *)
THEOREM StopVerdictIsTrueHolds == Spec => []StopVerdictIsTrue
  <1>1. Init => EndInv /\ StopVerdictIsTrue
    BY DEF Init, EndInv, StopVerdictIsTrue
  <1>2. IInv /\ EndInv /\ StopVerdictIsTrue /\ [Next]_vars => EndInv' /\ StopVerdictIsTrue'
    <2> SUFFICES ASSUME IInv, EndInv, StopVerdictIsTrue, [Next]_vars
                 PROVE  StopVerdictIsTrue'
      BY EndPreserved
    <2>1. /\ now \in Nat /\ cancelled_at \in Nat \cup {NoTime} /\ ended_at \in Nat \cup {NoTime}
          /\ request \in Request /\ request.deadline \in Time \cup {NoTime}
      BY DeadlineAssumption DEF IInv, WorldInv
    <2>2. CASE result' = result /\ state' = state /\ request' = request
      <3>1. /\ cancelled_at # NoTime => cancelled_at' = cancelled_at
            /\ ended_at # NoTime => ended_at' = ended_at
        <4>1. cancelled_at # NoTime => cancelled_at' = cancelled_at
          BY DEF Next, vars, world, Tick, Cancel, Transition, BeginVerification,
             RecordVerifierObservation, FinalizeVerification
        <4>2. QED
          BY <4>1, EndPreserved
      <3>2. \A n : /\ Reached(cancelled_at, n) => Reached(cancelled_at', n)
                   /\ Reached(ended_at, n) => Reached(ended_at', n)
        BY <3>1 DEF Reached
      <3>3. QED
        BY <2>2, <3>2 DEF StopVerdictIsTrue
    <2>3. CASE result' = None
      BY <2>3 DEF StopVerdictIsTrue
    <2>4. ASSUME NEW snapshot \in Snapshot, NEW r \in EvaluatedRequirements,
                 NEW b \in SecurityBinding, FinalizeVerification(snapshot, r, b)
          PROVE  StopVerdictIsTrue'
      <3>1. /\ InProgress /\ r.evaluated_at = now
            /\ result' = VerificationResult(request, state, snapshot, r, now)
            /\ UNCHANGED <<now, cancelled_at, ended_at, request, state>>
        BY <2>4 DEF FinalizeVerification, CanFinalize, EvaluatedAt, world
      <3>2. /\ result'.status = FinalStatus(request, state, snapshot, r, now)
            /\ result'.finished_at = now
        BY <3>1 DEF VerificationResult
      <3>3. state.policy \in VerificationPolicy
        BY <3>1 DEF IInv, StateInv, OrchestrationRecords
      <3>4. ASSUME result'.status = "CANCELLED"
            PROVE  Reached(cancelled_at, now) \/ Reached(ended_at, now)
        <4>1. r.required /\ r.reason # "DEADLINE"
          BY <3>2, <3>4, StopStatusFacts
        <4>2. /\ r.reason \in TerminationReason
              /\ r.reason = "TERMINAL_STATE" => ended_at # NoTime
              /\ r.reason = "CANCELLATION" => Reached(cancelled_at, now)
          BY <2>1, <3>1, <4>1, RequiredFacts
        <4>3. QED
          BY <4>1, <4>2 DEF TerminationReason, PropagationReason, EndInv, Reached
      <3>5. ASSUME result'.status = "DEADLINE" PROVE ~InTime(request, state.policy, now)
        <4>1. (r.required /\ r.reason = "DEADLINE") \/ ~InTime(request, state.policy, now)
          BY <3>2, <3>5, StopStatusFacts
        <4>2. r.required /\ r.reason = "DEADLINE" => Reached(request.deadline, now)
          BY <2>1, <3>1, RequiredFacts
        <4>3. QED
          BY <2>1, <3>3, <4>1, <4>2, DeadlineNotPutOff
      <3>6. QED
        BY <3>1, <3>2, <3>4, <3>5 DEF StopVerdictIsTrue
    <2>5. QED
      BY <2>2, <2>3, <2>4 DEF Next, vars, world, Tick, Cancel, Transition, BeginVerification,
         RecordVerifierObservation
  <1>3. QED
    BY <1>1, <1>2, Invariance, PTL DEF Spec

-----------------------------------------------------------------------------
(* Verdicts can be given. *)

(* What is bound when a verification begins stays bound until it ends.      *)
BoundInv ==
  InProgress =>
    /\ decision.security_binding = request.security_binding
    /\ decision.created_at <= now
    /\ state.lifecycle.correlation_id = request.correlation_id
    /\ \E s \in Snapshot : s.snapshot_id = request.security_binding.capability_snapshot_id

LEMMA BoundPreserved ==
  ASSUME IInv, BoundInv, [Next]_vars
  PROVE  BoundInv'
  <1>1. /\ now \in Nat /\ decision \in Decision /\ decision.created_at \in Nat
        /\ UNCHANGED <<request, decision>>
    BY DeadlineAssumption DEF IInv, WorldInv, Time, Next, vars, world, Tick, Cancel, Transition,
       BeginVerification, RecordVerifierObservation, FinalizeVerification
  <1>2. CASE UNCHANGED state /\ now' \in {now, now + 1}
    BY <1>1, <1>2 DEF BoundInv, InProgress
  <1>3. CASE state' = None
    BY <1>3 DEF BoundInv, InProgress
  <1>4. ASSUME NEW snapshot \in Snapshot, NEW selection \in SelectionPolicy,
               NEW policy \in VerificationPolicy, NEW producer \in Producer,
               NEW r \in EvaluatedRequirements, NEW b \in SecurityBinding,
               BeginVerification(snapshot, selection, policy, producer, r, b)
        PROVE  BoundInv'
    <2>1. BindingsHold(request, decision, lifecycle, snapshot, b, now) /\ now' = now
      BY <1>4 DEF BeginVerification, CanBeginVerification, world
    <2>2. state'.lifecycle = lifecycle
      BY <1>4 DEF BeginVerification, Orchestration
    <2>3. ~(now < decision.created_at)
      BY <2>1 DEF BindingsHold, InvalidReasons
    <2>4. QED
      BY <1>1, <2>1, <2>2, <2>3 DEF BoundInv, BindingsHold
  <1>5. ASSUME InProgress, NEW snapshot \in Snapshot, NEW o, NEW r, NEW b \in SecurityBinding,
               CanRecord(request, decision, state, snapshot, o, r, b),
               state' = Recorded(state, o), now' = now
        PROVE  BoundInv'
    <2>1. /\ state \in OrchestrationRecords /\ state.lifecycle \in LifecycleSnapshots
          /\ OnePass \in Counters
          /\ CanTransition(decision, state.lifecycle, "VERIFYING", OnePass)
      BY <1>5 DEF IInv, StateInv, OrchestrationRecords, CanRecord, OnePass, Counters
    <2>2. NextSnapshot(state.lifecycle, "VERIFYING", OnePass).correlation_id
            = state.lifecycle.correlation_id
      BY <2>1, TransitionFacts
    <2>3. state'.lifecycle = NextSnapshot(state.lifecycle, "VERIFYING", OnePass)
      BY <1>5, <2>1 DEF Recorded, OrchestrationRecords
    <2>4. QED
      BY <1>1, <1>5, <2>2, <2>3 DEF BoundInv
  <1>6. CASE \E snapshot \in Snapshot, v \in SubstrateId, version \in Version, a \in Assertion,
                report \in Report, at \in 0..now, r \in EvaluatedRequirements,
                b \in SecurityBinding :
               RecordVerifierObservation(snapshot, Observed(v, version, a, report, at), r, b)
    BY <1>5, <1>6 DEF RecordVerifierObservation, world
  <1>7. CASE \E to \in NextState, delta \in Delta \cup {NoCost} : Transition(to, delta)
    BY <1>2, <1>3, <1>7 DEF Transition
  <1>8. QED
    BY <1>2, <1>3, <1>4, <1>6, <1>7 DEF Next, vars, world, Tick, Cancel, FinalizeVerification

(* The caller can always ask for the requirement of this very instant.       *)
LEMMA RequirementIsAvailable ==
  ASSUME now \in Nat, request.deadline \in Time \cup {NoTime},
         cancelled_at \in Nat \cup {NoTime}, ended_at \in Nat \cup {NoTime}
  PROVE  \E r \in EvaluatedRequirements : r.evaluated_at = now
  <1> DEFINE ended == ended_at # NoTime
             cancelled == cancelled_at # NoTime
  <1>1. /\ now \in 0..now /\ ended \in BOOLEAN /\ cancelled \in BOOLEAN
        /\ MayKnow(ended_at, now, ended) /\ MayKnow(cancelled_at, now, cancelled)
    BY DEF MayKnow
  <1> HIDE DEF ended, cancelled
  <1>2. Requirement(now, ended, cancelled) \in EvaluatedRequirements
    <2> DEFINE x == <<now, ended, cancelled>>
    <2>1. x \in {y \in (0..now) \X BOOLEAN \X BOOLEAN :
                   MayKnow(ended_at, y[1], y[2]) /\ MayKnow(cancelled_at, y[1], y[3])}
      BY <1>1
    <2>2. QED
      BY <2>1 DEF EvaluatedRequirements
  <1>3. Requirement(now, ended, cancelled).evaluated_at = now
    BY DEF Requirement, RequirementAt
  <1>4. QED
    BY <1>2, <1>3

(* A verdict can be given until the decision expires, whatever stopped and   *)
(* whoever did not answer.                                                   *)
THEOREM VerdictIsReachableHolds == Spec => []VerdictIsReachable
  <1>1. Init => BoundInv
    BY DEF Init, BoundInv, InProgress
  <1>2. IInv /\ BoundInv => VerdictIsReachable
    <2> SUFFICES ASSUME IInv, BoundInv, InProgress, now < decision.expires_at
                 PROVE  \E snapshot \in Snapshot, r \in EvaluatedRequirements :
                          CanFinalize(request, decision, state, snapshot, r,
                                      request.security_binding, now)
      BY DEF VerdictIsReachable
    <2>1. /\ now \in Nat /\ decision.created_at \in Nat /\ decision.expires_at \in Nat
          /\ request.deadline \in Time \cup {NoTime}
          /\ cancelled_at \in Nat \cup {NoTime} /\ ended_at \in Nat \cup {NoTime}
      BY DeadlineAssumption DEF IInv, WorldInv, Time
    <2>2. PICK s \in Snapshot : s.snapshot_id = request.security_binding.capability_snapshot_id
      BY DEF BoundInv
    <2>3. PICK r \in EvaluatedRequirements : r.evaluated_at = now
      BY <2>1, RequirementIsAvailable
    <2>4. InvalidReasons(decision, request.security_binding, now) = {}
      BY <2>1 DEF InvalidReasons, BoundInv
    <2>5. /\ state.started_at <= now /\ state.lifecycle.state = "VERIFYING"
          /\ state.lifecycle.routing_decision_id = decision.decision_id
      BY DEF IInv, StateInv, OfDecision
    <2>6. CanFinalize(request, decision, state, s, r, request.security_binding, now)
      BY <2>2, <2>3, <2>4, <2>5 DEF CanFinalize, BindingsHold, EvaluatedAt, BoundInv
    <2>7. QED
      BY <2>6
  <1>3. QED
    BY <1>1, <1>2, BoundPreserved, Invariance, PTL DEF Spec

-----------------------------------------------------------------------------
(* Verification implements VerifiedClaim. *)

(* The abstract specification counts as this one does. *)
LEMMA SameCount ==
  ASSUME NEW S
  PROVE  Promise!Cardinality(S) = Cardinality(S)
  BY DEF Cardinality, Promise!Cardinality

SaidAll(observations) == {Said(o) : o \in observations}

LEMMA SaidFields ==
  ASSUME NEW o
  PROVE  Said(o).verifier = o.verifier /\ Said(o).assertion = o.assertion /\ Said(o).status = o.status
  BY DEF Said

(* There is no more to hear than was observed. *)
LEMMA SaidIsNoMore ==
  ASSUME NEW observations, IsFiniteSet(observations)
  PROVE  /\ IsFiniteSet(SaidAll(observations))
         /\ Cardinality(SaidAll(observations)) <= Cardinality(observations)
  <1> DEFINE f == [o \in observations |-> Said(o)]
  <1>1. f \in Surjection(observations, SaidAll(observations))
    BY DEF Surjection, SaidAll
  <1>2. QED
    BY <1>1, FS_Surjection

(* A recorded observation is heard as one that was not heard before. *)
LEMMA RecordIsHear ==
  ASSUME IInv, InProgress, NEW snapshot, NEW o \in ObservationRecords, NEW r, NEW b,
         RecordVerifierObservation(snapshot, o, r, b)
  PROVE  \E h \in (HeardSeen)' \ HeardSeen : Promise!Hear(h.verifier, h.assertion, h.status)
  <1> DEFINE O == state.observations
             h == Said(o)
  <1>1. /\ CanRecord(request, decision, state, snapshot, o, r, b)
        /\ state' = Recorded(state, o) /\ result' = None
    BY DEF RecordVerifierObservation
  <1>2. /\ o.verifier \in state.selected_verifiers
        /\ o.assertion \in state.policy.required_assertions
        /\ \A p \in O : p.verifier # o.verifier \/ p.assertion # o.assertion
        /\ state.lifecycle.budget_state.usage.used[VerifierPasses] < state.policy.max_verifier_passes
    BY <1>1, RecordFacts
  <1>3. /\ state' \in OrchestrationRecords
        /\ state'.observations = O \cup {o}
        /\ state'.policy = state.policy
        /\ state'.subject_producer = state.subject_producer
    BY <1>1, RecordFacts
  <1>4. InProgress'
    BY <1>3 DEF InProgress, OrchestrationRecords, None
  <1>5. HeardSeen = SaidAll(O) /\ HeardSeen' = SaidAll(O) \cup {h}
    BY <1>3, <1>4 DEF HeardSeen, SaidAll
  <1>6. \A g \in SaidAll(O) : g.verifier # h.verifier \/ g.assertion # h.assertion
    BY <1>2, SaidFields DEF SaidAll
  <1>7. h \in HeardSeen' \ HeardSeen
    BY <1>5, <1>6
  <1>8. h.verifier # state.subject_producer /\ h.assertion \in state.policy.required_assertions
    BY <1>2, SaidFields DEF IInv, StateInv
  <1>9. Cardinality(SaidAll(O)) < state.policy.max_verifier_passes
    <2> DEFINE count == Cardinality(O)
               used == state.lifecycle.budget_state.usage.used
               before == begun.lifecycle.budget_state.usage.used
    <2>1. IsFiniteSet(O)
      BY DEF IInv, ObservationsInv
    <2>2. /\ count \in Nat /\ Cardinality(SaidAll(O)) \in Nat
          /\ Cardinality(SaidAll(O)) <= count
      BY <2>1, SaidIsNoMore, FS_CardinalityType
    <2>3. begun.lifecycle \in LifecycleSnapshots
          /\ used[VerifierPasses] = before[VerifierPasses] + count
      BY VerifierPassesAssumption DEF IInv, PassesInv
    <2>4. before[VerifierPasses] \in Nat
      BY <2>3, VerifierPassesAssumption
      DEF LifecycleSnapshots, Ledgers, ReasoningBudgetUsages, Counters
    <2>5. state.policy.max_verifier_passes \in Nat
      BY VerificationAssumption DEF IInv, StateInv, OrchestrationRecords
    <2> HIDE DEF count
    <2>6. QED
      BY <1>2, <2>2, <2>3, <2>4, <2>5
  <1>10. HeardSeen' = HeardSeen \cup
           {[verifier |-> h.verifier, assertion |-> h.assertion, status |-> h.status]}
    BY <1>5, SaidFields DEF Said
  <1>11. VerdictSeen' = "NONE" /\ TermsSeen' = TermsSeen
    BY <1>1, <1>3, <1>4 DEF VerdictSeen, TermsSeen
  <1> HIDE DEF h, O
  <1>12. Promise!Hear(h.verifier, h.assertion, h.status)
    <2>1. /\ h.verifier # TermsSeen.producer /\ h.assertion \in TermsSeen.assertions
          /\ Cardinality(HeardSeen) < TermsSeen.passes
      BY <1>5, <1>8, <1>9 DEF TermsSeen
    <2>2. \A g \in HeardSeen : g.verifier # h.verifier \/ g.assertion # h.assertion
      BY <1>5, <1>6
    <2>3. QED
      BY <1>10, <1>11, <2>1, <2>2, SameCount DEF Promise!Hear, Promise!NoVerdict
  <1>13. QED
    BY <1>7, <1>12

(* What is enough for the verdict SUPPORTED justifies it. *)
LEMMA SupportedIsJustified ==
  ASSUME IInv, InProgress,
         \A a \in state.policy.required_assertions :
           /\ \A o \in Relevant(state, a) : o.status \notin Objection
           /\ Cardinality(Supporting(state, a)) >= state.policy.minimum_supporting_verifiers
  PROVE  Promise!Justified
  <1>1. \A a \in state.policy.required_assertions :
          /\ \A o \in Relevant(state, a) : o.status \notin Objection
          /\ Cardinality(Supporting(state, a)) >= state.policy.minimum_supporting_verifiers
    OBVIOUS
  <1>2. HeardSeen = SaidAll(state.observations)
    BY DEF HeardSeen, SaidAll
  <1>3. /\ TermsSeen.assertions = state.policy.required_assertions
        /\ TermsSeen.support = state.policy.minimum_supporting_verifiers
    BY DEF TermsSeen
  <1>4. ASSUME NEW a PROVE Promise!Supporters(a) = Supporting(state, a)
    <2>1. \A o \in state.observations : Said(o) \in HeardSeen
      BY <1>2 DEF SaidAll
    <2>2. \A h \in HeardSeen : \E o \in state.observations : h = Said(o)
      BY <1>2 DEF SaidAll
    <2>3. Promise!Supporters(a) \subseteq Supporting(state, a)
      BY <2>2, SaidFields DEF Promise!Supporters, Supporting, Relevant
    <2>4. Supporting(state, a) \subseteq Promise!Supporters(a)
      BY <2>1, SaidFields DEF Promise!Supporters, Supporting, Relevant
    <2>5. QED
      BY <2>3, <2>4
  <1>5. ASSUME NEW h \in HeardSeen PROVE h.status \notin Objection
    <2>1. PICK o \in state.observations : h = Said(o)
      BY <1>2 DEF SaidAll
    <2>2. o.assertion \in state.policy.required_assertions
      BY <1>1 DEF IInv, ObservationsInv
    <2>3. QED
      BY <1>1, <2>1, <2>2, SaidFields DEF Relevant
  <1>6. \A a \in TermsSeen.assertions : Cardinality(Promise!Supporters(a)) >= TermsSeen.support
    BY <1>1, <1>3, <1>4
  <1>7. QED
    BY <1>5, <1>6, SameCount DEF Promise!Justified

(* Verification implements VerifiedClaim: beginning and dropping one starts   *)
(* over, an observation is heard, finalizing concludes, the rest stutters.    *)
THEOREM VerifiedClaimPromiseHolds == Spec => VerifiedClaimPromise
  <1>1. Init => Promise!Init
    BY DEF Init, InProgress, HeardSeen, VerdictSeen, Promise!Init, Promise!NoVerdict
  <1>2. IInv /\ IInv' /\ [Next]_vars => [Promise!Next]_(Promise!vars)
    <2> SUFFICES ASSUME IInv, IInv', [Next]_vars PROVE [Promise!Next]_(Promise!vars)
      OBVIOUS
    <2>1. CASE UNCHANGED <<state, result>>
      BY <2>1 DEF Promise!vars, TermsSeen, HeardSeen, VerdictSeen, InProgress
    <2>2. CASE Tick \/ Cancel \/ UNCHANGED vars
      BY <2>1, <2>2 DEF Tick, Cancel, vars
    <2>3. ASSUME NEW to \in NextState, NEW delta \in Delta \cup {NoCost}, Transition(to, delta)
          PROVE  [Promise!Next]_(Promise!vars)
      <3>1. CASE to \in TerminalState
        BY <2>1, <2>3, <3>1 DEF Transition
      <3>2. CASE to \notin TerminalState
        <4>1. ~InProgress' /\ result' = None
          BY <2>3, <3>2 DEF Transition, InProgress
        <4>2. QED
          BY <4>1 DEF HeardSeen, VerdictSeen, Promise!Start, Promise!NoVerdict, Promise!Next
      <3>3. QED
        BY <3>1, <3>2
    <2>4. ASSUME NEW snapshot \in Snapshot, NEW selection \in SelectionPolicy,
                 NEW policy \in VerificationPolicy, NEW producer \in Producer,
                 NEW r \in EvaluatedRequirements, NEW b \in SecurityBinding,
                 BeginVerification(snapshot, selection, policy, producer, r, b)
          PROVE  [Promise!Next]_(Promise!vars)
      <3>1. state'.observations = {} /\ result' = None
        BY <2>4 DEF BeginVerification, Orchestration
      <3>2. HeardSeen' = {} /\ VerdictSeen' = "NONE"
        BY <3>1 DEF HeardSeen, VerdictSeen
      <3>3. QED
        BY <3>2 DEF Promise!Start, Promise!NoVerdict, Promise!Next
    <2>5. ASSUME NEW snapshot \in Snapshot, NEW v \in SubstrateId, NEW version \in Version,
                 NEW a \in Assertion, NEW report \in Report, NEW at \in 0..now,
                 NEW r \in EvaluatedRequirements, NEW b \in SecurityBinding,
                 RecordVerifierObservation(snapshot, Observed(v, version, a, report, at), r, b)
          PROVE  [Promise!Next]_(Promise!vars)
      <3> DEFINE o == Observed(v, version, a, report, at)
      <3>1. now \in Nat /\ at \in Nat
        BY DEF IInv, WorldInv
      <3>2. o \in ObservationRecords
        BY <3>1, ObservedIsRecord
      <3> HIDE DEF o
      <3>3. RecordVerifierObservation(snapshot, o, r, b) /\ InProgress
        BY <2>5 DEF o, RecordVerifierObservation
      <3>4. \E h \in HeardSeen' \ HeardSeen : Promise!Hear(h.verifier, h.assertion, h.status)
        BY <3>2, <3>3, RecordIsHear
      <3>5. QED
        BY <3>4 DEF Promise!Next
    <2>6. ASSUME NEW snapshot \in Snapshot, NEW r \in EvaluatedRequirements,
                 NEW b \in SecurityBinding, FinalizeVerification(snapshot, r, b)
          PROVE  [Promise!Next]_(Promise!vars)
      <3>1. /\ state' = state /\ result' = VerificationResult(request, state, snapshot, r, now)
        BY <2>6 DEF FinalizeVerification
      <3>2. result' # None
        BY <3>1 DEF VerificationResult, None
      <3>3. VerdictSeen' = result'.status /\ UNCHANGED <<TermsSeen, HeardSeen>>
        BY <3>1, <3>2 DEF VerdictSeen, TermsSeen, HeardSeen, InProgress
      <3>4. VerdictSeen' \in VerificationStatus
        BY <3>2, <3>3 DEF IInv, VerdictInv
      <3>5. VerdictSeen' = "SUPPORTED" => Promise!Justified
        <4> SUFFICES ASSUME VerdictSeen' = "SUPPORTED" PROVE Promise!Justified
          OBVIOUS
        <4>1. result'.status = "SUPPORTED"
          BY <3>3
        <4>2. /\ InProgress
              /\ \A a \in state.policy.required_assertions :
                   /\ \A o \in Relevant(state, a) : o.status \notin Objection
                   /\ Cardinality(Supporting(state, a)) >= state.policy.minimum_supporting_verifiers
          BY <3>1, <3>2, <4>1 DEF IInv, VerdictInv, InProgress, Relevant, Supporting
        <4>3. QED
          BY <4>2, SupportedIsJustified
      <3>6. Promise!Conclude(VerdictSeen')
        BY <3>3, <3>5 DEF Promise!Conclude
      <3>7. QED
        BY <3>4, <3>6 DEF Promise!Next
    <2>7. QED
      BY <2>2, <2>3, <2>4, <2>5, <2>6 DEF Next
  <1>3. QED
    BY <1>1, <1>2, Invariance, PTL DEF Spec, VerifiedClaimPromise, Promise!Spec

=============================================================================
