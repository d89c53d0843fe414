----------------------- MODULE ReasoningLifecycleProofs -----------------------
(***************************************************************************)
(* Proofs about ReasoningLifecycle for every set of counters, decisions,    *)
(* deltas and every MaxSequence.                                            *)
(***************************************************************************)
EXTENDS ReasoningLifecycle, SharedLemmas, TLAPS

-----------------------------------------------------------------------------
(* The snapshots. *)

(* A successful transition returns a well-formed snapshot that continues    *)
(* the audit trail of the one it was made from.                             *)
LEMMA NextSnapshotFacts ==
  ASSUME NEW s \in LifecycleSnapshots, NEW d \in Decision, NEW st \in ReasoningState,
         NEW delta \in Counters, CanTransition(d, s, st, delta)
  PROVE  LET n == NextSnapshot(s, st, delta) IN
         /\ n \in LifecycleSnapshots
         /\ Precedes(s, n)
         /\ ~IsTerminal(s)
         /\ ExhaustedDimensions(s.budget_state.usage)
              \subseteq ExhaustedDimensions(n.budget_state.usage)
  <1> DEFINE n == NextSnapshot(s, st, delta)
  <1>1. /\ n \in LifecycleSnapshots
        /\ ~IsTerminal(s)
        /\ n.routing_decision_id = s.routing_decision_id
        /\ n.correlation_id = s.correlation_id
        /\ n.sequence = s.sequence + 1
        /\ n.previous_state = s.state
    BY TransitionFacts
  <1>2. /\ n.budget_state.usage.budget = s.budget_state.usage.budget
        /\ \A k \in Dimension : s.budget_state.usage.used[k] <= n.budget_state.usage.used[k]
        /\ ExhaustedDimensions(s.budget_state.usage)
             \subseteq ExhaustedDimensions(n.budget_state.usage)
    BY TransitionCharges
  <1> HIDE DEF n
  <1>3. Precedes(s, n)
    BY <1>1, <1>2 DEF Precedes
  <1>4. QED
    BY <1>1, <1>2, <1>3 DEF n

-----------------------------------------------------------------------------
(* Every value that begin and transition hand out satisfies the checks of   *)
(* its constructor, so the checks never make an accepted call raise.        *)
THEOREM TypeCorrect == Spec => []TypeOK
  <1>1. Init => TypeOK
    BY DEF Init, TypeOK
  <1>2. TypeOK /\ [Next]_vars => TypeOK'
    <2> SUFFICES ASSUME TypeOK, [Next]_vars PROVE TypeOK'
      OBVIOUS
    <2>1. ASSUME NEW d \in Decision, NEW c \in CorrelationId,
                 BeginReasoningLifecycle(d, c)
          PROVE  TypeOK'
      BY <2>1, InitialSnapshotFacts, DecisionAssumption DEF TypeOK, BeginReasoningLifecycle
    <2>2. ASSUME NEW d \in Decision, NEW s \in snapshots, NEW st \in ReasoningState,
                 NEW delta \in ProposedDelta \cup {NoCost},
                 TransitionReasoningState(d, s, st, delta)
          PROVE  TypeOK'
      <3>1. delta \in Counters /\ s \in LifecycleSnapshots
        BY DeltaAssumption DEF NoCost, Counters, TypeOK
      <3>2. NextSnapshot(s, st, delta) \in LifecycleSnapshots
        BY <2>2, <3>1, NextSnapshotFacts DEF TransitionReasoningState
      <3>3. QED
        BY <2>2, <3>2 DEF TransitionReasoningState, TypeOK
    <2>3. CASE UNCHANGED vars
      BY <2>3 DEF TypeOK, vars
    <2>4. QED
      BY <2>1, <2>2, <2>3 DEF Next
  <1>3. QED
    BY <1>1, <1>2, PTL DEF Spec

(* Every snapshot that is not initial continues a returned snapshot of the  *)
(* same lifecycle: the trail a caller audits or resumes from has no gap.    *)
THEOREM AuditTrailHolds == Spec => []AuditTrail
  <1>1. Init => AuditTrail
    BY DEF Init, AuditTrail
  <1>2. TypeOK /\ AuditTrail /\ [Next]_vars => AuditTrail'
    <2> SUFFICES ASSUME TypeOK, AuditTrail, [Next]_vars PROVE AuditTrail'
      OBVIOUS
    <2>1. ASSUME NEW d \in Decision, NEW c \in CorrelationId,
                 BeginReasoningLifecycle(d, c)
          PROVE  AuditTrail'
      BY <2>1, InitialSnapshotFacts, DecisionAssumption DEF AuditTrail, BeginReasoningLifecycle
    <2>2. ASSUME NEW d \in Decision, NEW s \in snapshots, NEW st \in ReasoningState,
                 NEW delta \in ProposedDelta \cup {NoCost},
                 TransitionReasoningState(d, s, st, delta)
          PROVE  AuditTrail'
      <3> DEFINE n == NextSnapshot(s, st, delta)
      <3>1. delta \in Counters /\ s \in LifecycleSnapshots
        BY DeltaAssumption DEF NoCost, Counters, TypeOK
      <3>2. /\ Precedes(s, n)
            /\ ~IsTerminal(s)
            /\ ExhaustedDimensions(s.budget_state.usage)
                 \subseteq ExhaustedDimensions(n.budget_state.usage)
        BY <2>2, <3>1, NextSnapshotFacts DEF TransitionReasoningState
      <3>3. snapshots' = snapshots \cup {n}
        BY <2>2 DEF TransitionReasoningState
      <3> HIDE DEF n
      <3>4. QED
        BY <3>2, <3>3 DEF AuditTrail
    <2>3. CASE UNCHANGED vars
      BY <2>3 DEF AuditTrail, vars
    <2>4. QED
      BY <2>1, <2>2, <2>3 DEF Next
  <1>3. QED
    BY <1>1, <1>2, TypeCorrect, PTL DEF Spec

(* A lifecycle never uses more than the ceilings of the decision it began   *)
(* with, whatever decisions and deltas callers pass and in whatever order   *)
(* they continue old and new snapshots.                                     *)
THEOREM CeilingsHold == Spec => []WithinAdmittedCeilings
  <1>1. Init => WithinAdmittedCeilings
    BY DEF Init, WithinAdmittedCeilings
  <1>2. TypeOK /\ WithinAdmittedCeilings /\ [Next]_vars => WithinAdmittedCeilings'
    <2> SUFFICES ASSUME TypeOK, WithinAdmittedCeilings, [Next]_vars
                 PROVE  WithinAdmittedCeilings'
      OBVIOUS
    <2> DEFINE Root(r, s) ==
                 /\ r.sequence = 0
                 /\ r.routing_decision_id = s.routing_decision_id
                 /\ r.correlation_id = s.correlation_id
                 /\ r.budget_state.usage.budget = s.budget_state.usage.budget
               Within(s) == \A k \in Dimension :
                 s.budget_state.usage.used[k] <= s.budget_state.usage.budget.max[k]
    <2>1. ASSUME NEW s \in LifecycleSnapshots PROVE Within(s)
      <3>1. s.budget_state.usage \in ReasoningBudgetUsages
        BY DEF LifecycleSnapshots, Ledgers
      <3>2. QED
        BY <3>1 DEF ReasoningBudgetUsages, ReasoningBudgets, Counters, ExceededDimensions
    <2>2. ASSUME NEW d \in Decision, NEW c \in CorrelationId,
                 BeginReasoningLifecycle(d, c)
          PROVE  WithinAdmittedCeilings'
      <3> DEFINE i == InitialSnapshot(d, c)
      <3>1. i \in LifecycleSnapshots /\ i.sequence = 0
        BY InitialSnapshotFacts, DecisionAssumption
      <3>2. snapshots' = snapshots \cup {i}
        BY <2>2 DEF BeginReasoningLifecycle
      <3> HIDE DEF i
      <3>3. QED
        BY <2>1, <3>1, <3>2 DEF WithinAdmittedCeilings
    <2>3. ASSUME NEW d \in Decision, NEW s \in snapshots, NEW st \in ReasoningState,
                 NEW delta \in ProposedDelta \cup {NoCost},
                 TransitionReasoningState(d, s, st, delta)
          PROVE  WithinAdmittedCeilings'
      <3> DEFINE n == NextSnapshot(s, st, delta)
      <3>1. delta \in Counters /\ s \in LifecycleSnapshots
        BY DeltaAssumption DEF NoCost, Counters, TypeOK
      <3>2. n \in LifecycleSnapshots /\ Precedes(s, n)
        BY <2>3, <3>1, NextSnapshotFacts DEF TransitionReasoningState
      <3>3. snapshots' = snapshots \cup {n}
        BY <2>3 DEF TransitionReasoningState
      <3> HIDE DEF n
      <3>4. PICK r \in snapshots : Root(r, s)
        BY DEF WithinAdmittedCeilings
      <3>5. Root(r, n)
        BY <3>2, <3>4 DEF Precedes
      <3>6. Within(n)
        BY <2>1, <3>2
      <3>7. QED
        BY <3>3, <3>5, <3>6 DEF WithinAdmittedCeilings
    <2>4. CASE UNCHANGED vars
      BY <2>4 DEF WithinAdmittedCeilings, vars
    <2>5. QED
      BY <2>2, <2>3, <2>4 DEF Next
  <1>3. QED
    BY <1>1, <1>2, TypeCorrect, PTL DEF Spec

(* No tool execution without a policy wait of the same lifecycle directly   *)
(* before it: a consequence of the audit trail and the graph.               *)
THEOREM ToolNeedsPolicyWait == Spec => []ToolOnlyAfterPolicyWait
  <1>1. TypeOK /\ AuditTrail => ToolOnlyAfterPolicyWait
    <2> SUFFICES ASSUME TypeOK, AuditTrail, NEW s \in snapshots,
                        s.state = "EXECUTING_AUTHORIZED_TOOL"
                 PROVE  \E p \in snapshots : Precedes(p, s) /\ p.state = "AWAITING_POLICY"
      BY DEF ToolOnlyAfterPolicyWait
    <2>1. /\ s.sequence \in Nat
          /\ s.sequence = 0 => s.state = "ADMITTED"
          /\ s.sequence > 0 => CanTransitionState(s.previous_state, s.state)
      BY DEF TypeOK, LifecycleSnapshots
    <2>2. s.sequence > 0 /\ <<s.previous_state, "EXECUTING_AUTHORIZED_TOOL">> \in AllowedTransitions
      BY <2>1 DEF CanTransitionState
    <2>3. s.previous_state = "AWAITING_POLICY"
      BY <2>2 DEF AllowedTransitions, WorkTransitions, CommonStopState, WorkState
    <2>4. PICK p \in snapshots : Precedes(p, s)
      BY <2>2 DEF AuditTrail
    <2>5. QED
      BY <2>3, <2>4 DEF Precedes
  <1>2. QED
    BY <1>1, TypeCorrect, AuditTrailHolds, PTL

(* The high-water mark of branch depth is always a depth somebody proposed. *)
THEOREM DepthHighWaterHolds == Spec => []DepthIsHighWater
  <1>1. Init => DepthIsHighWater
    BY DEF Init, DepthIsHighWater
  <1>2. TypeOK /\ DepthIsHighWater /\ [Next]_vars => DepthIsHighWater'
    <2> SUFFICES ASSUME TypeOK, DepthIsHighWater, [Next]_vars PROVE DepthIsHighWater'
      OBVIOUS
    <2> DEFINE Depth(s) == s.budget_state.usage.used[BranchDepth]
               Known(s) == Depth(s) = 0 \/ \E x \in ProposedDelta : x[BranchDepth] = Depth(s)
    <2>1. ASSUME NEW d \in Decision, NEW c \in CorrelationId,
                 BeginReasoningLifecycle(d, c)
          PROVE  DepthIsHighWater'
      <3>1. Known(InitialSnapshot(d, c))
        BY InitialSnapshotFacts, DecisionAssumption, DimensionAssumption DEF NoCost
      <3>2. QED
        BY <2>1, <3>1 DEF DepthIsHighWater, BeginReasoningLifecycle
    <2>2. ASSUME NEW d \in Decision, NEW s \in snapshots, NEW st \in ReasoningState,
                 NEW delta \in ProposedDelta \cup {NoCost},
                 TransitionReasoningState(d, s, st, delta)
          PROVE  DepthIsHighWater'
      <3> DEFINE n == NextSnapshot(s, st, delta)
      <3>1. s \in LifecycleSnapshots /\ Known(s)
        BY DEF TypeOK, DepthIsHighWater
      <3>2. Depth(n) = Charged(s.budget_state.usage.used, delta)[BranchDepth]
        BY <3>1 DEF NextSnapshot, ConsumedLedger, Consumed, LifecycleSnapshots,
                    Ledgers, ReasoningBudgetUsages
      <3>3. Depth(n) = Depth(s) \/ Depth(n) = delta[BranchDepth]
        BY <3>2, DimensionAssumption DEF Charged
      <3>4. delta \in ProposedDelta \/ delta[BranchDepth] = 0
        BY DimensionAssumption DEF NoCost
      <3>5. snapshots' = snapshots \cup {n}
        BY <2>2 DEF TransitionReasoningState
      <3> HIDE DEF n
      <3>6. Known(n)
        BY <3>1, <3>3, <3>4
      <3>7. QED
        BY <3>5, <3>6 DEF DepthIsHighWater
    <2>3. CASE UNCHANGED vars
      BY <2>3 DEF DepthIsHighWater, vars
    <2>4. QED
      BY <2>1, <2>2, <2>3 DEF Next
  <1>3. QED
    BY <1>1, <1>2, TypeCorrect, PTL DEF Spec

(* An exhausted budget, however it was spent, never prevents a stop.        *)
THEOREM StopIsAlwaysAccepted == Spec => []AlwaysStoppable
  <1>1. TypeOK => AlwaysStoppable
    <2> SUFFICES ASSUME TypeOK, NEW s \in snapshots, ~IsTerminal(s),
                        NEW d \in Decision, NEW stop \in CommonStopState,
                        LedgerMatches(d, s.budget_state)
                 PROVE  CanTransition(d, s, stop, NoCost)
      BY DEF AlwaysStoppable
    <2>1. /\ s.budget_state.usage \in ReasoningBudgetUsages
          /\ s.state \in ReasoningState
          /\ s.budget_state.decision_id = s.routing_decision_id
      BY DEF TypeOK, LifecycleSnapshots, Ledgers
    <2>2. CanConsume(s.budget_state.usage, NoCost)
      BY <2>1, NothingIsAffordable
    <2>3. CanTransitionState(s.state, stop)
      BY <2>1 DEF CanTransitionState, AllowedTransitions, IsTerminal, ReasoningState
    <2>4. QED
      BY <2>1, <2>2, <2>3 DEF CanTransition, CanConsumeLedger, LedgerMatches
  <1>2. QED
    BY <1>1, TypeCorrect, PTL

=============================================================================
