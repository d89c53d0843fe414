------------------------------ MODULE SessionProofs ------------------------------
(***************************************************************************)
(* Proofs about ReasoningSession for every set of requests, snapshots,       *)
(* policies and costs, and for any number of routes and transitions.         *)
(***************************************************************************)
EXTENDS ReasoningSession, SharedLemmas, SequenceTheorems, FiniteSetTheorems, TLAPS

-----------------------------------------------------------------------------
(* The inductive invariant. *)

(* What a route is made of. *)
RouteRecords ==
  [decision : [decision_id : DecisionId,
               security_binding : {r.security_binding : r \in Request},
               policy : Policy,
               selected_substrates : SUBSET UNION {DOMAIN s.substrates : s \in Snapshot},
               reasoning_budget : ReasoningBudgets,
               created_at : Nat, expires_at : Nat],
   lifecycle : LifecycleSnapshots]

(* A lifecycle belongs to its decision, whose ceilings are no higher than    *)
(* those of the first request.                                              *)
RouteFits(first, route) ==
  /\ route.lifecycle.routing_decision_id = route.decision.decision_id
  /\ LedgerMatches(route.decision, route.lifecycle.budget_state)
  /\ \A k \in Dimension :
       route.decision.reasoning_budget.max[k] <= first.reasoning_budget.max[k]

SessionInv ==
  /\ now \in Nat /\ cancelled_at \in Nat \cup {NoTime}
  /\ root \in Request /\ request \in Request /\ slips \subseteq Slip
  /\ spent \in Counters
  /\ ledgers \subseteq Ledgers

RoutesInv ==
  /\ routes \in Seq(RouteRecords) /\ routes # <<>>
  /\ \A i \in 1..Len(routes) : RouteFits(root, routes[i])
  /\ Present.decision.reasoning_budget = request.reasoning_budget
  /\ Present.decision.security_binding = request.security_binding

(* As long as nothing slipped, the present ledger knows of all work. *)
LedgerInv == slips = {} => Present.lifecycle.budget_state.usage.used = spent

IInv == SessionInv /\ RoutesInv /\ LedgerInv

-----------------------------------------------------------------------------
(* The lifecycle of a first decision starts empty. *)
LEMMA InitEstablishes == Init => IInv
  <1> SUFFICES ASSUME Init PROVE IInv
    OBVIOUS
  <1>1. PICK snapshot \in Snapshot, policy \in Policy, id \in DecisionId,
             c \in CorrelationId, lifetime \in Lifetime :
          LET decision == FirstDecision(request, snapshot, policy, id, lifetime)
          IN /\ routes = <<[decision |-> decision, lifecycle |-> InitialSnapshot(decision, c)]>>
             /\ ledgers = {ZeroLedger(decision)}
    BY DEF Init
  <1> DEFINE decision == FirstDecision(request, snapshot, policy, id, lifetime)
             lifecycle == InitialSnapshot(decision, c)
             route == [decision |-> decision, lifecycle |-> lifecycle]
  <1>2. /\ routes = <<route>> /\ ledgers = {ZeroLedger(decision)}
        /\ route.decision = decision /\ route.lifecycle = lifecycle
    BY <1>1
  <1>3. /\ now = 0 /\ cancelled_at = NoTime /\ request \in Request /\ root = request
        /\ spent = NoCost /\ slips = {}
    BY DEF Init
  <1>4. request.reasoning_budget \in ReasoningBudgets /\ lifetime \in Nat
    BY <1>3, SessionAssumption
  <1>5. Selected(request, snapshot, policy, 0) \subseteq DOMAIN snapshot.substrates
    BY DEF Selected, FirstRanked, EligibleIds
  <1>6. /\ decision.decision_id = id /\ decision.reasoning_budget = request.reasoning_budget
        /\ decision.security_binding = request.security_binding
    BY DEF FirstDecision
  <1>7. decision \in [decision_id : DecisionId,
               security_binding : {r.security_binding : r \in Request},
               policy : Policy,
               selected_substrates : SUBSET UNION {DOMAIN s.substrates : s \in Snapshot},
               reasoning_budget : ReasoningBudgets,
               created_at : Nat, expires_at : Nat]
    BY <1>3, <1>4, <1>5 DEF FirstDecision
  <1> HIDE DEF decision
  <1>8. /\ lifecycle \in LifecycleSnapshots
        /\ lifecycle.routing_decision_id = decision.decision_id
        /\ lifecycle.budget_state = ZeroLedger(decision)
    BY <1>4, <1>6, InitialSnapshotFacts
  <1>9. /\ ZeroLedger(decision) \in Ledgers
        /\ LedgerMatches(decision, ZeroLedger(decision))
        /\ ZeroLedger(decision).usage.used = NoCost /\ NoCost \in Counters
    BY <1>4, <1>6, ZeroLedgerFacts
  <1> HIDE DEF lifecycle
  <1>10. route \in RouteRecords
    BY <1>7, <1>8 DEF RouteRecords
  <1> HIDE DEF route
  <1>11. routes \in Seq(RouteRecords) /\ Len(routes) = 1 /\ routes[1] = route
    BY <1>2, <1>10
  <1>12. RouteFits(root, route)
    BY <1>2, <1>3, <1>4, <1>6, <1>8, <1>9 DEF RouteFits, ReasoningBudgets, Counters
  <1>13. SessionInv
    BY <1>2, <1>3, <1>9 DEF SessionInv
  <1>14. RoutesInv
    BY <1>2, <1>6, <1>11, <1>12 DEF RoutesInv, Present
  <1>15. LedgerInv
    BY <1>2, <1>3, <1>8, <1>9, <1>11 DEF LedgerInv, Present
  <1>16. QED
    BY <1>13, <1>14, <1>15 DEF IInv

-----------------------------------------------------------------------------
(* transition_reasoning_state on any route. *)
LEMMA WorkPreserves ==
  ASSUME IInv, NEW i \in DOMAIN routes, NEW to, NEW delta \in Delta \cup {NoCost}, Work(i, to, delta)
  PROVE  IInv'
  <1> DEFINE old == routes[i]
             n == NextSnapshot(old.lifecycle, to, delta)
             new == [old EXCEPT !.lifecycle = n]
  <1>1. routes \in Seq(RouteRecords) /\ Len(routes) \in Nat /\ Len(routes) > 0
    BY DEF IInv, RoutesInv
  <1>2. i \in 1..Len(routes) /\ old \in RouteRecords /\ RouteFits(root, old)
    BY <1>1 DEF IInv, RoutesInv
  <1>3. delta \in Counters
    BY SessionAssumption DEF NoCost, Counters
  <1>4. /\ CanTransition(old.decision, old.lifecycle, to, delta)
        /\ routes' = [routes EXCEPT ![i].lifecycle = n]
        /\ ledgers' = ledgers \cup {ConsumedLedger(old.lifecycle.budget_state, delta)}
        /\ spent' = Charged(spent, delta)
        /\ slips' = slips \cup {s \in {"LATE_WORK"} : i # Len(routes) /\ delta # NoCost}
        /\ UNCHANGED <<now, cancelled_at, root, request>>
    BY DEF Work
  <1>5. old.lifecycle \in LifecycleSnapshots
    BY <1>2 DEF RouteRecords
  <1>6. /\ n \in LifecycleSnapshots
        /\ n.routing_decision_id = old.lifecycle.routing_decision_id
    BY <1>3, <1>4, <1>5, TransitionFacts
  <1>7. /\ n.budget_state.usage.budget = old.lifecycle.budget_state.usage.budget
        /\ n.budget_state.usage.used = Charged(old.lifecycle.budget_state.usage.used, delta)
    BY <1>3, <1>4, <1>5, TransitionCharges
  <1>8. /\ n.budget_state = ConsumedLedger(old.lifecycle.budget_state, delta)
        /\ n.budget_state \in Ledgers
        /\ n.budget_state.decision_id = n.routing_decision_id
    BY <1>5, <1>6 DEF NextSnapshot, LifecycleSnapshots
  <1> HIDE DEF n
  <1>9. routes' = [routes EXCEPT ![i] = new]
    BY <1>4
  <1>10. new \in RouteRecords /\ new.decision = old.decision /\ new.lifecycle = n
    BY <1>2, <1>6 DEF RouteRecords
  <1> HIDE DEF new, old
  <1>11. /\ routes' \in Seq(RouteRecords) /\ Len(routes') = Len(routes)
         /\ \A j \in 1..Len(routes) : routes'[j] = IF j = i THEN new ELSE routes[j]
    BY <1>1, <1>2, <1>9, <1>10, ExceptSeq
  <1>12. RouteFits(root, new)
    BY <1>2, <1>4, <1>6, <1>7, <1>8, <1>10 DEF RouteFits, LedgerMatches
  <1>13. \A j \in 1..Len(routes) : routes'[j].decision = routes[j].decision
    BY <1>10, <1>11 DEF old
  <1>14. SessionInv'
    BY <1>3, <1>4, <1>8, ChargedFacts DEF IInv, SessionInv, Slip
  <1>15. RoutesInv'
    <2>1. \A j \in 1..Len(routes') : RouteFits(root', routes'[j])
      <3> SUFFICES ASSUME NEW j \in 1..Len(routes) PROVE RouteFits(root', routes'[j])
        BY <1>11
      <3>1. CASE j = i
        BY <1>4, <1>11, <1>12, <3>1
      <3>2. CASE j # i
        <4>1. routes'[j] = routes[j] /\ RouteFits(root, routes[j])
          BY <1>11, <3>2 DEF IInv, RoutesInv
        <4>2. QED
          BY <1>4, <4>1
      <3>3. QED
        BY <3>1, <3>2
    <2>2. routes' # <<>>
      BY <1>1, <1>11
    <2>3. Present'.decision = Present.decision
      BY <1>1, <1>11, <1>13 DEF Present
    <2>4. QED
      BY <1>4, <1>11, <2>1, <2>2, <2>3 DEF IInv, RoutesInv
  <1>16. LedgerInv'
    <2> SUFFICES ASSUME slips' = {} PROVE Present'.lifecycle.budget_state.usage.used = spent'
      BY DEF LedgerInv
    <2>1. slips = {} /\ (i = Len(routes) \/ delta = NoCost)
      BY <1>4
    <2>2. Present.lifecycle.budget_state.usage.used = spent
      BY <2>1 DEF IInv, LedgerInv
    <2>3. CASE i = Len(routes)
      <3>1. Present = old /\ Present' = new
        BY <1>1, <1>11, <2>3 DEF Present, old
      <3>2. QED
        BY <1>4, <1>7, <1>10, <2>2, <3>1
    <2>4. CASE i # Len(routes)
      <3>1. Present' = Present
        BY <1>1, <1>11, <2>4 DEF Present
      <3>2. spent' = spent
        BY <1>4, <2>1, <2>4, ChargedNoCost DEF IInv, SessionInv
      <3>3. QED
        BY <2>2, <3>1, <3>2
    <2>5. QED
      BY <2>3, <2>4
  <1>17. QED
    BY <1>14, <1>15, <1>16 DEF IInv

-----------------------------------------------------------------------------
(* A replan and the lifecycle of the replacement. *)

(* What replan_fallback_route carries fits the replacement and still says    *)
(* what was used.                                                           *)
LEMMA ReplanFacts ==
  ASSUME IInv, NEW in \in ReplanInputs, NEW ledger \in ledgers, NEW evaluation,
         CanReplan(request, Present.decision, ledger, evaluation, in, now)
  PROVE  /\ in.request \in Request /\ in.policy \in Policy /\ in.snapshot \in Snapshot
         /\ in.new_decision_id \in DecisionId /\ in.expires_at \in Nat
         /\ in.request.reasoning_budget \in ReasoningBudgets
         /\ CarriedLedger(in.new_decision_id, in.request, ledger) \in Ledgers
         /\ \A k \in Dimension :
              in.request.reasoning_budget.max[k] <= Present.decision.reasoning_budget.max[k]
  <1>1. /\ in.request \in Request /\ in.policy \in Policy /\ in.snapshot \in Snapshot
        /\ in.new_decision_id \in DecisionId /\ in.expires_at \in {now + l : l \in Lifetime}
    BY DEF ReplanInputs
  <1>2. in.expires_at \in Nat /\ in.request.reasoning_budget \in ReasoningBudgets
    BY <1>1, SessionAssumption DEF IInv, SessionInv
  <1>3. CanCarry(request, in.request, Present.decision, ledger)
    BY DEF CanReplan
  <1>4. ledger.usage.used \in Counters
    BY DEF IInv, SessionInv, Ledgers, ReasoningBudgetUsages
  <1>5. CarriedLedger(in.new_decision_id, in.request, ledger) \in Ledgers
    BY <1>1, <1>2, <1>3, <1>4 DEF CarriedLedger, CanCarry, Ledgers, ReasoningBudgetUsages
  <1>6. \A k \in Dimension :
          in.request.reasoning_budget.max[k] <= Present.decision.reasoning_budget.max[k]
    BY <1>3 DEF CanCarry, NarrowsBudget
  <1>7. QED
    BY <1>1, <1>2, <1>5, <1>6

(* However the lifecycle of a replacement is begun, its first snapshot is    *)
(* well formed.                                                             *)
LEMMA BegunFacts ==
  ASSUME NEW decision, NEW c \in CorrelationId, NEW carried \in Ledgers, NEW fresh \in BOOLEAN,
         decision.decision_id \in DecisionId, decision.reasoning_budget \in ReasoningBudgets,
         carried.decision_id = decision.decision_id,
         carried.usage.budget = decision.reasoning_budget
  PROVE  /\ BegunLifecycle(decision, c, carried, fresh) \in LifecycleSnapshots
         /\ BegunLifecycle(decision, c, carried, fresh).routing_decision_id = decision.decision_id
         /\ BegunLifecycle(decision, c, carried, fresh).budget_state \in Ledgers
         /\ LedgerMatches(decision, BegunLifecycle(decision, c, carried, fresh).budget_state)
         /\ ~fresh => BegunLifecycle(decision, c, carried, fresh).budget_state = carried
  <1> DEFINE i == InitialSnapshot(decision, c)
             b == BegunLifecycle(decision, c, carried, fresh)
  <1>1. /\ i \in LifecycleSnapshots /\ i.routing_decision_id = decision.decision_id
        /\ i.budget_state = ZeroLedger(decision)
        /\ ZeroLedger(decision) \in Ledgers /\ LedgerMatches(decision, ZeroLedger(decision))
    BY InitialSnapshotFacts, ZeroLedgerFacts
  <1>2. CASE fresh
    BY <1>1, <1>2 DEF BegunLifecycle
  <1>3. CASE ~fresh
    <2>1. b = [i EXCEPT !.budget_state = carried]
      BY <1>3 DEF BegunLifecycle
    <2> HIDE DEF i
    <2>2. /\ b \in LifecycleSnapshots /\ b.routing_decision_id = decision.decision_id
          /\ b.budget_state = carried
      BY <1>1, <2>1 DEF LifecycleSnapshots
    <2>3. QED
      BY <1>3, <2>2 DEF LedgerMatches
  <1>4. QED
    BY <1>2, <1>3

LEMMA ReplanPreserves ==
  ASSUME IInv, NEW in \in ReplanInputs, NEW ledger \in ledgers, NEW fresh \in BOOLEAN,
         ReplanFallbackRoute(in, ledger, fresh)
  PROVE  IInv'
  <1> DEFINE replacement == Replacement(Present.decision, in, now)
             carried == CarriedLedger(in.new_decision_id, in.request, ledger)
             begun == BegunLifecycle(replacement, Present.lifecycle.correlation_id, carried, fresh)
             route == [decision |-> replacement, lifecycle |-> begun]
  <1>1. /\ CanReplan(request, Present.decision, ledger, Evaluation, in, now)
        /\ request' = in.request
        /\ routes' = Append(routes, route)
        /\ ledgers' = ledgers \cup {carried, begun.budget_state}
        /\ UNCHANGED <<now, cancelled_at, root, spent>>
    BY DEF ReplanFallbackRoute
  <1>2. slips' = slips \cup {s \in {"STALE_LEDGER"} : ledger # Present.lifecycle.budget_state}
                      \cup {s \in {"FRESH_LIFECYCLE"} : fresh}
    BY DEF ReplanFallbackRoute
  <1>3. /\ in.request \in Request /\ in.policy \in Policy /\ in.snapshot \in Snapshot
        /\ in.new_decision_id \in DecisionId /\ in.expires_at \in Nat
        /\ in.request.reasoning_budget \in ReasoningBudgets
        /\ carried \in Ledgers
        /\ \A k \in Dimension :
             in.request.reasoning_budget.max[k] <= Present.decision.reasoning_budget.max[k]
    BY <1>1, ReplanFacts
  <1>4. /\ carried.decision_id = in.new_decision_id
        /\ carried.usage.budget = in.request.reasoning_budget
        /\ carried.usage.used = ledger.usage.used
    BY DEF CarriedLedger
  <1>5. /\ replacement.decision_id = in.new_decision_id
        /\ replacement.reasoning_budget = in.request.reasoning_budget
        /\ replacement.security_binding = in.request.security_binding
    BY DEF Replacement
  <1>6. replacement \in [decision_id : DecisionId,
               security_binding : {r.security_binding : r \in Request},
               policy : Policy,
               selected_substrates : SUBSET UNION {DOMAIN s.substrates : s \in Snapshot},
               reasoning_budget : ReasoningBudgets,
               created_at : Nat, expires_at : Nat]
    <2>1. FallbackSelected(in.request, Present.decision, in.snapshot, in.policy, in.fallback,
                           in.unavailable, now) \subseteq DOMAIN in.snapshot.substrates
      BY DEF FallbackSelected, FirstRanked, EligibleIds
    <2>2. QED
      BY <1>3, <2>1 DEF Replacement, IInv, SessionInv
  <1>7. routes \in Seq(RouteRecords) /\ Len(routes) \in Nat /\ Len(routes) > 0
    BY DEF IInv, RoutesInv
  <1>8. Present \in RouteRecords /\ RouteFits(root, Present)
    BY <1>7 DEF IInv, RoutesInv, Present
  <1>9. Present.lifecycle.correlation_id \in CorrelationId
    BY <1>8 DEF RouteRecords, LifecycleSnapshots
  <1> HIDE DEF replacement, carried
  <1>10. /\ begun \in LifecycleSnapshots
         /\ begun.routing_decision_id = replacement.decision_id
         /\ begun.budget_state \in Ledgers
         /\ LedgerMatches(replacement, begun.budget_state)
         /\ ~fresh => begun.budget_state = carried
    BY <1>3, <1>4, <1>5, <1>9, BegunFacts
  <1> HIDE DEF begun
  <1>11. route \in RouteRecords /\ route.decision = replacement /\ route.lifecycle = begun
    BY <1>6, <1>10 DEF RouteRecords
  <1> HIDE DEF route
  <1>12. RouteFits(root, route)
    <2>1. \A k \in Dimension :
            replacement.reasoning_budget.max[k] <= root.reasoning_budget.max[k]
      <3>1. /\ root.reasoning_budget \in ReasoningBudgets
            /\ Present.decision.reasoning_budget \in ReasoningBudgets
        BY <1>8, SessionAssumption DEF IInv, SessionInv, RouteRecords
      <3>2. QED
        BY <1>3, <1>5, <1>8, <3>1 DEF RouteFits, ReasoningBudgets, Counters
    <2>2. QED
      BY <1>10, <1>11, <2>1 DEF RouteFits
  <1>13. /\ routes' \in Seq(RouteRecords) /\ Len(routes') = Len(routes) + 1
         /\ \A j \in 1..Len(routes) : routes'[j] = routes[j]
         /\ routes'[Len(routes) + 1] = route
    BY <1>1, <1>7, <1>11
  <1>14. SessionInv'
    BY <1>1, <1>2, <1>3, <1>10 DEF IInv, SessionInv, Slip
  <1>15. Present' = route
    BY <1>13 DEF Present
  <1>16. RoutesInv'
    <2>1. \A j \in 1..Len(routes') : RouteFits(root', routes'[j])
      BY <1>1, <1>7, <1>12, <1>13 DEF IInv, RoutesInv
    <2>2. routes' # <<>>
      BY <1>7, <1>13
    <2>3. QED
      BY <1>1, <1>5, <1>11, <1>13, <1>15, <2>1, <2>2 DEF RoutesInv
  <1>17. LedgerInv'
    <2> SUFFICES ASSUME slips' = {} PROVE Present'.lifecycle.budget_state.usage.used = spent'
      BY DEF LedgerInv
    <2>1. slips = {} /\ ledger = Present.lifecycle.budget_state /\ ~fresh
      BY <1>2
    <2>2. Present.lifecycle.budget_state.usage.used = spent
      BY <2>1 DEF IInv, LedgerInv
    <2>3. QED
      BY <1>1, <1>4, <1>10, <1>11, <1>15, <2>1, <2>2
  <1>18. QED
    BY <1>14, <1>16, <1>17 DEF IInv

LEMMA NextPreserves == IInv /\ [Next]_vars => IInv'
  <1> SUFFICES ASSUME IInv, [Next]_vars PROVE IInv'
    OBVIOUS
  <1>1. CASE Tick \/ Cancel \/ UNCHANGED vars
    <2>1. SessionInv'
      BY <1>1 DEF Tick, Cancel, vars, IInv, SessionInv
    <2>2. RoutesInv' /\ LedgerInv'
      BY <1>1 DEF Tick, Cancel, vars, IInv, RoutesInv, LedgerInv, Present
    <2>3. QED
      BY <2>1, <2>2 DEF IInv
  <1>2. ASSUME NEW i \in DOMAIN routes, NEW to \in NextState, NEW delta \in Delta \cup {NoCost},
               Work(i, to, delta)
        PROVE  IInv'
    BY <1>2, WorkPreserves
  <1>3. ASSUME NEW in \in ReplanInputs, NEW ledger \in ledgers, NEW fresh \in BOOLEAN,
               ReplanFallbackRoute(in, ledger, fresh)
        PROVE  IInv'
    BY <1>3, ReplanPreserves
  <1>4. QED
    BY <1>1, <1>2, <1>3 DEF Next

LEMMA Invariance == Spec => []IInv
  BY InitEstablishes, NextPreserves, PTL DEF Spec

-----------------------------------------------------------------------------
(* Each route's lifecycle is a valid snapshot that belongs to its decision    *)
(* and is within its ceilings, and no ceiling is above the one first          *)
(* admitted, whatever slips.                                                *)
THEOREM TypeCorrect == Spec => []TypeOK
  <1>1. IInv => TypeOK
    <2> SUFFICES ASSUME IInv PROVE TypeOK
      OBVIOUS
    <2>1. DOMAIN routes = 1..Len(routes)
      BY DEF IInv, RoutesInv
    <2>2. ASSUME NEW i \in DOMAIN routes
          PROVE  routes[i].lifecycle \in LifecycleSnapshots /\ RouteFits(root, routes[i])
      <3>1. routes[i] \in RouteRecords
        BY <2>1 DEF IInv, RoutesInv
      <3>2. QED
        BY <2>1, <3>1 DEF IInv, RoutesInv, RouteRecords
    <2>3. QED
      BY <2>2 DEF IInv, SessionInv, RoutesInv, RouteFits, TypeOK
  <1>2. QED
    BY <1>1, Invariance, PTL

(* While nothing slips, no number of routes and fallbacks lets a request do  *)
(* more work than it was first admitted with, and the present ledger knows   *)
(* of all of it.                                                            *)
THEOREM CarriedWorkIsBoundedHolds == Spec => []CarriedWorkIsBounded
  <1>1. IInv => CarriedWorkIsBounded
    <2> SUFFICES ASSUME IInv, slips = {}
                 PROVE  /\ Present.lifecycle.budget_state.usage.used = spent
                        /\ \A k \in Dimension : spent[k] <= root.reasoning_budget.max[k]
      BY DEF CarriedWorkIsBounded
    <2> DEFINE usage == Present.lifecycle.budget_state.usage
    <2>1. usage.used = spent
      BY DEF IInv, LedgerInv
    <2>2. Present \in RouteRecords /\ RouteFits(root, Present)
      BY DEF IInv, RoutesInv, Present
    <2>3. usage \in ReasoningBudgetUsages /\ usage.budget = Present.decision.reasoning_budget
      BY <2>2 DEF RouteRecords, RouteFits, LifecycleSnapshots, Ledgers, LedgerMatches
    <2>4. root.reasoning_budget \in ReasoningBudgets
      BY SessionAssumption DEF IInv, SessionInv
    <2> HIDE DEF usage
    <2>5. ASSUME NEW k \in Dimension
          PROVE  spent[k] <= root.reasoning_budget.max[k]
      <3>1. ~(usage.used[k] > usage.budget.max[k])
        BY <2>3 DEF ReasoningBudgetUsages, ExceededDimensions
      <3>2. usage.used[k] \in Nat /\ usage.budget.max[k] \in Nat
        BY <2>3 DEF ReasoningBudgetUsages, ReasoningBudgets, Counters
      <3>3. root.reasoning_budget.max[k] \in Nat
        BY <2>4 DEF ReasoningBudgets, Counters
      <3>4. usage.budget.max[k] <= root.reasoning_budget.max[k]
        BY <2>2, <2>3 DEF RouteFits
      <3>5. QED
        BY <2>1, <3>1, <3>2, <3>3, <3>4 DEF usage
    <2>6. QED
      BY <2>1, <2>5 DEF usage
  <1>2. QED
    BY <1>1, Invariance, PTL

-----------------------------------------------------------------------------
(* Careful callers. *)

(* While nothing slips, the work is within the ceilings of the present       *)
(* request, however often they were lowered.                                *)
CarefulInv ==
  /\ IInv /\ slips = {}
  /\ request.reasoning_budget.max \in Counters /\ spent \in Counters
  /\ \A k \in Dimension : spent[k] <= request.reasoning_budget.max[k]

LEMMA WithinPresentCeilings == IInv /\ slips = {} => CarefulInv
  <1> SUFFICES ASSUME IInv, slips = {} PROVE CarefulInv
    OBVIOUS
  <1> DEFINE usage == Present.lifecycle.budget_state.usage
  <1>1. usage.used = spent /\ spent \in Counters
    BY DEF IInv, LedgerInv, SessionInv
  <1>2. Present \in RouteRecords /\ RouteFits(root, Present)
    BY DEF IInv, RoutesInv, Present
  <1>3. usage \in ReasoningBudgetUsages /\ usage.budget = request.reasoning_budget
    BY <1>2 DEF RouteRecords, RouteFits, LifecycleSnapshots, Ledgers, LedgerMatches,
       IInv, RoutesInv
  <1> HIDE DEF usage
  <1>4. ASSUME NEW k \in Dimension
        PROVE  spent[k] <= request.reasoning_budget.max[k]
    <2>1. ~(usage.used[k] > usage.budget.max[k])
      BY <1>3 DEF ReasoningBudgetUsages, ExceededDimensions
    <2>2. usage.used[k] \in Nat /\ usage.budget.max[k] \in Nat
      BY <1>3 DEF ReasoningBudgetUsages, ReasoningBudgets, Counters
    <2>3. QED
      BY <1>1, <1>3, <2>1, <2>2
  <1>5. QED
    BY <1>1, <1>3, <1>4 DEF CarefulInv, ReasoningBudgetUsages, ReasoningBudgets

(* What slipped stays on record. *)
LEMMA SlipsStay == [Next]_vars /\ slips' = {} => slips = {}
  BY DEF Next, Tick, Cancel, Work, ReplanFallbackRoute, Slip, vars

(* Nothing is spent when the first route begins. *)
LEMMA PromiseInit == Init => Promise!Init
  <1> SUFFICES ASSUME Init PROVE Promise!Init
    OBVIOUS
  <1>1. request.reasoning_budget.max \in Counters /\ spent = NoCost
    BY SessionAssumption DEF Init, ReasoningBudgets
  <1>2. QED
    BY <1>1 DEF Promise!Init, NoCost, Counters

(* Work is spending, a replan is narrowing, the rest stutters. *)
LEMMA CarefulStep == CarefulInv /\ CarefulInv' /\ [Next]_vars => [Promise!Next]_Promise!vars
  <1> SUFFICES ASSUME CarefulInv, CarefulInv', [Next]_vars
               PROVE  [Promise!Next]_Promise!vars
    OBVIOUS
  <1>1. IInv /\ spent \in Counters
    BY DEF CarefulInv
  <1>2. /\ request'.reasoning_budget.max \in Counters /\ spent' \in Counters
        /\ \A k \in Dimension : spent'[k] <= request'.reasoning_budget.max[k]
    BY DEF CarefulInv
  <1>3. CASE Tick \/ Cancel \/ UNCHANGED vars
    BY <1>3 DEF Tick, Cancel, vars, Promise!vars
  <1>4. ASSUME NEW i \in DOMAIN routes, NEW to \in NextState, NEW delta \in Delta \cup {NoCost},
               Work(i, to, delta)
        PROVE  Promise!Spend
    <2>1. delta \in Counters
      BY SessionAssumption DEF NoCost, Counters
    <2>2. spent' = Charged(spent, delta) /\ request' = request
      BY <1>4 DEF Work
    <2>3. \A k \in Dimension : spent[k] <= spent'[k]
      BY <1>1, <2>1, <2>2, ChargedFacts
    <2>4. QED
      BY <1>2, <2>2, <2>3 DEF Promise!Spend, Promise!Below, Counters
  <1>5. ASSUME NEW in \in ReplanInputs, NEW ledger \in ledgers, NEW fresh \in BOOLEAN,
               ReplanFallbackRoute(in, ledger, fresh)
        PROVE  Promise!Narrow
    <2>1. /\ request' = in.request /\ spent' = spent
          /\ CanReplan(request, Present.decision, ledger, Evaluation, in, now)
      BY <1>5 DEF ReplanFallbackRoute
    <2>2. \A k \in Dimension :
            in.request.reasoning_budget.max[k] <= Present.decision.reasoning_budget.max[k]
      BY <1>1, <2>1, ReplanFacts
    <2>3. Present.decision.reasoning_budget = request.reasoning_budget
      BY <1>1 DEF IInv, RoutesInv
    <2>4. QED
      BY <1>2, <2>1, <2>2, <2>3 DEF Promise!Narrow, Promise!Below, Counters
  <1>6. QED
    BY <1>3, <1>4, <1>5 DEF Next, Promise!Next

(* As long as nothing slips, a session implements BoundedSpending, step by   *)
(* step and for any number of routes.                                        *)
THEOREM CarefulSpendingHolds == Spec => CarefulSpending
  <1>1. [Next]_vars => (slips' = {} => (slips = {}) /\ (slips = {})')
    BY SlipsStay
  <1>2. QED
    BY <1>1, WithinPresentCeilings, PromiseInit, CarefulStep, Invariance, PTL
    DEF Spec, CarefulSpending

(* A session of careful callers implements BoundedSpending.                 *)
THEOREM CarefulSessionImplements == CarefulSpec => Promise!Spec
  <1>1. [Next /\ slips' = {}]_vars => [Next]_vars
    OBVIOUS
  <1>2. Init => (slips = {})
    BY DEF Init
  <1>3. (slips = {}) /\ [Next /\ slips' = {}]_vars => (slips = {})'
    BY DEF vars
  <1>4. QED
    BY <1>1, <1>2, <1>3, WithinPresentCeilings, PromiseInit, CarefulStep, InitEstablishes,
       NextPreserves, PTL DEF CarefulSpec, Promise!Spec

-----------------------------------------------------------------------------
(* Whatever slips: all routes together.  What n routes have used of a         *)
(* counter is counted in units, pairs of a route and a number up to what it   *)
(* used, so that sums over routes are cardinalities.                         *)

Units(n, m, used) == {u \in (1..n) \X (1..m) : u[2] <= used[u[1]]}

UsedOf(rs, k) == [i \in 1..Len(rs) |-> rs[i].lifecycle.budget_state.usage.used[k]]

(* n routes that use up to m each use up to n * m. *)
LEMMA UnitsBounded ==
  ASSUME NEW n \in Nat, NEW m \in Nat, NEW used
  PROVE  /\ IsFiniteSet(Units(n, m, used))
         /\ Cardinality(Units(n, m, used)) \in Nat
         /\ Cardinality(Units(n, m, used)) <= n * m
  <1> DEFINE I == 1..n
             J == 1..m
  <1>1. IsFiniteSet(I) /\ Cardinality(I) = n /\ IsFiniteSet(J) /\ Cardinality(J) = m
    BY FS_Interval
  <1>2. IsFiniteSet(I \X J) /\ Cardinality(I \X J) = n * m
    <2> HIDE DEF I, J
    <2>1. IsFiniteSet(I \X J) /\ Cardinality(I \X J) = Cardinality(I) * Cardinality(J)
      BY <1>1, FS_Product
    <2>2. QED
      BY <1>1, <2>1
  <1>3. Units(n, m, used) \in SUBSET (I \X J)
    BY DEF Units
  <1>4. /\ IsFiniteSet(Units(n, m, used))
        /\ Cardinality(Units(n, m, used)) <= Cardinality(I \X J)
    BY <1>2, <1>3, FS_Subset
  <1>5. QED
    BY <1>2, <1>4, FS_CardinalityType

(* A route that uses d more adds d units. *)
LEMMA UnitsGrow ==
  ASSUME NEW n \in Nat, NEW m \in Nat, NEW i \in 1..n, NEW d \in Nat,
         NEW before \in [1..n -> 0..m], NEW after \in [1..n -> 0..m],
         after[i] = before[i] + d, \A j \in 1..n : j # i => after[j] = before[j]
  PROVE  Cardinality(Units(n, m, after)) = Cardinality(Units(n, m, before)) + d
  <1> DEFINE U == Units(n, m, before)
             gained == (before[i] + 1)..(before[i] + d)
             A == {i} \X gained
  <1>1. before[i] \in Nat /\ before[i] + d <= m
    OBVIOUS
  <1>2. IsFiniteSet(gained) /\ Cardinality(gained) = d
    <2> DEFINE a == before[i] + 1
               b == before[i] + d
    <2>1. a \in Int /\ b \in Int /\ (IF a > b THEN 0 ELSE b - a + 1) = d
      BY <1>1
    <2>2. gained = a..b
      OBVIOUS
    <2> HIDE DEF a, b, gained
    <2>3. QED
      BY <2>1, <2>2, FS_Interval
  <1>3. IsFiniteSet({i}) /\ Cardinality({i}) = 1
    BY FS_Singleton
  <1>4. IsFiniteSet(A) /\ Cardinality(A) = d
    <2> HIDE DEF gained
    <2>1. IsFiniteSet(A) /\ Cardinality(A) = Cardinality({i}) * Cardinality(gained)
      BY <1>2, <1>3, FS_Product
    <2>2. QED
      BY <1>2, <1>3, <2>1
  <1>5. IsFiniteSet(U) /\ Cardinality(U) \in Nat
    BY UnitsBounded
  <1>6. Units(n, m, after) = U \cup A
    <2>1. ASSUME NEW u \in Units(n, m, after) PROVE u \in U \cup A
      <3>1. u \in (1..n) \X (1..m) /\ u[2] <= after[u[1]]
        BY DEF Units
      <3>2. u = <<u[1], u[2]>> /\ u[1] \in 1..n /\ u[2] \in 1..m
        BY <3>1
      <3>3. CASE u[1] = i /\ ~(u[2] <= before[i])
        BY <1>1, <3>1, <3>2, <3>3
      <3>4. CASE ~(u[1] = i /\ ~(u[2] <= before[i]))
        BY <3>1, <3>2, <3>4 DEF Units
      <3>5. QED
        BY <3>3, <3>4
    <2>2. U \subseteq Units(n, m, after)
      <3>1. ASSUME NEW j \in 1..n
            PROVE  before[j] <= after[j] /\ before[j] \in Nat /\ after[j] \in Nat
        <4>1. before[j] \in 0..m /\ after[j] \in 0..m
          OBVIOUS
        <4>2. before[j] <= after[j]
          BY <1>1, <4>1
        <4>3. QED
          BY <4>1, <4>2
      <3>2. QED
        BY <3>1 DEF Units
    <2>3. A \subseteq Units(n, m, after)
      BY <1>1 DEF Units
    <2>4. QED
      BY <2>1, <2>2, <2>3
  <1>7. U \cap A = {}
    BY <1>1 DEF Units
  <1> HIDE DEF A, U, gained
  <1>8. Cardinality(U \cup A) = Cardinality(U) + Cardinality(A) - Cardinality(U \cap A)
    BY <1>4, <1>5, FS_Union
  <1>9. Cardinality({}) = 0
    BY FS_EmptySet
  <1>10. Cardinality(U \cup A) = Cardinality(U) + d
    <2>1. Cardinality(U \cap A) = 0
      BY <1>7, <1>9
    <2>2. QED
      BY <1>4, <1>5, <1>8, <2>1
  <1>11. QED
    BY <1>6, <1>10 DEF U

(* One more route takes no unit away. *)
LEMMA UnitsOfMore ==
  ASSUME NEW n \in Nat, NEW m \in Nat, NEW before, NEW after,
         \A j \in 1..n : after[j] = before[j]
  PROVE  Cardinality(Units(n, m, before)) <= Cardinality(Units(n + 1, m, after))
  <1>1. IsFiniteSet(Units(n + 1, m, after))
    BY UnitsBounded
  <1>2. Units(n, m, before) \in SUBSET Units(n + 1, m, after)
    BY DEF Units
  <1>3. QED
    BY <1>1, <1>2, FS_Subset

(* No route uses more of a counter than the first request was admitted with. *)
LEMMA RouteUses ==
  ASSUME NEW first, first.reasoning_budget \in ReasoningBudgets, NEW rs \in Seq(RouteRecords),
         \A i \in 1..Len(rs) : RouteFits(first, rs[i]), NEW k \in Dimension
  PROVE  /\ UsedOf(rs, k) \in [1..Len(rs) -> 0..first.reasoning_budget.max[k]]
         /\ first.reasoning_budget.max[k] \in Nat
  <1>1. first.reasoning_budget.max[k] \in Nat
    BY DEF ReasoningBudgets, Counters
  <1>2. ASSUME NEW i \in 1..Len(rs)
        PROVE  rs[i].lifecycle.budget_state.usage.used[k] \in 0..first.reasoning_budget.max[k]
    <2> DEFINE usage == rs[i].lifecycle.budget_state.usage
    <2>1. rs[i] \in RouteRecords /\ RouteFits(first, rs[i])
      OBVIOUS
    <2>2. usage \in ReasoningBudgetUsages /\ usage.budget = rs[i].decision.reasoning_budget
      BY <2>1 DEF RouteRecords, RouteFits, LifecycleSnapshots, Ledgers, LedgerMatches
    <2>3. usage.budget.max[k] <= first.reasoning_budget.max[k]
      BY <2>1, <2>2 DEF RouteFits
    <2> HIDE DEF usage
    <2>4. usage.used[k] \in Nat /\ usage.budget.max[k] \in Nat
      BY <2>2 DEF ReasoningBudgetUsages, ReasoningBudgets, Counters
    <2>5. ~(usage.used[k] > usage.budget.max[k])
      BY <2>2 DEF ReasoningBudgetUsages, ExceededDimensions
    <2>6. usage.used[k] \in 0..first.reasoning_budget.max[k]
      BY <1>1, <2>3, <2>4, <2>5
    <2>7. QED
      BY <2>6 DEF usage
  <1>3. QED
    BY <1>1, <1>2 DEF UsedOf

(* The work done is covered by what the routes have used. *)
WorkInv ==
  \A k \in Dimension :
    spent[k] <= IF k = BranchDepth THEN root.reasoning_budget.max[k]
                ELSE Cardinality(Units(Len(routes), root.reasoning_budget.max[k], UsedOf(routes, k)))

LEMMA RoutesUse ==
  ASSUME IInv, NEW k \in Dimension
  PROVE  /\ UsedOf(routes, k) \in [1..Len(routes) -> 0..root.reasoning_budget.max[k]]
         /\ root.reasoning_budget.max[k] \in Nat
         /\ Len(routes) \in Nat /\ Len(routes) > 0
  <1>1. root.reasoning_budget \in ReasoningBudgets
    BY SessionAssumption DEF IInv, SessionInv
  <1>2. Len(routes) \in Nat /\ Len(routes) > 0
    BY DEF IInv, RoutesInv
  <1>3. QED
    BY <1>1, <1>2, RouteUses DEF IInv, RoutesInv

LEMMA InitWork == Init => WorkInv
  <1> SUFFICES ASSUME Init, NEW k \in Dimension
               PROVE  spent[k] <= IF k = BranchDepth THEN root.reasoning_budget.max[k]
                                  ELSE Cardinality(Units(Len(routes), root.reasoning_budget.max[k],
                                                         UsedOf(routes, k)))
    BY DEF WorkInv
  <1>1. spent[k] = 0
    BY DEF Init, NoCost
  <1>2. root.reasoning_budget.max[k] \in Nat /\ Len(routes) \in Nat
    BY InitEstablishes, RoutesUse
  <1>3. Cardinality(Units(Len(routes), root.reasoning_budget.max[k], UsedOf(routes, k))) \in Nat
    BY <1>2, UnitsBounded
  <1>4. QED
    BY <1>1, <1>2, <1>3

(* Work of any route is covered by that route. *)
LEMMA WorkCovers ==
  ASSUME IInv, IInv', WorkInv, NEW i \in DOMAIN routes, NEW to,
         NEW delta \in Delta \cup {NoCost}, Work(i, to, delta)
  PROVE  WorkInv'
  <1> DEFINE n == Len(routes)
             used == routes[i].lifecycle.budget_state.usage.used
  <1>1. /\ routes \in Seq(RouteRecords) /\ n \in Nat /\ i \in 1..n
        /\ routes[i] \in RouteRecords /\ delta \in Counters /\ spent \in Counters
    BY SessionAssumption DEF IInv, RoutesInv, SessionInv, NoCost, Counters
  <1>2. /\ CanTransition(routes[i].decision, routes[i].lifecycle, to, delta)
        /\ routes' = [routes EXCEPT ![i].lifecycle = NextSnapshot(routes[i].lifecycle, to, delta)]
        /\ spent' = Charged(spent, delta) /\ root' = root
    BY DEF Work
  <1>3. routes[i].lifecycle \in LifecycleSnapshots
    BY <1>1 DEF RouteRecords
  <1>4. used \in Counters
    BY <1>3 DEF LifecycleSnapshots, Ledgers, ReasoningBudgetUsages
  <1>5. NextSnapshot(routes[i].lifecycle, to, delta).budget_state.usage.used = Charged(used, delta)
    BY <1>1, <1>2, <1>3, TransitionCharges
  <1>6. /\ Len(routes') = n
        /\ routes'[i].lifecycle = NextSnapshot(routes[i].lifecycle, to, delta)
        /\ \A j \in 1..n : j # i => routes'[j] = routes[j]
    BY <1>1, <1>2 DEF RouteRecords
  <1> HIDE DEF used
  <1>7. SUFFICES ASSUME NEW k \in Dimension
                 PROVE  spent'[k] <= IF k = BranchDepth THEN root.reasoning_budget.max[k]
                                     ELSE Cardinality(Units(n, root.reasoning_budget.max[k],
                                                            UsedOf(routes', k)))
    BY <1>2, <1>6 DEF WorkInv
  <1> DEFINE m == root.reasoning_budget.max[k]
             before == UsedOf(routes, k)
             after == UsedOf(routes', k)
  <1>8. before \in [1..n -> 0..m] /\ m \in Nat
    BY RoutesUse
  <1>9. after \in [1..n -> 0..m]
    <2>1. root'.reasoning_budget \in ReasoningBudgets
      BY SessionAssumption DEF IInv, SessionInv
    <2>2. /\ routes' \in Seq(RouteRecords)
          /\ \A j \in 1..Len(routes') : RouteFits(root', routes'[j])
      BY DEF IInv, RoutesInv
    <2>3. UsedOf(routes', k) \in [1..Len(routes') -> 0..root'.reasoning_budget.max[k]]
      BY <2>1, <2>2, RouteUses
    <2>4. QED
      BY <1>2, <1>6, <2>3
  <1>10. /\ before[i] = used[k] /\ after[i] = Charged(used, delta)[k]
         /\ \A j \in 1..n : j # i => after[j] = before[j]
    BY <1>1, <1>5, <1>6 DEF UsedOf, used
  <1>11. used[k] \in Nat /\ delta[k] \in Nat /\ spent[k] \in Nat
    BY <1>1, <1>4 DEF Counters
  <1> HIDE DEF before, after, m
  <1>12. CASE k = BranchDepth
    <2>1. spent[k] <= m
      BY <1>12 DEF WorkInv, m
    <2>2. delta[k] <= after[i]
      BY <1>10, <1>11, <1>12 DEF Charged
    <2>3. after[i] \in Nat /\ after[i] <= m
      BY <1>1, <1>8, <1>9
    <2>4. spent'[k] = IF delta[k] > spent[k] THEN delta[k] ELSE spent[k]
      BY <1>2, <1>12 DEF Charged
    <2>5. spent'[k] <= m
      BY <1>8, <1>11, <2>1, <2>2, <2>3, <2>4
    <2>6. QED
      BY <1>12, <2>5 DEF m
  <1>13. CASE k # BranchDepth
    <2>1. spent[k] <= Cardinality(Units(n, m, before))
      BY <1>13 DEF WorkInv, m, before
    <2>2. after[i] = before[i] + delta[k] /\ spent'[k] = spent[k] + delta[k]
      BY <1>2, <1>10, <1>13 DEF Charged
    <2>3. Cardinality(Units(n, m, after)) = Cardinality(Units(n, m, before)) + delta[k]
      BY <1>1, <1>8, <1>9, <1>10, <1>11, <2>2, UnitsGrow
    <2>4. Cardinality(Units(n, m, before)) \in Nat
      BY <1>1, <1>8, UnitsBounded
    <2>5. spent'[k] <= Cardinality(Units(n, m, after))
      BY <1>11, <2>1, <2>2, <2>3, <2>4
    <2>6. QED
      BY <1>13, <2>5 DEF m, after
  <1>14. QED
    BY <1>12, <1>13

(* A new route covers no less, however its lifecycle is begun. *)
LEMMA ReplanCovers ==
  ASSUME IInv, WorkInv, NEW in \in ReplanInputs, NEW ledger \in ledgers, NEW fresh \in BOOLEAN,
         ReplanFallbackRoute(in, ledger, fresh)
  PROVE  WorkInv'
  <1>1. UNCHANGED <<root, spent>> /\ \E route : routes' = Append(routes, route)
    BY DEF ReplanFallbackRoute
  <1>2. routes \in Seq(RouteRecords) /\ Len(routes) \in Nat /\ spent \in Counters
    BY DEF IInv, RoutesInv, SessionInv
  <1>3. /\ Len(routes') = Len(routes) + 1
        /\ \A j \in 1..Len(routes) : routes'[j] = routes[j]
    BY <1>1, <1>2
  <1>4. SUFFICES ASSUME NEW k \in Dimension
                 PROVE  spent[k] <= IF k = BranchDepth THEN root.reasoning_budget.max[k]
                                    ELSE Cardinality(Units(Len(routes) + 1,
                                                           root.reasoning_budget.max[k],
                                                           UsedOf(routes', k)))
    BY <1>1, <1>3 DEF WorkInv
  <1> DEFINE m == root.reasoning_budget.max[k]
             old == Cardinality(Units(Len(routes), m, UsedOf(routes, k)))
             new == Cardinality(Units(Len(routes) + 1, m, UsedOf(routes', k)))
  <1>5. spent[k] <= IF k = BranchDepth THEN m ELSE old
    BY DEF WorkInv
  <1>6. \A j \in 1..Len(routes) : UsedOf(routes', k)[j] = UsedOf(routes, k)[j]
    BY <1>2, <1>3 DEF UsedOf
  <1>7. m \in Nat
    BY RoutesUse
  <1> HIDE DEF m
  <1>8. old <= new
    BY <1>2, <1>6, <1>7, UnitsOfMore
  <1>9. old \in Nat /\ new \in Nat /\ spent[k] \in Nat
    BY <1>2, <1>7, UnitsBounded DEF Counters
  <1> HIDE DEF old, new
  <1>10. spent[k] <= IF k = BranchDepth THEN m ELSE new
    BY <1>5, <1>7, <1>8, <1>9
  <1>11. QED
    BY <1>10 DEF m, new

LEMMA NextCovers == IInv /\ IInv' /\ WorkInv /\ [Next]_vars => WorkInv'
  <1> SUFFICES ASSUME IInv, IInv', WorkInv, [Next]_vars PROVE WorkInv'
    OBVIOUS
  <1>1. CASE Tick \/ Cancel \/ UNCHANGED vars
    BY <1>1 DEF Tick, Cancel, vars, WorkInv
  <1>2. ASSUME NEW i \in DOMAIN routes, NEW to \in NextState, NEW delta \in Delta \cup {NoCost},
               Work(i, to, delta)
        PROVE  WorkInv'
    BY <1>2, WorkCovers
  <1>3. ASSUME NEW in \in ReplanInputs, NEW ledger \in ledgers, NEW fresh \in BOOLEAN,
               ReplanFallbackRoute(in, ledger, fresh)
        PROVE  WorkInv'
    BY <1>3, ReplanCovers
  <1>4. QED
    BY <1>1, <1>2, <1>3 DEF Next

(* Whatever callers let slip, n routes do at most n times the work that was   *)
(* first admitted, and none goes deeper than one may.                        *)
THEOREM EveryRouteIsBoundedHolds == Spec => []EveryRouteIsBounded
  <1>1. Spec => []WorkInv
    BY Invariance, InitWork, NextCovers, PTL DEF Spec
  <1>2. IInv /\ WorkInv => EveryRouteIsBounded
    <2> SUFFICES ASSUME IInv, WorkInv, NEW k \in Dimension
                 PROVE  spent[k] <= (IF k = BranchDepth THEN 1 ELSE Len(routes))
                                      * root.reasoning_budget.max[k]
      BY DEF EveryRouteIsBounded
    <2> DEFINE m == root.reasoning_budget.max[k]
               units == Cardinality(Units(Len(routes), m, UsedOf(routes, k)))
    <2>1. m \in Nat /\ Len(routes) \in Nat /\ spent[k] \in Nat
      BY RoutesUse DEF IInv, SessionInv, Counters
    <2>2. spent[k] <= IF k = BranchDepth THEN m ELSE units
      BY DEF WorkInv
    <2> HIDE DEF m
    <2>3. units \in Nat /\ units <= Len(routes) * m
      BY <2>1, UnitsBounded
    <2> HIDE DEF units
    <2>4. CASE k = BranchDepth
      BY <2>1, <2>2, <2>4 DEF m
    <2>5. CASE k # BranchDepth
      <3>1. Len(routes) * m \in Nat
        BY <2>1
      <3>2. spent[k] <= Len(routes) * m
        BY <2>1, <2>2, <2>3, <2>5, <3>1
      <3>3. QED
        BY <2>5, <3>2 DEF m
    <2>6. QED
      BY <2>4, <2>5
  <1>3. QED
    BY <1>1, <1>2, Invariance, PTL

=============================================================================
