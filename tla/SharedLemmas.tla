------------------------------ MODULE SharedLemmas ------------------------------
(***************************************************************************)
(* What consuming a budget, a transition of a lifecycle and evaluating the   *)
(* stop conditions return, for every set of counters, lifecycle state and    *)
(* instant: the lemmas that the proofs about components share.               *)
(***************************************************************************)
EXTENDS LifecycleGraph, TerminationRequirement, TLAPS

-----------------------------------------------------------------------------
(* Budgets. *)

(* Charging counters gives counters, none of them smaller than before. *)
LEMMA ChargedFacts ==
  ASSUME NEW used \in Counters, NEW delta \in Counters
  PROVE  /\ Charged(used, delta) \in Counters
         /\ \A k \in Dimension : used[k] <= Charged(used, delta)[k]
  BY DEF Charged, Counters

(* Charging nothing changes nothing. *)
LEMMA ChargedNoCost ==
  ASSUME NEW used \in Counters
  PROVE  NoCost \in Counters /\ Charged(used, NoCost) = used
  <1>1. NoCost \in Counters
    BY DEF NoCost, Counters
  <1>2. Charged(used, NoCost) = [k \in Dimension |-> used[k]]
    BY DEF Charged, NoCost, Counters
  <1>3. QED
    BY <1>1, <1>2 DEF Counters

(* A consumption that succeeds returns a usage of the same budget, inside   *)
(* its ceilings, with no counter smaller and every exhausted counter still  *)
(* exhausted (consume_reasoning_budget).                                    *)
LEMMA ConsumedFacts ==
  ASSUME NEW usage \in ReasoningBudgetUsages, NEW delta \in Counters,
         CanConsume(usage, delta)
  PROVE  /\ Consumed(usage, delta) \in ReasoningBudgetUsages
         /\ Consumed(usage, delta).budget = usage.budget
         /\ \A k \in Dimension : usage.used[k] <= Consumed(usage, delta).used[k]
         /\ ExhaustedDimensions(usage) \subseteq ExhaustedDimensions(Consumed(usage, delta))
  <1> DEFINE new == Consumed(usage, delta)
  <1>1. usage \in [budget : ReasoningBudgets, used : Counters]
    BY DEF ReasoningBudgetUsages
  <1>2. /\ new = [budget |-> usage.budget, used |-> Charged(usage.used, delta)]
        /\ usage.used \in Counters
    BY <1>1 DEF Consumed
  <1>3. /\ Charged(usage.used, delta) \in Counters
        /\ \A k \in Dimension : usage.used[k] <= Charged(usage.used, delta)[k]
    BY <1>2, ChargedFacts
  <1>4. ExceededDimensions(new.budget, new.used) = {}
    BY <1>2 DEF CanConsume
  <1>5. new \in ReasoningBudgetUsages
    BY <1>1, <1>2, <1>3, <1>4 DEF ReasoningBudgetUsages
  <1>6. ASSUME NEW k \in ExhaustedDimensions(usage)
        PROVE  k \in ExhaustedDimensions(new)
    <2>1. k \in Dimension /\ usage.used[k] = usage.budget.max[k]
      BY <1>6 DEF ExhaustedDimensions
    <2>2. ~(new.used[k] > new.budget.max[k])
      BY <2>1, <1>4 DEF ExceededDimensions
    <2>3. usage.used[k] \in Nat /\ new.used[k] \in Nat /\ usage.used[k] <= new.used[k]
      BY <2>1, <1>2, <1>3 DEF Counters
    <2>4. QED
      BY <2>1, <2>2, <2>3, <1>2 DEF ExhaustedDimensions
  <1>7. QED
    BY <1>2, <1>3, <1>5, <1>6

(* Two charges come to the same in either order, the high-water mark        *)
(* included, and whoever can pay both in one order can pay them in the other: *)
(* which of two pieces of work is reported first neither changes the ledger  *)
(* nor decides whether one of them is refused (consume_reasoning_budget).    *)
THEOREM ChargesCommute ==
  ASSUME NEW usage \in ReasoningBudgetUsages, NEW first \in Counters, NEW second \in Counters,
         CanConsume(usage, first), CanConsume(Consumed(usage, first), second)
  PROVE  /\ CanConsume(usage, second)
         /\ CanConsume(Consumed(usage, second), first)
         /\ Consumed(Consumed(usage, second), first) = Consumed(Consumed(usage, first), second)
  <1> DEFINE u == usage.used
             both == Charged(Charged(u, first), second)
  <1>1. /\ usage \in [budget : ReasoningBudgets, used : Counters]
        /\ u \in Counters /\ usage.budget.max \in Counters
    BY DEF ReasoningBudgetUsages, ReasoningBudgets
  <1>2. \A delta \in Counters :
          /\ Consumed(usage, delta).used = Charged(u, delta)
          /\ Consumed(usage, delta).budget = usage.budget
          /\ Consumed(usage, delta) \in [budget : ReasoningBudgets, used : Counters]
    BY <1>1, ChargedFacts DEF Consumed
  <1>3. Charged(Charged(u, second), first) = both
    <2>1. /\ Charged(u, first) \in Counters /\ Charged(u, second) \in Counters
          /\ both \in Counters /\ Charged(Charged(u, second), first) \in Counters
      BY <1>1, ChargedFacts
    <2>2. \A k \in Dimension : Charged(Charged(u, second), first)[k] = both[k]
      BY <1>1 DEF Charged, Counters
    <2>3. QED
      BY <2>1, <2>2 DEF Counters
  <1>4. \A k \in Dimension : both[k] <= usage.budget.max[k]
    <2>1. ExceededDimensions(usage.budget, both) = {}
      BY <1>2 DEF CanConsume
    <2>2. both \in Counters
      BY <1>1, ChargedFacts
    <2>3. QED
      BY <1>1, <2>1, <2>2 DEF ExceededDimensions, Counters
  <1>5. CanConsume(usage, second)
    <2>1. Charged(u, second) \in Counters /\ both \in Counters
      BY <1>1, ChargedFacts
    <2>2. \A k \in Dimension : Charged(u, second)[k] <= both[k]
      BY <1>1, <1>3, <2>1, ChargedFacts
    <2>3. \A k \in Dimension :
            /\ Charged(u, second)[k] \in Nat /\ both[k] \in Nat /\ usage.budget.max[k] \in Nat
            /\ Charged(u, second)[k] <= both[k] /\ both[k] <= usage.budget.max[k]
      <3> HIDE DEF both
      <3>1. QED
        BY <1>1, <1>4, <2>1, <2>2 DEF Counters
    <2>4. \A k \in Dimension : ~(Charged(u, second)[k] > usage.budget.max[k])
      <3> SUFFICES ASSUME NEW k \in Dimension
                   PROVE  ~(Charged(u, second)[k] > usage.budget.max[k])
        OBVIOUS
      <3> DEFINE one == Charged(u, second)[k]
                 two == both[k]
                 max == usage.budget.max[k]
      <3>1. one \in Nat /\ two \in Nat /\ max \in Nat /\ one <= two /\ two <= max
        BY <2>3
      <3> HIDE DEF one, two, max
      <3>2. ~(one > max)
        BY <3>1
      <3>3. QED
        BY <3>2 DEF one, max
    <2>5. ExceededDimensions(usage.budget, Charged(u, second)) = {}
      BY <2>4 DEF ExceededDimensions
    <2>6. QED
      BY <2>5 DEF CanConsume
  <1>6. CanConsume(Consumed(usage, second), first)
    <2>1. ExceededDimensions(usage.budget, both) = {}
      BY <1>2 DEF CanConsume
    <2>2. QED
      BY <1>2, <1>3, <2>1 DEF CanConsume
  <1>7. Consumed(Consumed(usage, second), first) = Consumed(Consumed(usage, first), second)
    <2>1. \A v \in [budget : ReasoningBudgets, used : Counters], delta \in Counters :
            Consumed(v, delta) = [budget |-> v.budget, used |-> Charged(v.used, delta)]
      BY DEF Consumed
    <2>2. QED
      BY <1>1, <1>2, <1>3, <2>1
  <1>8. QED
    BY <1>5, <1>6, <1>7

(* A ledger can always pay nothing, even with every counter at its ceiling. *)
LEMMA NothingIsAffordable ==
  ASSUME NEW usage \in ReasoningBudgetUsages
  PROVE  CanConsume(usage, NoCost)
  BY ChargedNoCost DEF CanConsume, ReasoningBudgetUsages

-----------------------------------------------------------------------------
(* Ledgers and snapshots. *)

(* A budget covers having used nothing. *)
LEMMA ZeroLedgerFacts ==
  ASSUME NEW decision, decision.decision_id \in DecisionId,
         decision.reasoning_budget \in ReasoningBudgets
  PROVE  /\ ZeroLedger(decision) \in Ledgers
         /\ LedgerMatches(decision, ZeroLedger(decision))
         /\ ZeroLedger(decision).usage.used = NoCost
         /\ NoCost \in Counters
  <1>1. NoCost \in Counters
    BY DEF NoCost, Counters
  <1>2. ExceededDimensions(decision.reasoning_budget, NoCost) = {}
    BY DEF ExceededDimensions, NoCost, ReasoningBudgets, Counters
  <1>3. QED
    BY <1>1, <1>2 DEF ZeroLedger, Ledgers, ReasoningBudgetUsages, LedgerMatches

(* An edge leads to a state that is not the first one. *)
LEMMA EdgeFacts ==
  ASSUME NEW from, NEW to, CanTransitionState(from, to)
  PROVE  to \in ReasoningState /\ to # "ADMITTED" /\ from \notin TerminalState
  BY DEF CanTransitionState, AllowedTransitions, WorkTransitions, CommonStopState,
         ReasoningState, WorkState, TerminalState

(* What a transition charges: the same budget, nothing beyond its ceilings, *)
(* no counter smaller.                                                      *)
LEMMA TransitionCharges ==
  ASSUME NEW s \in LifecycleSnapshots, NEW decision, NEW to, NEW delta \in Counters,
         CanTransition(decision, s, to, delta)
  PROVE  LET u == s.budget_state.usage
             v == NextSnapshot(s, to, delta).budget_state.usage
         IN /\ v = Consumed(u, delta)
            /\ v \in ReasoningBudgetUsages
            /\ v.budget = u.budget
            /\ v.used = Charged(u.used, delta)
            /\ \A k \in Dimension : u.used[k] <= v.used[k]
            /\ ExhaustedDimensions(u) \subseteq ExhaustedDimensions(v)
  <1> DEFINE u == s.budget_state.usage
             v == Consumed(u, delta)
  <1>1. u \in ReasoningBudgetUsages
    BY DEF LifecycleSnapshots, Ledgers
  <1>2. CanConsume(u, delta)
    BY DEF CanTransition, CanConsumeLedger
  <1>3. /\ v \in ReasoningBudgetUsages
        /\ v.budget = u.budget
        /\ \A k \in Dimension : u.used[k] <= v.used[k]
        /\ ExhaustedDimensions(u) \subseteq ExhaustedDimensions(v)
    BY <1>1, <1>2, ConsumedFacts
  <1>4. v.used = Charged(u.used, delta)
    BY <1>1 DEF Consumed, ReasoningBudgetUsages
  <1>5. NextSnapshot(s, to, delta).budget_state.usage = v
    BY DEF NextSnapshot, ConsumedLedger, LifecycleSnapshots, Ledgers
  <1>6. QED
    BY <1>3, <1>4, <1>5

(* A successful transition returns a well-formed snapshot that comes next in *)
(* the same lifecycle.                                                      *)
LEMMA TransitionFacts ==
  ASSUME NEW s \in LifecycleSnapshots, NEW decision, NEW to, NEW delta \in Counters,
         CanTransition(decision, s, to, delta)
  PROVE  /\ NextSnapshot(s, to, delta) \in LifecycleSnapshots
         /\ NextSnapshot(s, to, delta).routing_decision_id = s.routing_decision_id
         /\ NextSnapshot(s, to, delta).correlation_id = s.correlation_id
         /\ NextSnapshot(s, to, delta).sequence = s.sequence + 1
         /\ NextSnapshot(s, to, delta).previous_state = s.state
         /\ NextSnapshot(s, to, delta).state = to
         /\ ~IsTerminal(s)
  <1> DEFINE n == NextSnapshot(s, to, delta)
             v == n.budget_state.usage
  <1>1. /\ s.budget_state \in Ledgers
        /\ s.sequence \in Nat
        /\ s.state \in ReasoningState
        /\ s.budget_state.decision_id = s.routing_decision_id
    BY DEF LifecycleSnapshots
  <1>2. CanTransitionState(s.state, to)
    BY DEF CanTransition
  <1>3. v \in ReasoningBudgetUsages
    BY TransitionCharges
  <1>4. /\ n.budget_state = [decision_id |-> s.routing_decision_id, usage |-> v]
        /\ n.routing_decision_id = s.routing_decision_id
        /\ n.correlation_id = s.correlation_id
        /\ n.sequence = s.sequence + 1
        /\ n.previous_state = s.state
        /\ n.state = to
    BY <1>1 DEF NextSnapshot, ConsumedLedger, LifecycleSnapshots, Ledgers
  <1>5. to # "ADMITTED" /\ to \in ReasoningState /\ ~IsTerminal(s)
    BY <1>2, EdgeFacts DEF IsTerminal
  <1>6. n \in [routing_decision_id : DecisionId, correlation_id : CorrelationId,
               sequence : Nat, previous_state : ReasoningState \cup {NoState},
               state : ReasoningState, budget_state : Ledgers]
    <2>1. n.budget_state \in Ledgers
      BY <1>1, <1>3, <1>4 DEF Ledgers, LifecycleSnapshots
    <2>2. s \in [routing_decision_id : DecisionId, correlation_id : CorrelationId,
                sequence : Nat, previous_state : ReasoningState \cup {NoState},
                state : ReasoningState, budget_state : Ledgers]
      BY DEF LifecycleSnapshots
    <2>3. /\ n = [s EXCEPT !.sequence = s.sequence + 1, !.previous_state = s.state,
                         !.state = to, !.budget_state = n.budget_state]
          /\ s.sequence + 1 \in Nat
      BY <1>1, <2>2 DEF NextSnapshot
    <2>4. QED
      BY <1>1, <1>5, <2>1, <2>2, <2>3
  <1>7. n \in LifecycleSnapshots
    BY <1>1, <1>2, <1>4, <1>5, <1>6 DEF LifecycleSnapshots
  <1>8. QED
    BY <1>4, <1>5, <1>7

(* A lifecycle starts with a well-formed snapshot that has used nothing. *)
LEMMA InitialSnapshotFacts ==
  ASSUME NEW decision, NEW c \in CorrelationId, decision.decision_id \in DecisionId,
         decision.reasoning_budget \in ReasoningBudgets
  PROVE  /\ InitialSnapshot(decision, c) \in LifecycleSnapshots
         /\ InitialSnapshot(decision, c).sequence = 0
         /\ InitialSnapshot(decision, c).state = "ADMITTED"
         /\ InitialSnapshot(decision, c).routing_decision_id = decision.decision_id
         /\ InitialSnapshot(decision, c).correlation_id = c
         /\ InitialSnapshot(decision, c).budget_state = ZeroLedger(decision)
         /\ InitialSnapshot(decision, c).budget_state.usage.used = NoCost
  <1>1. ZeroLedger(decision) \in Ledgers
    BY ZeroLedgerFacts
  <1>2. QED
    BY <1>1 DEF InitialSnapshot, LifecycleSnapshots, ZeroLedger, ReasoningState, WorkState

-----------------------------------------------------------------------------
(* Stop conditions. *)

(* evaluate_termination_requirement passes the checks of its constructor. *)
LEMMA RequirementType ==
  ASSUME NEW ended \in BOOLEAN, NEW at \in Time \cup {NoTime},
         NEW limit \in Time \cup {NoTime}, NEW n \in Time
  PROVE  /\ RequirementAt(ended, at, limit, n) \in Requirements
         /\ RequirementAt(ended, at, limit, n).evaluated_at = n
  <1> DEFINE r == RequirementAt(ended, at, limit, n)
             reason == StopReason(ended, at, limit, n)
             trigger == CASE reason = "TERMINAL_STATE" -> n
                          [] reason = "DEADLINE"       -> limit
                          [] reason = "CANCELLATION"   -> at
                          [] OTHER                     -> NoTime
  <1>1. r = [evaluated_at |-> n, required |-> reason # NoReason,
             reason |-> reason, triggered_at |-> trigger]
    BY DEF RequirementAt
  <1>2. /\ reason \in TerminationReason \cup {NoReason}
        /\ trigger \in Time \cup {NoTime}
        /\ trigger <= n
        /\ reason # NoReason <=> trigger # NoTime
    <2>1. CASE ended
      <3>1. reason = "TERMINAL_STATE" /\ trigger = n
        BY <2>1 DEF StopReason
      <3>2. QED
        BY <3>1 DEF TerminationReason, NoReason, NoTime, Time
    <2>2. CASE ~ended /\ Reached(limit, n) /\ (Reached(at, n) => limit <= at)
      <3>1. reason = "DEADLINE" /\ trigger = limit
        BY <2>2 DEF StopReason
      <3>2. QED
        BY <2>2, <3>1 DEF Reached, TerminationReason, PropagationReason, NoReason, NoTime, Time
    <2>3. CASE /\ ~ended /\ ~(Reached(limit, n) /\ (Reached(at, n) => limit <= at))
               /\ Reached(at, n)
      <3>1. reason = "CANCELLATION" /\ trigger = at
        BY <2>3 DEF StopReason
      <3>2. QED
        BY <2>3, <3>1 DEF Reached, TerminationReason, PropagationReason, NoReason, NoTime, Time
    <2>4. CASE ~ended /\ ~Reached(limit, n) /\ ~Reached(at, n)
      <3>1. reason = NoReason /\ trigger = NoTime
        BY <2>4 DEF StopReason, NoReason
      <3>2. QED
        BY <3>1 DEF NoReason, NoTime, Time
    <2>5. QED
      BY <2>1, <2>2, <2>3, <2>4
  <1> DEFINE needed == reason # NoReason
  <1>3. needed \in BOOLEAN /\ (needed <=> reason # NoReason)
    OBVIOUS
  <1>4. r = [evaluated_at |-> n, required |-> needed, reason |-> reason, triggered_at |-> trigger]
    BY <1>1
  <1> HIDE DEF trigger, reason, needed, r
  <1>5. r \in [evaluated_at : Time, required : BOOLEAN,
              reason : TerminationReason \cup {NoReason}, triggered_at : Time \cup {NoTime}]
    BY <1>2, <1>3, <1>4
  <1>6. /\ r.evaluated_at = n /\ (r.required <=> needed)
        /\ r.reason = reason /\ r.triggered_at = trigger
    BY <1>4
  <1>7. r \in Requirements /\ r.evaluated_at = n
    BY <1>2, <1>3, <1>5, <1>6 DEF Requirements
  <1>8. QED
    BY <1>7 DEF r

(* The three facts that an evaluation reports, and when it reports none.    *)
LEMMA StopReasonFacts ==
  ASSUME NEW ended \in BOOLEAN, NEW at \in Time \cup {NoTime},
         NEW limit \in Time \cup {NoTime}, NEW n \in Time,
         NEW r, r = RequirementAt(ended, at, limit, n)
  PROVE  /\ r.required <=> ended \/ Reached(limit, n) \/ Reached(at, n)
         /\ r.reason = "TERMINAL_STATE" <=> ended
         /\ r.reason = "DEADLINE" =>
              /\ r.triggered_at = limit
              /\ Reached(at, n) => limit <= at
         /\ r.reason = "CANCELLATION" =>
              /\ r.triggered_at = at /\ at # NoTime
              /\ Reached(limit, n) => at <= limit
  <1>1. /\ r.reason = StopReason(ended, at, limit, n)
        /\ r.required <=> r.reason # NoReason
        /\ r.reason = "DEADLINE" => r.triggered_at = limit
        /\ r.reason = "CANCELLATION" => r.triggered_at = at
    BY DEF RequirementAt
  <1>2. QED
    BY <1>1 DEF StopReason, Reached, NoReason, Time, NoTime

=============================================================================
