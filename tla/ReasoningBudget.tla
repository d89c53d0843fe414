--------------------------- MODULE ReasoningBudget ---------------------------
(***************************************************************************)
(* The budget arithmetic of budget.py and the ledger that routing.py binds *)
(* to one routing decision.  Every function of these files is pure: it     *)
(* returns a new immutable value or raises.  A function that can raise is  *)
(* modelled by two operators, the condition under which it returns (Can..) *)
(* and the value it then returns.                                          *)
(*                                                                         *)
(* The seven counters of the code are treated alike, except branch_depth,  *)
(* so a model names any set of counters with branch_depth in it.           *)
(***************************************************************************)
EXTENDS Integers

CONSTANTS Dimension,      \* the counters of a budget
          PolicyName,     \* values of ReasoningBudget.policy_name
          StopCondition,  \* labels of ReasoningBudget.stop_conditions
          DecisionId      \* routing decision identities

(* BranchDepth is the counter that is kept as a high-water mark. *)
BranchDepth == "branch_depth"

ASSUME DimensionAssumption == BranchDepth \in Dimension

Counters == [Dimension -> Nat]
NoCost == [d \in Dimension |-> 0]

ReasoningBudgets ==
  [policy_name : PolicyName, stop_conditions : SUBSET StopCondition, max : Counters]

-----------------------------------------------------------------------------
(* consume_reasoning_budget: candidates, steps, tokens and calls add up,   *)
(* branch depth keeps the deepest value, and nothing is returned when any  *)
(* counter would pass its ceiling.                                         *)

(* Mutated form: branch depth is summed like the other counters. *)
ChargedDepthSummed(used, delta) == [d \in Dimension |-> used[d] + delta[d]]

(* Mutated form: the last branch depth replaces the deepest one. *)
ChargedDepthReplaced(used, delta) ==
  [d \in Dimension |-> IF d = BranchDepth THEN delta[d] ELSE used[d] + delta[d]]

Charged(used, delta) ==
  [d \in Dimension |->
     IF d # BranchDepth THEN used[d] + delta[d]
     ELSE IF delta[d] > used[d] THEN delta[d] ELSE used[d]]

(* Mutated form: the high-water mark is left out of the comparison. *)
ExceededDimensionsAdditiveOnly(budget, used) ==
  {d \in Dimension \ {BranchDepth} : used[d] > budget.max[d]}

ExceededDimensions(budget, used) == {d \in Dimension : used[d] > budget.max[d]}

(* ReasoningBudgetUsage rejects a usage above its own ceilings. *)
ReasoningBudgetUsages ==
  {u \in [budget : ReasoningBudgets, used : Counters] :
     ExceededDimensions(u.budget, u.used) = {}}

ExhaustedDimensions(usage) == {d \in Dimension : usage.used[d] = usage.budget.max[d]}

(* Mutated form: nothing can be charged, at no cost either, once a counter is exhausted. *)
CanConsumeUnlessExhausted(usage, delta) ==
  /\ ExhaustedDimensions(usage) = {}
  /\ ExceededDimensions(usage.budget, Charged(usage.used, delta)) = {}

CanConsume(usage, delta) ==
  ExceededDimensions(usage.budget, Charged(usage.used, delta)) = {}

Consumed(usage, delta) == [usage EXCEPT !.used = Charged(usage.used, delta)]

-----------------------------------------------------------------------------
(* The ledger of routing.py: one usage bound to one decision identity.  Of *)
(* a decision only its identity and its budget matter here.                *)

Ledgers == [decision_id : DecisionId, usage : ReasoningBudgetUsages]

ZeroLedger(decision) ==
  [decision_id |-> decision.decision_id,
   usage |-> [budget |-> decision.reasoning_budget, used |-> NoCost]]

LedgerMatches(decision, ledger) ==
  /\ ledger.decision_id = decision.decision_id
  /\ ledger.usage.budget = decision.reasoning_budget

CanConsumeLedger(decision, ledger, delta) ==
  LedgerMatches(decision, ledger) /\ CanConsume(ledger.usage, delta)

ConsumedLedger(ledger, delta) == [ledger EXCEPT !.usage = Consumed(ledger.usage, delta)]

=============================================================================
