------------------------- MODULE MCReasoningLifecycle -------------------------
(* A small instance of ReasoningLifecycle for TLC. *)
EXTENDS ReasoningLifecycle, FiniteSets

CONSTANT MaxSnapshots     \* bound: callers stop when they hold this many snapshots

MCDimension == {"steps", BranchDepth}

Ceilings(steps, depth) ==
  [policy_name |-> "fast", stop_conditions |-> {},
   max |-> [k \in MCDimension |-> IF k = BranchDepth THEN depth ELSE steps]]

(* The admitted decision, a substitute with its identity and more budget,   *)
(* and another decision with an equal budget.                               *)
MCDecision ==
  {[decision_id |-> "d1", reasoning_budget |-> Ceilings(2, 2)],
   [decision_id |-> "d1", reasoning_budget |-> Ceilings(3, 2)],
   [decision_id |-> "d2", reasoning_budget |-> Ceilings(2, 2)]}

Cost(steps, depth) == [k \in MCDimension |-> IF k = BranchDepth THEN depth ELSE steps]

MCProposedDelta == {Cost(1, 1), Cost(2, 0), Cost(0, 3)}

SnapshotBound == Cardinality(snapshots) <= MaxSnapshots
=============================================================================
