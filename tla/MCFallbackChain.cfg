SPECIFICATION Spec
CONSTANTS
  SubstrateId = {1, 2}
  Dimension <- Counter
  PolicyName = {"fast"}
  StopCondition = {}
  DecisionId = {d1, d2}
  Request <- MCRequest
  Snapshot <- MCSnapshot
  Policy <- MCPolicy
  Fallback <- MCFallback
  Trigger = {"ROUTE_EXECUTION_FAILURE", "STALE_ROUTING_DECISION"}
  Delta <- MCDelta
  Lifetime = {1, 3}
  MaxTime = 2
  MaxReplans = 2
SYMMETRY Identities
INVARIANTS
  TypeOK
  WithinRootBudget
  ServesTheRoot
  WithinRootDeadline
PROPERTIES
  StopForbidsFallback
  SpendingPromise
