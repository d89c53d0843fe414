SPECIFICATION Spec
CONSTANTS
  SubstrateId = {1, 2}
  Dimension <- Counter
  PolicyName = {"fast"}
  StopCondition = {}
  DecisionId = {d1, d2}
  CorrelationId = {"c"}
  Request <- MCRequest
  Snapshot <- MCSnapshot
  Policy <- MCPolicy
  Fallback <- MCFallback
  Trigger = {"ROUTE_EXECUTION_FAILURE"}
  Lifetime = {1}
  NextState = {"PLANNING", "VERIFYING", "FAILED"}
  Delta <- MCDelta
  MaxTime = 1
  MaxReplans = 2
  MaxSequence = 3
SYMMETRY Identities
INVARIANTS
  TypeOK
  CarriedWorkIsBounded
  EveryRouteIsBounded
PROPERTIES
  CarefulSpending
CHECK_DEADLOCK FALSE
