SPECIFICATION Spec
CONSTANTS
  SubstrateId = {1, 2, 3}
  Dimension <- Counter
  PolicyName = {"fast"}
  StopCondition = {}
  DecisionId = {"d1"}
  Request <- MCRequest
  Snapshot <- MCSnapshot
  Policy <- MCPolicy
  Fallback <- MCFallback
  Previous <- MCPrevious
INVARIANTS
  FallbackIsNarrowedSelection
  SelectionIsBest
CHECK_DEADLOCK FALSE
