SPECIFICATION Spec
CONSTANTS
  Dimension <- MCDimension
  PolicyName = {"fast"}
  StopCondition = {}
  DecisionId = {"d1", "d2"}
  CorrelationId = {"c1"}
  Decision <- MCDecision
  ProposedDelta <- MCProposedDelta
  MaxSequence = 5
  MaxSnapshots = 4
CONSTRAINT SnapshotBound
INVARIANTS
  TypeOK
  WithinAdmittedCeilings
  AuditTrail
  ToolOnlyAfterPolicyWait
  DepthIsHighWater
  AlwaysStoppable
