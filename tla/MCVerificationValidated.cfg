SPECIFICATION Spec
CONSTANTS
  SubstrateId = {1, 2, 3}
  Dimension <- Counter
  PolicyName = {"fast"}
  StopCondition = {}
  DecisionId = {"d"}
  CorrelationId = {"c"}
  Request <- MCRequest
  Decision <- MCDecision
  Snapshot <- MCSnapshot
  SelectionPolicy <- MCSelectionPolicy
  VerificationPolicy <- MCVerificationPolicy
  Producer <- MCProducer
  Assertion = {"x", "y"}
  Version = {1}
  Catalog <- MCCatalog
  Report <- MCReport
  SecurityBinding <- MCBinding
  NextState = {"PLANNING", "VERIFYING", "CANCELLED"}
  Delta <- MCDelta
  MaxTime = 1
  MaxSequence = 2
INVARIANT
  VerifiersAreValidated
CHECK_DEADLOCK FALSE
