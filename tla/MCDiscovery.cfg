SPECIFICATION Spec
CONSTANTS
  SubstrateId = {1, 2}
  Offer <- MCOffer
  FailedChecks = {{"integrity_verified"}}
  SecurityBinding <- MCBinding
  Terms <- MCTerms
  Deadline <- MCDeadline
  Policy <- MCPolicy
  MaxWindow = 2
  MaxLifetime = 1
  MaxTime = 2
  MaxEvidence = 2
  MaxSnapshots = 2
  MaxPairs = 2
INVARIANTS
  TypeOK
  DistrustTakesEffect
  RouteIsOfThePresent
