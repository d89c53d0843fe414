SPECIFICATION Spec
CONSTANTS
  Target = {t1, t2}
  RequestDeadline <- RequestDeadlines
  CancellationTime = {0, 1, 2}
  StopWindow = {1}
  MaxTime = 2
  MaxBegun = 2
SYMMETRY Components
INVARIANTS
  TypeOK
  CompleteIsTrue
  TimelyVerdictIsTrue
  NoTargetIsStranded
PROPERTIES
  VerdictsAreFinal
  StopConditionLatched
  SafeStopPromise
