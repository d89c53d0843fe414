SPECIFICATION FairSpec
CONSTANTS
  Target = {t1, t2}
  RequestDeadline = {1}
  CancellationTime = {}
  StopWindow = {1}
  MaxTime = 3
  MaxBegun = 2
PROPERTIES
  StopConcludes
