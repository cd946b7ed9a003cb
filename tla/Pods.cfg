SPECIFICATION FairSpec
CONSTANTS
  p1 = p1
  c1 = c1
  Pods = {p1}
  TailLines = 1
  Previous = TRUE
  Containers = {c1}
  MaxRuns <- MCMaxRuns
  MaxLines = 1
  MaxBreaks = 1
  MaxStopping = 1
CHECK_DEADLOCK FALSE
INVARIANTS
  TypeOK
  OnlyActiveFollow
  NoLineIsLost
PROPERTIES
  LinesArrive
  StreamReturns
