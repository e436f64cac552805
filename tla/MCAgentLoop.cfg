\* Any LLM, one that keeps to the tools it is offered among them.  The
\* thresholds keep the order of the code's 30, 10, 20, 30.
CONSTANTS
  x = x
  y = y
  r1 = r1
  r2 = r2
  Calls = {x, y}
  Results = {r1, r2}
  NoResult = NoResult
  HistorySize = 4
  WarnAt = 2
  CriticalAt = 3
  GlobalAt = 4
  MaxBatch = 2
SPECIFICATION FairSpec
INVARIANTS
  ResultsFollowCalls
  StreakBounded
  CancelStopsTools
PROPERTIES
  TurnEnds
CHECK_DEADLOCK FALSE
