SPECIFICATION ScopedSpec
CONSTANTS
  c1 = c1 c2 = c2 p1 = p1 p2 = p2 w1 = w1
  Clients = {c1, c2}
  OneClient = c1
  Passes = {p1, p2}
  OnePass = p1
  Workers = {w1}
  RetryLimit = 1
  MaxRuns = 2
  MaxFaults = 1
INVARIANTS OneActiveRun PlannedIffCompleted
PROPERTIES OnlyTransitions OnlyRunEnds
CHECK_DEADLOCK FALSE
