SPECIFICATION Spec
CONSTANTS
  a1 = a1
  a2 = a2
  Agents = {a1, a2}
  MissingAgents = {}
  MaxRuns = 1
INVARIANT PartialSpendRecorded
CHECK_DEADLOCK FALSE
