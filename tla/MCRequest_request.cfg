SPECIFICATION RequestSpec
CONSTANTS
  Attempts = 2
  MaxPieces = 3
  QueueLimit = 3
  a1 = a1
  a2 = a2
  Agents = {a1, a2}
  MissingAgents = {a2}
  MaxRuns = 2
  Requests = {1, 2, 3, 4}
  Hosts = {w1}
  Counters = {1, 2, 3}
  Limit = 1
  MaxWindow = 1
  Turns = {1, 2, 3, 4, 5}
  TTL = 2
  MaxTurns = 2
  MaxTime = 5
INVARIANTS
  OneAnswerShown RunSettled
  TypesKept Bounded NeverRefusedEarly
PROPERTIES QuestionsEnd RegistryKept
CHECK_DEADLOCK FALSE
