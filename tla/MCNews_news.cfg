SPECIFICATION MCSpec
CONSTANTS
  t1 = t1
  t2 = t2
  s1 = s1
  s2 = s2
  Workers = {w1, w2}
  Scopes <- TwoScopes
  Topics <- TwoTopics
  ScopeOf <- OneEach
  Lease = 2
  Interval = 1
  Jitter = 1
  MaxMishaps = 1
  c1 = c1
  c2 = c2
  p1 = p1
  Callers = {c1, c2}
  Processes = {p1}
  ProcessOf <- TwoOnOne
  Spacing = 2
  Penalty = 3
  MaxWait = 2
  Attempts = 2
INVARIANT PanelsKept
PROPERTIES GateKept PanelsRefreshed EveryRequestEnds
