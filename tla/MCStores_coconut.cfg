SPECIFICATION MCSpec
CONSTANTS
  w1 = w1
  w2 = w2
  s1 = s1
  s2 = s2
  Slots = {s1, s2}
  Workers = {w1, w2}
  WorkerOf <- OneOnEach
  Users = {u1}
  TotalCap = 2
  UserCap = 1
  MaxCost = 1
  Attempts = 2
  MaxDay = 1
  MaxMishaps = 1
  j1 = j1
  j2 = j2
  Jobs = {j1, j2}
  Sources <- CoconutSources
  Observations <- CoconutObservations
  Publishes <- CoconutPublishes
  ItemOf <- CoconutItemOf
  PartnerOf <- CoconutPartnerOf
  Books <- CoconutBooks
  Amounts = {1, 2}
  MaxAttempts = 3
  MaxTrouble = 1
  FlowSource = "UN_COMTRADE"
  LoadOptions <- MCOptions
  MaxLoads = 2
  m1 = m1
  m2 = m2
  Saves = {m1, m2}
  Errors = {4, 9}
SYMMETRY Symmetric
INVARIANT GraphAgrees
CHECK_DEADLOCK FALSE
