SPECIFICATION MCSpec
CONSTANTS
  Turns = {t1, t2, t3}
  NoTurn = NoTurn
  MayClarify = TRUE
  People = {p1, p2, p3}
  Emails = {e1, e2, e3}
  Requests = {r1, r2}
  KnownMax = 2
  MaxEpoch = 2
  MaxCalls = 4
  MaxTokens = 2
  MaxRows = 1
SYMMETRY Symmetric
INVARIANT LastAdminKept
CHECK_DEADLOCK FALSE
