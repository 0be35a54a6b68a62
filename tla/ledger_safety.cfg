SPECIFICATION Spec
CONSTANTS
  h1 = h1
  h2 = h2
  w1 = w1
  w2 = w2
  s1 = s1
  p1 = p1
  c1 = c1
  c2 = c2
  None = None
  Handlers = {h1, h2}
  Workers = {w1}
  Sessions = {s1}
  Reports = {p1}
  Contexts = {c1, c2}
  MaxAttempts = 2
  OpBound = 3
  AbortBound = 1
  LossBound = 0
SYMMETRY Alike
INVARIANT TypeOK
INVARIANT ReceiptsMatchLedger
INVARIANT ReportIsProjectedOrOwed
INVARIANT ReportsAppearOnce
PROPERTY ReportsMeetContext
PROPERTY RefinesFactLog
CHECK_DEADLOCK FALSE
