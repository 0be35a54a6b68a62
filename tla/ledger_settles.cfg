SPECIFICATION FairSpec
CONSTANTS
  h1 = h1
  h2 = h2
  w1 = w1
  w2 = w2
  s1 = s1
  p1 = p1
  c1 = c1
  c2 = c2
  None = None
  Handlers = {h1}
  Workers = {w1}
  Sessions = {s1}
  Reports = {p1}
  Contexts = {c1}
  MaxAttempts = 2
  OpBound = 3
  AbortBound = 1
  LossBound = 1
PROPERTY TasksSettle
CHECK_DEADLOCK FALSE
