\* The claim ReplayHasTheMetric, which the code does not keep.
CONSTANTS
  r1 = r1
  r2 = r2
  m1 = m1
  k1 = k1
  None = None
  Requests = {r1, r2}
  Models = {m1}
  Tasks <- TasksOfMetrics
  TotalSteps = 2
  JobBound = 2
  ChangeBound = 1
SPECIFICATION Spec
CHECK_DEADLOCK FALSE
INVARIANT ReplayHasTheMetric
