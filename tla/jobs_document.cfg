\* Two requests on one session, two jobs of two trials at most, and one save by
\* another request: a new series or strategy, a tuning, a skip, or any other save.
CONSTANTS
  r1 = r1
  r2 = r2
  m1 = m1
  k1 = k1
  None = None
  Requests = {r1, r2}
  Models = {m1}
  Tasks <- TasksForJobs
  TotalSteps = 2
  JobBound = 2
  ChangeBound = 1
SPECIFICATION FairSpec
CHECK_DEADLOCK FALSE
INVARIANTS TypeOK OneLiveJobPerPlan TunedIsNotSkipped
PROPERTIES NothingIsTakenBack JobsSettle
