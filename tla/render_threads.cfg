\* One worker beside a handler that renders a light target of the same tenant itself; two
\* threads may be lost.  A tenant may have one job rendered, a cycle claims one and reclaim
\* lists one, so every limit of the worker is met with two jobs.
SPECIFICATION FairSpec
CONSTANTS
  Clients = {c1}
  Workers = {w1}
  Targets = {pdf, md}
  Heavy = {pdf}
  Profiled = {}
  Tenants = {n1}
  TenantOf <- OneTenant
  Contents = {b1}
  MaxJobAttempts = 2
  MaxOpenJobs = 2
  MaxAttempts = 2
  Batch = 1
  PerTenant = 1
  ListLimit = 1
  JobBound = 2
  AbortBound = 2
  None = None
INVARIANTS ReadyJobHasRow RenderingIsRecoverable ServedBytesExist
PROPERTIES HeavyJobsSettle
