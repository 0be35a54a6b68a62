\* Two workers list the same queued job.
SPECIFICATION Spec
CONSTANTS
  Clients = {c1}
  Workers = {w1, w2}
  Targets = {pdf}
  Heavy = {pdf}
  Profiled = {}
  Tenants = {n1}
  TenantOf <- OneTenant
  Contents = {b1}
  MaxJobAttempts = 2
  MaxOpenJobs = 2
  MaxAttempts = 2
  Batch = 2
  PerTenant = 2
  ListLimit = 10
  JobBound = 1
  AbortBound = 0
  None = None
PROPERTIES LiveLeaseIsKept
