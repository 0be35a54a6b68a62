\* More open jobs than list_open_jobs returns: two tenants, one request at a time.
SPECIFICATION Spec
CONSTANTS
  Clients = {c1}
  Workers = {w1}
  Targets = {pdf, png, xlsx}
  Heavy = {pdf, png, xlsx}
  Profiled = {}
  Tenants = {n1, n2}
  TenantOf <- TwoTenants
  Contents = {b1}
  MaxJobAttempts = 2
  MaxOpenJobs = 1
  MaxAttempts = 2
  Batch = 2
  PerTenant = 2
  ListLimit = 1
  JobBound = 3
  AbortBound = 0
  None = None
INVARIANTS TenantQuotaHolds
