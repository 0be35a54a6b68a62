\* As deployed: one API process with one worker, heavy targets; a thread may be lost.
SPECIFICATION Spec
CONSTANTS
  Clients = {c1, c2}
  Workers = {w1}
  Targets = {pdf, png}
  Heavy = {pdf, png}
  Profiled = {png}
  Tenants = {n1}
  TenantOf <- OneTenant
  Contents = {b1}
  MaxJobAttempts = 2
  MaxOpenJobs = 2
  MaxAttempts = 2
  Batch = 2
  PerTenant = 2
  ListLimit = 10
  JobBound = 2
  AbortBound = 1
  None = None
SYMMETRY Alike
INVARIANTS TypeOK ReadyJobNamesItsRow
PROPERTIES JobsGoForward
