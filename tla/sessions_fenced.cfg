\* A person, or an administrator about to enrol: two requests in flight, a
\* challenge and its successor, three operator commands or expiries.
CONSTANTS
  t1 = t1
  t2 = t2
  acc1 = acc1
  acc2 = acc2
  None = None
  Threads = {t1, t2}
  Accounts = {acc1}
  Beginnings = {"person", "bootstrapped"}
  CodesPerSet = 1
  StepUpActions = {"password.change", "recovery.rotate", "mfa.replace"}
  MaxAttempts = 1
  TimeSteps = {1}
  SessionBound = 2
  ChallengeBound = 2
  ChangeBound = 3
SPECIFICATION Spec
SYMMETRY Symmetric
CHECK_DEADLOCK FALSE
INVARIANTS TypeOK PasswordWasProved
PROPERTY NothingIsRevived
