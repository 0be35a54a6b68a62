\* An administrator: two requests in flight, three challenges of two attempts, codes of one
\* per set; commands, expiry and the password are left to sessions_fenced.
CONSTANTS
  t1 = t1
  t2 = t2
  acc1 = acc1
  acc2 = acc2
  None = None
  Threads = {t1, t2}
  Accounts = {acc1}
  Beginnings = {"bootstrapped", "enrolled"}
  CodesPerSet = 1
  StepUpActions = {"recovery.rotate", "mfa.replace"}
  MaxAttempts = 2
  TimeSteps = {0, 1}
  SessionBound = 2
  ChallengeBound = 3
  ChangeBound = 0
SPECIFICATION Spec
SYMMETRY Symmetric
CHECK_DEADLOCK FALSE
INVARIANTS ChallengeIsExchangedOnce SecretIsAcceptedOnce ComparisonsAreBounded SessionKeepsItsBindings FactorIsNeverBypassed
