SPECIFICATION CFFairSpec
CONSTANTS
  t1 = t1
  t2 = t2
  t3 = t3
  Caller = {t1, t2, t3}
  MaxCalls = 2
  MaxForks = 1
  ForkBeforeFirstCall = FALSE
  PidReuse = FALSE
INVARIANT ResetBeforeUse
PROPERTY ResetOnlyInherited
PROPERTY CallReturns
