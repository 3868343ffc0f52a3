CONSTANTS
  f1 = f1
  f2 = f2
  f3 = f3
  c1 = c1
  c2 = c2
  None = None
  Refreshes = {f1, f2}
  Registered = {f2}
  Calls = {c1, c2}
  MaxCloses = 2
  MaxRetired = 1
  MaxWaiters = 1
  MaxEpoch = 1
SPECIFICATION Spec
INVARIANT ContextsAccounted
PROPERTIES KeepsPromise EveryoneReturns
CHECK_DEADLOCK FALSE
