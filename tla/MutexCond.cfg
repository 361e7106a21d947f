CONSTANTS
  t1 = t1
  t2 = t2
  t3 = t3
  NoThread = NoThread
  Threads = {t1, t2, t3}
  Recursive = TRUE
  MaxRecursion = 2
  Lockers = {t1}
  Waiters = {t1, t2}
  Signallers = {t3}
  MaxCalls = 5
SPECIFICATION BoundedSpec
CHECK_DEADLOCK FALSE
INVARIANTS
  MutexInv
PROPERTIES
  MutexPromiseKept
  
