CONSTANTS
  t1 = t1
  t2 = t2
  t3 = t3
  NoThread = NoThread
  Threads = {t1, t2, t3}
  MaxCalls = 4
SPECIFICATION BoundedSpec
CHECK_DEADLOCK FALSE
INVARIANTS
  RWInv
  NobodySleepsOutside
PROPERTIES
  LockersGetIn
