CONSTANTS
  t1 = t1
  t2 = t2
  t3 = t3
  None = None
  All = All
  Threads = {t1, t2, t3}
  InitList = {t1, t2}
  SuspendAllers = {t1, t3}
  Suspenders = {t2, t3}
  Targets = {t2, t3}
  Exiters = {t3}
  Attempts = {1}
SPECIFICATION Spec
INVARIANTS
  IInv
  WorldStopped
  SuspendedUntilResumed
  NoDanglingBarrier
  NoLostWakeup
PROPERTY
  NoSuspensionWhileStopped
