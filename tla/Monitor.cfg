SPECIFICATION MCSpec
CONSTANTS
  None = None
  Threads = {t1, t2, t3}
  Waiters = {t1, t2}
  Hashers = {t3}
  Notifiers = {t2, t3}
  TryLockers = {t3}
  Interrupters = {t3}
  Hashes = {h1, h2}
  kThinLockMaxCount = 1
  MaxDepth = 3
  MaxCalls = 6
INVARIANTS
  MonitorInv
  WaitSetsExact
  InstallSafe
  HashStable
PROPERTIES
  LockPromiseKept
  DeflatedUnused
  NotifiedReturn
CHECK_DEADLOCK FALSE
