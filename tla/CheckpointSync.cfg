CONSTANTS
  t1 = t1
  t2 = t2
  t3 = t3
  None = None
  All = All
  Threads = {t1, t2, t3}
  InitList = {t1, t2, t3}
  SuspendAllers = {}
  Suspenders = {}
  Targets = {}
  Exiters = {t3}
  Attempts = {0}
  Checkpointers = {}
  Modes = {}
  SyncCheckpointers = {t1, t2}
SPECIFICATION CheckpointSpec
INVARIANTS
  TargetStaysSuspended
PROPERTIES
  PromiseKept
