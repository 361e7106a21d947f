CONSTANTS
  t1 = t1
  t2 = t2
  t3 = t3
  None = None
  All = All
  Threads = {t1, t2, t3}
  InitList = {t1, t2, t3}
  SuspendAllers = {t2}
  Suspenders = {}
  Targets = {}
  Exiters = {t3}
  Attempts = {0}
  Checkpointers = {t1, t2}
  Modes = {"held", "acquire", "none"}
  SyncCheckpointers = {}
SPECIFICATION CheckpointSpec
INVARIANTS
  CheckpointFlag
  NoDanglingClosure
  BarrierCountsDue
PROPERTIES
  PromiseKept
