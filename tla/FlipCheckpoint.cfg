CONSTANTS
  t1 = t1
  t2 = t2
  t3 = t3
  None = None
  All = All
  Threads = {t1, t2, t3}
  InitList = {t1, t2, t3}
  SuspendAllers = {}
  Suspenders = {}
  Targets = {}
  Exiters = {}
  Attempts = {0}
  Checkpointers = {t2}
  Modes = {"held", "none"}
  SyncCheckpointers = {t3}
  Flippers = {t1}
  MaxCalls = 3
SPECIFICATION BoundedSpec
INVARIANTS
  FlipBeforeJava
  CountsMatchRequests
  TargetStaysSuspended
