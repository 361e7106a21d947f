SPECIFICATION Spec
CONSTANTS
  None = None
  kSuspendBarrierIters = 20
  thread_suspend_timeout = 10000
  kDumpWait = 30000
  kTracingWait = 7200000
  USER_MULTIPLIER = 1
  Slack = 1
  MaxPending = 1
  Word = 1073741824
  MaxTime = 20000000
INVARIANT
  TimeoutsAddUp
CHECK_DEADLOCK FALSE
