------------------------------ MODULE MCFutexMutex -----------------------------
(* FutexMutex with a bound on the calls, after which every thread unlocks.       *)
EXTENDS FutexMutex

CONSTANTS t1, t2, t3

CONSTANTS
  Lockers,          \* may lock again
  Waiters,          \* may wait
  Signallers,       \* may signal
  MaxCalls          \* how many calls are made

VARIABLE calls      \* how many have been

boundedVars == <<mutexVars, calls>>

BoundedInit == MutexInit /\ calls = 0

BoundedCall(t) ==
  \/ ExclusiveLock(t) \/ ExclusiveTryLock(t)
  \/ t \in Lockers /\ LockAgain(t)
  \/ t \in Waiters /\ Wait(t)
  \/ t \in Signallers /\ \E all \in BOOLEAN : Signal(t, all)

BoundedNext ==
  \/ \E t \in Threads :
       \/ BoundedCall(t) /\ calls < MaxCalls /\ calls' = calls + 1
       \/ Proceed(t) /\ UNCHANGED calls
       \/ InterruptSleep(t) /\ UNCHANGED calls
  \/ WakeupToRespondToEmptyCheckpoint /\ UNCHANGED calls

\* Every thread is scheduled.  The mutex is not fair to its contenders: only the
\* bound keeps others from taking it for ever.
BoundedSpec ==
  /\ BoundedInit
  /\ [][BoundedNext]_boundedVars
  /\ \A t \in Threads : WF_boundedVars(Proceed(t) /\ UNCHANGED calls)
=============================================================================
