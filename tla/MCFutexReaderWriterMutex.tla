------------------------ MODULE MCFutexReaderWriterMutex -----------------------
(* FutexReaderWriterMutex with a bound on the calls, after which every thread    *)
(* unlocks.                                                                      *)
EXTENDS FutexReaderWriterMutex

CONSTANTS t1, t2, t3

CONSTANT MaxCalls   \* how many calls are made

VARIABLE calls      \* how many have been

boundedVars == <<rwVars, calls>>

BoundedInit == RWInit /\ calls = 0

BoundedNext ==
  \/ \E t \in Threads :
       \/ Call(t) /\ calls < MaxCalls /\ calls' = calls + 1
       \/ (Proceed(t) \/ TimeOut(t) \/ InterruptSleep(t)) /\ UNCHANGED calls
  \/ WakeupToRespondToEmptyCheckpoint /\ UNCHANGED calls

\* Every thread is scheduled.  Readers overtake writers: only the bound keeps them
\* from doing so for ever.
BoundedSpec ==
  /\ BoundedInit
  /\ [][BoundedNext]_boundedVars
  /\ \A t \in Threads : WF_boundedVars(Proceed(t) /\ UNCHANGED calls)
=============================================================================
