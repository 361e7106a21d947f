------------------------ MODULE ThreadSuspensionBarriers ------------------------
(*****************************************************************************)
(* The layers of the invariant of ThreadSuspension about the frames of       *)
(* SuspendThread, about barriers and their flag, about which threads are     *)
(* suspended and about who waits to be resumed.                              *)
(*****************************************************************************)
EXTENDS ThreadSuspensionControl

\* The time the solver has for a step.
USE SMTT(30)

\* Outside SuspendThread nobody touches its exit flags, except for a thread that exits, and
\* nobody touches its barriers, except for a thread that passes them.
LEMMA FramesAlone ==
  ASSUME TypeInv, NEW t \in Threads
  PROVE  /\ StateChange(t) \/ RetryStep(t) \/ TurnStep(t) \/ AllStep(t)
              => UNCHANGED list /\ UNCHANGED exitVars
         /\ StateChange(t) \/ RetryStep(t) \/ TurnStep(t) \/ AllStep(t) \/ Attach(t)
              => \/ UNCHANGED barrier /\ UNCHANGED suspend1_barriers
                 \/ PassActiveSuspendBarriers(t)
<1> DEFINE Exits == UNCHANGED list /\ UNCHANGED exitVars
           Links == UNCHANGED barrier /\ UNCHANGED suspend1_barriers
<1>1. ASSUME StateChange(t)
      PROVE  Exits /\ (Links \/ PassActiveSuspendBarriers(t))
  BY <1>1 DEF StateChange, TransitionFromRunnableToSuspended, CheckActiveSuspendBarriers,
              EnterRunnable, TransitionFromSuspendedToRunnable, WaitForResume, Resumed,
              PassActiveSuspendBarriers, threadVars, oneVars
<1>2. ASSUME RetryStep(t) \/ TurnStep(t)
      PROVE  Exits /\ Links
  BY <1>2 DEF RetryStep, BackOff, Sleep, Relock, SuspendTimesOut,
              TurnStep, SuspendAll, SuspendAllBusy, WaitForOtherSuspendAll, threadVars, oneVars
<1>3. ASSUME NEW u, NEW all, IncrementSuspendCount(u, All, all, None)
      PROVE  UNCHANGED suspend1_barriers
  <2>1. suspend1_barriers \in [Threads -> SUBSET Threads]
    BY DEF TypeInv, WordTypes
  <2> QED
    BY <1>3, <2>1 DEF IncrementSuspendCount
<1>4. ASSUME AllStep(t)
      PROVE  Exits /\ Links
  BY <1>3, <1>4
  DEF AllStep, BeginSuspendAll, SuspendAllIncrement, SuspendAllCheck, SuspendAllRequested,
      AllSuspended, LockMutator, ResumeAll, ResumeAllDecrement, EndResumeAll, threadVars, oneVars
<1>5. ASSUME Attach(t)
      PROVE  Links
  BY <1>3, <1>5 DEF Attach, Register, BeginUnregister, Unregister, threadVars, oneVars
<1> QED
  BY <1>1, <1>2, <1>4, <1>5, Zenon

\* A SuspendThread without a request has made none, one with a request has not lost it.
LEMMA FrameInvStep ==
  ASSUME TypeInv, ControlInv, FrameInv, [Next]_vars
  PROVE  FrameInv'
<1> SUFFICES ASSUME NEW u \in Threads, None \notin Threads, Frame(u),
                    list \subseteq Threads,
                    pc \in [Threads -> PC], ret \in [Threads -> Return],
                    target \in [Threads -> Threads \cup {None}],
                    requests \in [Threads -> SUBSET (Threads \cup {All})]
             PROVE  Frame(u)'
  BY ThreadsAssumption DEF FrameInv, TypeInv, WordTypes, FrameTypes, ControlTypes
<1> USE DEF Goto, GotoAndReturn
<1>1. CASE UNCHANGED vars
  BY <1>1 DEF Frame, Seeking, Watching, Waiting, vars, threadVars, oneVars
<1>2. CASE FramesKept
  BY <1>2 DEF FramesKept, Frame
<1>3. ASSUME NEW t \in Threads, PhaseStep(t)
      PROVE  Frame(u)'
  <2>0. Frame(t)
    BY DEF FrameInv
  <2> USE <2>0 DEF Frame, Seeking, Watching, Waiting, LeavingPC, EnteringPC
  <2>1. CASE SuspendThreadByThreadId(t)
    BY <2>1, ThreadsAssumption DEF SuspendThreadByThreadId, threadVars
  <2>2. CASE FindThread(t) \/ NoSuchThread(t) \/ TargetExited(t)
    BY <2>2 DEF FindThread, NoSuchThread, TargetExited, threadVars
  <2>3. CASE RequestSuspend(t)
    BY <2>3 DEF RequestSuspend, IncrementSuspendCount, oneVars
  <2>4. CASE CheckSuspended(t) \/ SuspendSucceeded(t)
    BY <2>4 DEF CheckSuspended, SuspendSucceeded, threadVars
  <2>5. CASE GiveUp(t)
    BY <2>5 DEF GiveUp, DecrementSuspendCount
  <2> HIDE DEF Frame
  <2> QED
    BY <1>3, <2>1, <2>2, <2>3, <2>4, <2>5, Zenon DEF PhaseStep
<1>4. ASSUME NEW t \in Threads, Resume(t)
      PROVE  Frame(u)'
  <2>1. PICK v \in list : DecrementSuspendCount(v, t, {})
    BY <1>4, Zenon DEF Resume
  <2> QED
    BY <1>4, <2>1 DEF Resume, DecrementSuspendCount, Frame, Seeking, Watching, Waiting,
                      LeavingPC, EnteringPC, oneVars
<1> QED
  BY <1>1, <1>2, <1>3, <1>4, Steps, FramesKeptStep, Zenon

\* The target of a SuspendThread that retries is attached, or has told it that it exited.
LEMMA ExitInvStep ==
  ASSUME TypeInv, ControlInv, FrameInv, ExitInv, [Next]_vars
  PROVE  ExitInv'
<1> SUFFICES ASSUME NEW u \in Threads, None \notin Threads, Exit(u), list \subseteq Threads,
                    pc \in [Threads -> PC], ret \in [Threads -> Return],
                    target \in [Threads -> Threads \cup {None}],
                    exit_flags \in [Threads -> SUBSET Threads]
             PROVE  Exit(u)'
  BY ThreadsAssumption DEF ExitInv, TypeInv, FrameTypes, ControlTypes
<1> USE DEF Goto, GotoAndReturn
<1>1. CASE UNCHANGED vars
  BY <1>1 DEF Exit, Watching, vars, threadVars, exitVars, oneVars
<1>2. CASE FramesKept /\ UNCHANGED list /\ UNCHANGED exitVars
  <2>1. /\ target'[u] = target[u]
        /\ Watching(u)' <=> Watching(u)
        /\ pc'[u] = "st_try" => pc[u] = "st_try" \/ u \notin exited
    BY <1>2 DEF FramesKept
  <2> QED
    BY <1>2, <2>1 DEF Exit, exitVars
<1>3. ASSUME NEW t \in Threads, PhaseStep(t)
      PROVE  Exit(u)'
  <2>0. Exit(t) /\ (Watching(u) => target[u] \in Threads)
    BY DEF ExitInv, FrameInv, Frame, Seeking
  <2> USE <2>0 DEF Exit, Watching, LeavingPC, EnteringPC, exitVars
  <2>1. CASE SuspendThreadByThreadId(t)
    BY <2>1 DEF SuspendThreadByThreadId, threadVars
  <2>2. CASE FindThread(t)
    <3>1. CASE u = t
      BY <2>2, <3>1 DEF FindThread, threadVars
    <3>2. CASE u # t
      BY <2>2, <3>2 DEF FindThread, threadVars
    <3> QED
      BY <3>1, <3>2, Zenon
  <2>3. CASE NoSuchThread(t) \/ TargetExited(t) \/ SuspendSucceeded(t)
    BY <2>3 DEF NoSuchThread, TargetExited, SuspendSucceeded, threadVars
  <2>4. CASE RequestSuspend(t) \/ GiveUp(t)
    BY <2>4 DEF RequestSuspend, GiveUp, oneVars
  <2>5. CASE CheckSuspended(t)
    BY <2>5 DEF CheckSuspended
  <2> HIDE DEF Exit
  <2> QED
    BY <1>3, <2>1, <2>2, <2>3, <2>4, <2>5, Zenon DEF PhaseStep
<1>4. CASE \E t \in Threads : Resume(t)
  BY <1>4 DEF Resume, Exit, Watching, exitVars, oneVars
<1>5. ASSUME NEW t \in Threads, Attach(t)
      PROVE  Exit(u)'
  <2>0. pc[u] = "st_try" => list_lock = u
    BY DEF ControlInv, Locked, ListLockPC
  <2>1. CASE Unregister(t)
    BY <2>0, <2>1 DEF Unregister, LocksFree, Exit, Watching, LeavingPC, EnteringPC, oneVars
  <2>2. CASE Register(t) \/ BeginUnregister(t)
    BY <2>2 DEF Register, BeginUnregister, Exit, Watching, LeavingPC, EnteringPC, threadVars,
                exitVars, oneVars
  <2> QED
    BY <1>5, <2>1, <2>2, Zenon DEF Attach
<1> HIDE DEF Goto, GotoAndReturn
<1> QED
  BY <1>1, <1>2, <1>3, <1>4, <1>5, Steps, FramesKeptStep, FramesAlone, Zenon

\* A barrier of SuspendThread is linked from its target until it is passed.
LEMMA Suspend1InvStep ==
  ASSUME TypeInv, ControlInv, FrameInv, Suspend1Inv, [Next]_vars
  PROVE  Suspend1Inv'
<1> DEFINE Linked(u, w) == Suspend1(u) /\ LinkedSuspend1(u, w)
<1> SUFFICES ASSUME NEW u \in Threads, NEW w \in Threads, None \notin Threads, Linked(u, w),
                    pc \in [Threads -> PC], ret \in [Threads -> Return],
                    target \in [Threads -> Threads \cup {None}],
                    barrier \in [Threads -> Int],
                    suspend1_barriers \in [Threads -> SUBSET Threads]
             PROVE  Linked(u, w)'
  BY ThreadsAssumption DEF Suspend1Inv, TypeInv, WordTypes, FrameTypes, ControlTypes
<1> USE DEF Suspend1, LinkedSuspend1, Goto, GotoAndReturn
<1>1. CASE UNCHANGED vars
  BY <1>1 DEF vars, threadVars, oneVars, Watching, Waiting
<1>2. CASE FramesKept /\ UNCHANGED barrier /\ UNCHANGED suspend1_barriers
  BY <1>2 DEF FramesKept
<1>3. ASSUME NEW t \in Threads, PassActiveSuspendBarriers(t)
      PROVE  Linked(u, w)'
  <2>1. /\ LinkedSuspend1(u, t) /\ pc[u] # "st_check"
        /\ Waiting(u) => target[u] \in Threads
    BY <1>3 DEF PassActiveSuspendBarriers, Suspend1Inv, ControlInv, Locked, CountLockPC,
                FrameInv, Frame
  <2> QED
    BY <1>3, <2>1 DEF PassActiveSuspendBarriers, Watching, Waiting, LeavingPC, EnteringPC
<1>4. ASSUME NEW t \in Threads, PhaseStep(t)
      PROVE  Linked(u, w)'
  <2>0. /\ Linked(t, w) /\ (Seeking(t) \/ Waiting(t) => target[t] \in Threads)
        /\ pc[t] \notin LeavingPC \cup EnteringPC => ret[t] = "native"
    BY DEF Suspend1Inv, FrameInv, Frame, ControlInv, Returns
  <2> USE <2>0 DEF Seeking, Watching, Waiting, LeavingPC, EnteringPC
  <2>1. CASE SuspendThreadByThreadId(t) \/ NoSuchThread(t) \/ TargetExited(t)
    BY <2>1 DEF SuspendThreadByThreadId, NoSuchThread, TargetExited, threadVars
  <2>2. CASE FindThread(t) \/ SuspendSucceeded(t)
    BY <2>2 DEF FindThread, SuspendSucceeded, threadVars
  <2>3. CASE RequestSuspend(t)
    BY <2>3 DEF RequestSuspend, IncrementSuspendCount, oneVars
  <2>4. CASE CheckSuspended(t)
    <3>1. CASE IsSuspended(target[t])
      <4>1. /\ pc[t] = "st_check" /\ pc' = [pc EXCEPT ![t] = "to_suspended"]
            /\ ret' = [ret EXCEPT ![t] = "native"] /\ target' = [target EXCEPT ![t] = None]
            /\ UNCHANGED barrier
            /\ suspend1_barriers' = [suspend1_barriers EXCEPT ![target[t]] = @ \ {t}]
        BY <2>4, <3>1 DEF CheckSuspended, RemoveSuspend1Barrier
      <4> QED
        BY <4>1
    <3>2. CASE ~IsSuspended(target[t])
      BY <2>4, <3>2 DEF CheckSuspended
    <3> QED
      BY <3>1, <3>2, Zenon
  <2>5. CASE GiveUp(t)
    BY <2>5 DEF GiveUp, RemoveSuspend1Barrier
  <2> HIDE DEF Linked
  <2> QED
    BY <1>4, <2>1, <2>2, <2>3, <2>4, <2>5, Zenon DEF PhaseStep
<1>5. ASSUME NEW t \in Threads, Resume(t)
      PROVE  Linked(u, w)'
  BY <1>5 DEF Resume, oneVars, Watching, Waiting
<1> HIDE DEF Linked
<1> QED
  BY <1>1, <1>2, <1>3, <1>4, <1>5, Steps, FramesKeptStep, FramesAlone, Zenon

\* kActiveSuspendBarrier says whether a barrier is linked.
LEMMA BarrierFlagStep ==
  ASSUME TypeInv, FrameInv, AllRequestsInv, CountsMatchRequests, Suspend1Inv, SuspendAllInv,
         BarrierFlagInv, [Next]_vars
  PROVE  BarrierFlagInv'
<1> SUFFICES ASSUME NEW u \in Threads, None \notin Threads, All \notin Threads, BarrierFlag(u),
                    list \subseteq Threads,
                    flags \in [Threads -> SUBSET ThreadFlag],
                    suspendall_barrier \in [Threads -> Threads \cup {None}],
                    suspend1_barriers \in [Threads -> SUBSET Threads],
                    todo \in [Threads -> SUBSET Threads]
             PROVE  BarrierFlag(u)'
  BY ThreadsAssumption DEF BarrierFlagInv, TypeInv, WordTypes, FrameTypes, ControlTypes
<1> USE DEF BarrierFlag
<1>1. CASE WordsKept
  BY <1>1 DEF WordsKept
<1>2. ASSUME NEW t \in Threads, RequestSuspend(t) \/ SuspendAllIncrement(t)
      PROVE  BarrierFlag(u)'
  BY <1>2 DEF RequestSuspend, SuspendAllIncrement, IncrementSuspendCount
<1>3. ASSUME NEW t \in Threads, Register(t)
      PROVE  BarrierFlag(u)'
  BY <1>3 DEF Register, IncrementSuspendCount
<1>4. ASSUME NEW t \in Threads, Resume(t) \/ ResumeAllDecrement(t)
      PROVE  BarrierFlag(u)'
  BY <1>4 DEF Resume, ResumeAllDecrement, DecrementSuspendCount
<1>5. ASSUME NEW t \in Threads, GiveUp(t)
      PROVE  BarrierFlag(u)'
  BY <1>5 DEF GiveUp, DecrementSuspendCount, InactiveBarrierFlag, RemoveSuspend1Barrier
<1>6. ASSUME NEW t \in Threads, CheckSuspended(t) \/ SuspendAllCheck(t)
      PROVE  BarrierFlag(u)'
  BY <1>6 DEF CheckSuspended, SuspendAllCheck, InactiveBarrierFlag, RemoveSuspend1Barrier
<1>7. ASSUME NEW t \in Threads, PassActiveSuspendBarriers(t)
      PROVE  BarrierFlag(u)'
  BY <1>7 DEF PassActiveSuspendBarriers
<1>8. ASSUME NEW t \in Threads, Unregister(t)
      PROVE  BarrierFlag(u)'
  <2>1. requests[t] = {}
    BY <1>8 DEF Unregister, CountsMatchRequests
  <2>2. suspendall_barrier[t] = None /\ suspend1_barriers[t] = {}
    BY <2>1 DEF SuspendAllInv, LinkedSuspendAll, Suspend1Inv, LinkedSuspend1, FrameInv, Frame
  <2> QED
    BY <1>8, <2>2 DEF Unregister
<1> HIDE DEF BarrierFlag
<1> QED
  BY <1>1, <1>2, <1>3, <1>4, <1>5, <1>6, <1>7, <1>8, WordsKeptStep, Zenon DEF WordStep

\* Threads change state in two steps only.
LEMMA StateKept ==
  ASSUME [Next]_vars
  PROVE  \/ UNCHANGED state
         \/ \E t \in Threads : \/ TransitionFromRunnableToSuspended(t)
                               \/ TransitionFromSuspendedToRunnable(t)
<1>0. UNCHANGED threadVars => UNCHANGED state
  BY DEF threadVars
<1>1. UNCHANGED vars => UNCHANGED state
  BY <1>0 DEF vars
<1>2. ASSUME NEW t \in Threads, StateChange(t)
      PROVE  \/ UNCHANGED state
             \/ TransitionFromRunnableToSuspended(t) \/ TransitionFromSuspendedToRunnable(t)
  BY <1>0, <1>2, Zenon
  DEF StateChange, CheckActiveSuspendBarriers, PassActiveSuspendBarriers, EnterRunnable,
      WaitForResume, Resumed
<1>3. ASSUME NEW t \in Threads, RetryStep(t) \/ TurnStep(t) \/ Attach(t)
      PROVE  UNCHANGED state
  BY <1>0, <1>3, Zenon
  DEF RetryStep, BackOff, Sleep, Relock, SuspendTimesOut,
      TurnStep, SuspendAll, SuspendAllBusy, WaitForOtherSuspendAll,
      Attach, Register, BeginUnregister, Unregister
<1>4. ASSUME NEW t \in Threads, PhaseStep(t) \/ Resume(t)
      PROVE  UNCHANGED state
  BY <1>0, <1>4, Zenon
  DEF PhaseStep, SuspendThreadByThreadId, FindThread, NoSuchThread, RequestSuspend,
      TargetExited, CheckSuspended, SuspendSucceeded, GiveUp, Resume
<1>5. ASSUME NEW t \in Threads, AllStep(t)
      PROVE  UNCHANGED state
  BY <1>0, <1>5, Zenon
  DEF AllStep, BeginSuspendAll, SuspendAllIncrement, SuspendAllCheck,
      SuspendAllRequested, AllSuspended, LockMutator, ResumeAll, ResumeAllDecrement,
      EndResumeAll
<1> QED
  BY <1>1, <1>2, <1>3, <1>4, <1>5, Steps, Zenon

\* A runnable thread still has to pass the barrier of every request.
LEMMA SuspendedStep ==
  ASSUME TypeInv, ControlInv, FrameInv, CountsMatchRequests, SuspendedInv, [Next]_vars
  PROVE  SuspendedInv'
<1> SUFFICES ASSUME NEW u \in Threads, None \notin Threads, All \notin Threads, Suspended(u),
                    list \subseteq Threads,
                    state \in [Threads -> {"kRunnable", "kSuspended"}],
                    requests \in [Threads -> SUBSET (Threads \cup {All})],
                    suspendall_barrier \in [Threads -> Threads \cup {None}],
                    suspend1_barriers \in [Threads -> SUBSET Threads],
                    todo \in [Threads -> SUBSET Threads]
             PROVE  Suspended(u)'
  BY ThreadsAssumption DEF SuspendedInv, TypeInv, WordTypes, FrameTypes, ControlTypes
<1>0. state'[u] = "kRunnable" => state[u] = "kRunnable" \/ requests[u] = {}
  <2>1. CASE UNCHANGED state
    BY <2>1
  <2>2. ASSUME NEW t \in Threads, TransitionFromRunnableToSuspended(t)
        PROVE  state'[u] = "kRunnable" => state[u] = "kRunnable"
    BY <2>2 DEF TransitionFromRunnableToSuspended
  <2>3. ASSUME NEW t \in Threads, TransitionFromSuspendedToRunnable(t)
        PROVE  state'[u] = "kRunnable" => state[u] = "kRunnable" \/ requests[u] = {}
    BY <2>3 DEF TransitionFromSuspendedToRunnable, kCheckedFlags, ThreadFlag, CountsMatchRequests
  <2> QED
    BY <2>1, <2>2, <2>3, StateKept, Zenon
<1> USE DEF Suspended
<1>1. CASE WordsKept
  BY <1>0, <1>1 DEF WordsKept
<1>2. ASSUME NEW t \in Threads, RequestSuspend(t) \/ SuspendAllIncrement(t)
      PROVE  Suspended(u)'
  BY <1>0, <1>2 DEF RequestSuspend, SuspendAllIncrement, IncrementSuspendCount
<1>3. ASSUME NEW t \in Threads, Resume(t) \/ ResumeAllDecrement(t)
      PROVE  Suspended(u)'
  BY <1>0, <1>3 DEF Resume, ResumeAllDecrement, DecrementSuspendCount
<1>4. ASSUME NEW t \in Threads, GiveUp(t)
      PROVE  Suspended(u)'
  BY <1>0, <1>4 DEF GiveUp, DecrementSuspendCount, RemoveSuspend1Barrier
<1>5. ASSUME NEW t \in Threads, CheckSuspended(t) \/ SuspendAllCheck(t)
      PROVE  Suspended(u)'
  BY <1>0, <1>5 DEF CheckSuspended, SuspendAllCheck, IsSuspended, RemoveSuspend1Barrier
<1>6. ASSUME NEW t \in Threads, PassActiveSuspendBarriers(t)
      PROVE  Suspended(u)'
  <2>1. state[t] # "kRunnable"
    BY <1>6 DEF PassActiveSuspendBarriers, ControlInv, Attached, RunnablePC
  <2> QED
    BY <1>6, <2>1 DEF PassActiveSuspendBarriers
<1>7. ASSUME NEW t \in Threads, Register(t) \/ Unregister(t)
      PROVE  Suspended(u)'
  <2>1. state[t] # "kRunnable"
    BY <1>7 DEF Register, Unregister, ControlInv, Attached, RunnablePC
  <2> QED
    BY <1>7, <2>1 DEF Register, Unregister, IncrementSuspendCount
<1> HIDE DEF Suspended
<1> QED
  BY <1>1, <1>2, <1>3, <1>4, <1>5, <1>6, <1>7, WordsKeptStep, Zenon DEF WordStep

\* Nobody is left waiting on resume_cond_ for nothing.
LEMMA WakeupStep ==
  ASSUME TypeInv, WakeupInv, [Next]_vars
  PROVE  WakeupInv'
<1> SUFFICES ASSUME NEW u \in Threads, Wakeup(u), pc \in [Threads -> PC],
                    flags \in [Threads -> SUBSET ThreadFlag]
             PROVE  Wakeup(u)'
  BY DEF WakeupInv, TypeInv, WordTypes, ControlTypes
<1> USE DEF Wakeup, Goto, GotoAndReturn, Broadcast
<1>0. /\ UNCHANGED threadVars => UNCHANGED flags
      /\ UNCHANGED allVars => UNCHANGED suspend_all_count
  BY DEF threadVars, allVars
<1>1. CASE UNCHANGED vars
  BY <1>0, <1>1 DEF vars
<1>2. ASSUME NEW t \in Threads, StateChange(t)
      PROVE  Wakeup(u)'
  <2>1. CASE TransitionFromRunnableToSuspended(t) \/ CheckActiveSuspendBarriers(t)
             \/ EnterRunnable(t)
    BY <1>0, <2>1 DEF TransitionFromRunnableToSuspended, CheckActiveSuspendBarriers, EnterRunnable
  <2>2. CASE TransitionFromSuspendedToRunnable(t) \/ PassActiveSuspendBarriers(t)
    BY <1>0, <2>2 DEF TransitionFromSuspendedToRunnable, PassActiveSuspendBarriers
  <2>3. CASE WaitForResume(t) \/ Resumed(t)
    BY <1>0, <2>3 DEF WaitForResume, Resumed
  <2> HIDE DEF Wakeup
  <2> QED
    BY <1>2, <2>1, <2>2, <2>3, Zenon DEF StateChange
<1>3. ASSUME NEW t \in Threads, RetryStep(t)
      PROVE  Wakeup(u)'
  BY <1>0, <1>3 DEF RetryStep, BackOff, Sleep, Relock, SuspendTimesOut
<1>4. ASSUME NEW t \in Threads, PhaseStep(t)
      PROVE  Wakeup(u)'
  <2>1. CASE SuspendThreadByThreadId(t) \/ FindThread(t) \/ NoSuchThread(t)
    BY <1>0, <2>1 DEF SuspendThreadByThreadId, FindThread, NoSuchThread
  <2>2. CASE TargetExited(t) \/ SuspendSucceeded(t) \/ GiveUp(t)
    BY <1>0, <2>2 DEF TargetExited, SuspendSucceeded, GiveUp
  <2>3. CASE RequestSuspend(t) \/ CheckSuspended(t)
    BY <1>0, <2>3 DEF RequestSuspend, IncrementSuspendCount, CheckSuspended, InactiveBarrierFlag
  <2> HIDE DEF Wakeup
  <2> QED
    BY <1>4, <2>1, <2>2, <2>3, Zenon DEF PhaseStep
<1>5. ASSUME NEW t \in Threads, Resume(t)
      PROVE  Wakeup(u)'
  BY <1>5 DEF Resume
<1>6. ASSUME NEW t \in Threads, TurnStep(t)
      PROVE  Wakeup(u)'
  BY <1>0, <1>6 DEF TurnStep, SuspendAll, SuspendAllBusy, WaitForOtherSuspendAll
<1>7. ASSUME NEW t \in Threads, AllStep(t)
      PROVE  Wakeup(u)'
  <2>1. CASE BeginSuspendAll(t) \/ SuspendAllRequested(t) \/ AllSuspended(t)
    BY <1>0, <2>1 DEF BeginSuspendAll, SuspendAllRequested, AllSuspended
  <2>2. CASE LockMutator(t) \/ ResumeAll(t) \/ EndResumeAll(t)
    BY <1>0, <2>2 DEF LockMutator, ResumeAll, EndResumeAll
  <2>3. CASE SuspendAllIncrement(t) \/ SuspendAllCheck(t)
    BY <2>3 DEF SuspendAllIncrement, IncrementSuspendCount, SuspendAllCheck, InactiveBarrierFlag
  <2>4. CASE ResumeAllDecrement(t)
    BY <2>4 DEF ResumeAllDecrement
  <2> HIDE DEF Wakeup
  <2> QED
    BY <1>7, <2>1, <2>2, <2>3, <2>4, Zenon DEF AllStep
<1>8. ASSUME NEW t \in Threads, Attach(t)
      PROVE  Wakeup(u)'
  BY <1>0, <1>8 DEF Attach, Register, BeginUnregister, Unregister, IncrementSuspendCount
<1> HIDE DEF Wakeup
<1> QED
  BY <1>1, <1>2, <1>3, <1>4, <1>5, <1>6, <1>7, <1>8, Steps, Zenon

===============================================================================
