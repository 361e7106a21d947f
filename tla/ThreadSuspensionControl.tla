------------------------ MODULE ThreadSuspensionControl ------------------------
(*****************************************************************************)
(* What the steps of ThreadSuspension leave alone, and the layers of its     *)
(* invariant about control: types, where each thread is and what it has      *)
(* locked, the one SuspendAll and the requests it has made.                  *)
(*****************************************************************************)
EXTENDS ThreadSuspensionInv, TLAPS

\* The time the solver has for a step.
USE SMTT(30)

\* Steps of SuspendThread that neither reach nor leave one of its phases.
RetryStep(s) == BackOff(s) \/ Sleep(s) \/ Relock(s) \/ SuspendTimesOut(s)

\* Steps of SuspendThread that do.
PhaseStep(s) ==
  \/ SuspendThreadByThreadId(s)
  \/ FindThread(s)
  \/ NoSuchThread(s)
  \/ RequestSuspend(s)
  \/ TargetExited(s)
  \/ CheckSuspended(s)
  \/ SuspendSucceeded(s)
  \/ GiveUp(s)

\* Steps of a SuspendAll that waits for its turn.
TurnStep(s) == SuspendAll(s) \/ SuspendAllBusy(s) \/ WaitForOtherSuspendAll(s)

\* Steps of the SuspendAll, or ResumeAll, whose turn it is.
AllStep(s) ==
  \/ BeginSuspendAll(s)
  \/ SuspendAllIncrement(s)
  \/ SuspendAllCheck(s)
  \/ SuspendAllRequested(s)
  \/ AllSuspended(s)
  \/ LockMutator(s)
  \/ ResumeAll(s)
  \/ ResumeAllDecrement(s)
  \/ EndResumeAll(s)

\* The steps, in these groups.
LEMMA Steps ==
  [Next]_vars =>
    \/ UNCHANGED vars
    \/ \E t \in Threads : \/ StateChange(t) \/ RetryStep(t) \/ PhaseStep(t) \/ Resume(t)
                          \/ TurnStep(t) \/ AllStep(t) \/ Attach(t)
BY DEF Next, SuspendOne, StopTheWorld, RetryStep, PhaseStep, TurnStep, AllStep

-------------------------------------------------------------------------------
\* The frames of SuspendThread are as they were, and so are their requests.
FramesKept ==
  /\ UNCHANGED target
  /\ \A s \in Threads :
       /\ Seeking(s)' <=> Seeking(s)
       /\ Watching(s)' <=> Watching(s)
       /\ Waiting(s)' <=> Waiting(s)
       /\ pc'[s] = "st_check" => pc[s] = "st_check"
       /\ pc'[s] = "st_try" => pc[s] = "st_try" \/ s \notin exited
       /\ \A t \in Threads : s \in requests'[t] <=> s \in requests[t]

\* The SuspendAll in progress is as it was, and so are its requests.
AllKept ==
  /\ UNCHANGED <<list, suspend_all_count, todo, current>>
  /\ \A s \in Threads :
       /\ pc[s] \in AllPC \/ pc'[s] \in AllPC => pc'[s] = pc[s]
       /\ All \in requests'[s] <=> All \in requests[s]

\* Requests, barriers and the flags that announce them are as they were.
WordsKept ==
  /\ UNCHANGED <<list, suspend_count, requests, suspendall_barrier, suspend1_barriers>>
  /\ flags' \in [Threads -> SUBSET ThreadFlag]
  /\ \A t \in Threads :
       /\ "kSuspendRequest" \in flags'[t] <=> "kSuspendRequest" \in flags[t]
       /\ "kActiveSuspendBarrier" \in flags'[t] <=> "kActiveSuspendBarrier" \in flags[t]

\* Changes of thread state, retries, SuspendAll and attaching keep the frames of SuspendThread.
LEMMA FramesKeptStep ==
  ASSUME TypeInv, ControlInv, NEW t \in Threads
  PROVE  StateChange(t) \/ RetryStep(t) \/ TurnStep(t) \/ AllStep(t) \/ Attach(t) => FramesKept
<1> SUFFICES ASSUME None \notin Threads, All \notin Threads, Returns(t),
                    pc \in [Threads -> PC], ret \in [Threads -> Return],
                    requests \in [Threads -> SUBSET (Threads \cup {All})],
                    todo \in [Threads -> SUBSET Threads]
             PROVE  StateChange(t) \/ RetryStep(t) \/ TurnStep(t) \/ AllStep(t) \/ Attach(t)
                      => FramesKept
  BY ThreadsAssumption DEF TypeInv, WordTypes, FrameTypes, ControlTypes, ControlInv
<1> USE DEF FramesKept, Seeking, Watching, Waiting, Returns, LeavingPC, EnteringPC,
            Goto, GotoAndReturn, threadVars, exitVars, oneVars, allVars
<1>1. ASSUME StateChange(t)
      PROVE  FramesKept
  <2>1. CASE TransitionFromRunnableToSuspended(t) \/ CheckActiveSuspendBarriers(t)
    BY <2>1 DEF TransitionFromRunnableToSuspended, CheckActiveSuspendBarriers
  <2>2. CASE EnterRunnable(t) \/ TransitionFromSuspendedToRunnable(t)
    BY <2>2 DEF EnterRunnable, TransitionFromSuspendedToRunnable
  <2>3. CASE WaitForResume(t) \/ Resumed(t) \/ PassActiveSuspendBarriers(t)
    BY <2>3 DEF WaitForResume, Resumed, PassActiveSuspendBarriers
  <2> HIDE DEF FramesKept
  <2> QED
    BY <1>1, <2>1, <2>2, <2>3, Zenon DEF StateChange
<1>2. ASSUME RetryStep(t)
      PROVE  FramesKept
  BY <1>2 DEF RetryStep, BackOff, Sleep, Relock, SuspendTimesOut
<1>3. ASSUME TurnStep(t)
      PROVE  FramesKept
  BY <1>3 DEF TurnStep, SuspendAll, SuspendAllBusy, WaitForOtherSuspendAll
<1>4. ASSUME AllStep(t)
      PROVE  FramesKept
  <2>1. CASE BeginSuspendAll(t) \/ SuspendAllCheck(t) \/ SuspendAllRequested(t)
    BY <2>1 DEF BeginSuspendAll, SuspendAllCheck, SuspendAllRequested
  <2>2. CASE AllSuspended(t) \/ LockMutator(t) \/ ResumeAll(t) \/ EndResumeAll(t)
    BY <2>2 DEF AllSuspended, LockMutator, ResumeAll, EndResumeAll
  <2>3. CASE SuspendAllIncrement(t) \/ ResumeAllDecrement(t)
    BY <2>3 DEF SuspendAllIncrement, ResumeAllDecrement, IncrementSuspendCount,
                DecrementSuspendCount
  <2> HIDE DEF FramesKept
  <2> QED
    BY <1>4, <2>1, <2>2, <2>3, Zenon DEF AllStep
<1>5. ASSUME Attach(t)
      PROVE  FramesKept
  BY <1>5 DEF Attach, Register, BeginUnregister, Unregister, IncrementSuspendCount
<1> HIDE DEF FramesKept
<1> QED
  BY <1>1, <1>2, <1>3, <1>4, <1>5, Zenon

\* Changes of thread state, SuspendThread and Resume keep SuspendAll.
LEMMA AllKeptStep ==
  ASSUME TypeInv, ControlInv, NEW t \in Threads
  PROVE  (\/ StateChange(t) \/ RetryStep(t) \/ PhaseStep(t) \/ Resume(t) \/ TurnStep(t)
          \/ BeginUnregister(t)) => AllKept
<1> SUFFICES ASSUME All \notin Threads, Returns(t), list \subseteq Threads,
                    pc \in [Threads -> PC], ret \in [Threads -> Return],
                    target \in [Threads -> Threads \cup {None}],
                    requests \in [Threads -> SUBSET (Threads \cup {All})]
             PROVE  (\/ StateChange(t) \/ RetryStep(t) \/ PhaseStep(t) \/ Resume(t)
                     \/ TurnStep(t) \/ BeginUnregister(t)) => AllKept
  BY ThreadsAssumption DEF TypeInv, WordTypes, FrameTypes, ControlTypes, ControlInv
<1> USE DEF AllKept, AllPC, Goto, GotoAndReturn, threadVars, exitVars, oneVars, allVars
<1>1. ASSUME StateChange(t)
      PROVE  AllKept
  <2>1. CASE TransitionFromRunnableToSuspended(t) \/ CheckActiveSuspendBarriers(t)
    BY <2>1 DEF TransitionFromRunnableToSuspended, CheckActiveSuspendBarriers, Returns,
                LeavingPC, EnteringPC
  <2>2. CASE EnterRunnable(t) \/ TransitionFromSuspendedToRunnable(t)
    BY <2>2 DEF EnterRunnable, TransitionFromSuspendedToRunnable, Returns, LeavingPC,
                EnteringPC
  <2>3. CASE WaitForResume(t) \/ Resumed(t) \/ PassActiveSuspendBarriers(t)
    BY <2>3 DEF WaitForResume, Resumed, PassActiveSuspendBarriers
  <2> HIDE DEF AllKept
  <2> QED
    BY <1>1, <2>1, <2>2, <2>3, Zenon DEF StateChange
<1>2. ASSUME RetryStep(t)
      PROVE  AllKept
  BY <1>2 DEF RetryStep, BackOff, Sleep, Relock, SuspendTimesOut
<1>3. ASSUME PhaseStep(t)
      PROVE  AllKept
  <2>1. CASE SuspendThreadByThreadId(t) \/ FindThread(t) \/ NoSuchThread(t) \/ TargetExited(t)
    BY <2>1 DEF SuspendThreadByThreadId, FindThread, NoSuchThread, TargetExited
  <2>2. CASE SuspendSucceeded(t) \/ CheckSuspended(t)
    BY <2>2 DEF SuspendSucceeded, CheckSuspended
  <2>3. CASE RequestSuspend(t) \/ GiveUp(t)
    BY <2>3 DEF RequestSuspend, GiveUp, IncrementSuspendCount, DecrementSuspendCount
  <2> HIDE DEF AllKept
  <2> QED
    BY <1>3, <2>1, <2>2, <2>3, Zenon DEF PhaseStep
<1>4. ASSUME Resume(t)
      PROVE  AllKept
  BY <1>4 DEF Resume, DecrementSuspendCount
<1>5. ASSUME TurnStep(t) \/ BeginUnregister(t)
      PROVE  AllKept
  BY <1>5 DEF TurnStep, SuspendAll, SuspendAllBusy, WaitForOtherSuspendAll, BeginUnregister
<1> HIDE DEF AllKept
<1> QED
  BY <1>1, <1>2, <1>3, <1>4, <1>5, Zenon

\* Steps that change a request, a barrier or a flag that announces one, or who is attached.
WordStep(t) ==
  \/ PassActiveSuspendBarriers(t)
  \/ RequestSuspend(t)
  \/ CheckSuspended(t)
  \/ GiveUp(t)
  \/ Resume(t)
  \/ SuspendAllIncrement(t)
  \/ SuspendAllCheck(t)
  \/ ResumeAllDecrement(t)
  \/ Register(t)
  \/ Unregister(t)

\* The other steps keep requests, barriers and flags.
LEMMA WordsKeptStep ==
  ASSUME TypeInv, [Next]_vars
  PROVE  WordsKept \/ \E t \in Threads : WordStep(t)
<1> SUFFICES ASSUME flags \in [Threads -> SUBSET ThreadFlag]
             PROVE  WordsKept \/ \E t \in Threads : WordStep(t)
  BY DEF TypeInv, WordTypes
<1> USE DEF WordsKept, threadVars
<1>1. ASSUME UNCHANGED vars
      PROVE  WordsKept
  BY <1>1 DEF vars
<1>2. ASSUME NEW t \in Threads, StateChange(t)
      PROVE  WordsKept \/ PassActiveSuspendBarriers(t)
  BY <1>2 DEF StateChange, TransitionFromRunnableToSuspended, CheckActiveSuspendBarriers,
              EnterRunnable, TransitionFromSuspendedToRunnable, WaitForResume, Resumed
<1>3. ASSUME NEW t \in Threads, RetryStep(t) \/ TurnStep(t) \/ BeginUnregister(t)
      PROVE  WordsKept
  BY <1>3 DEF RetryStep, BackOff, Sleep, Relock, SuspendTimesOut, TurnStep, SuspendAll,
              SuspendAllBusy, WaitForOtherSuspendAll, BeginUnregister
<1>4. ASSUME NEW t \in Threads, PhaseStep(t)
      PROVE  WordsKept \/ RequestSuspend(t) \/ CheckSuspended(t) \/ GiveUp(t)
  BY <1>4 DEF PhaseStep, SuspendThreadByThreadId, FindThread, NoSuchThread, TargetExited,
              SuspendSucceeded
<1>5. ASSUME NEW t \in Threads, AllStep(t)
      PROVE  \/ WordsKept \/ SuspendAllIncrement(t) \/ SuspendAllCheck(t)
             \/ ResumeAllDecrement(t)
  BY <1>5 DEF AllStep, BeginSuspendAll, SuspendAllRequested, AllSuspended, LockMutator,
              ResumeAll, EndResumeAll, ThreadFlag
<1> HIDE DEF WordsKept
<1> QED
  BY <1>1, <1>2, <1>3, <1>4, <1>5, Steps, Zenon DEF WordStep, Attach

-------------------------------------------------------------------------------
\* Every step keeps the types of the words, ...
LEMMA WordTypesStep ==
  ASSUME TypeInv, FrameInv, AllRequestsInv, [Next]_vars
  PROVE  WordTypes'
<1>0. /\ WordTypes /\ FrameTypes /\ list \subseteq Threads
  BY DEF TypeInv, ControlTypes
<1>t. ASSUME NEW t \in Threads
      PROVE  /\ pc[t] \in {"st_try", "st_check", "st_timeout"} => target[t] \in Threads
             /\ pc[t] = "sa_check" => current[t] \in Threads
  BY <1>0 DEF FrameInv, Frame, Seeking, Watching, Waiting, AllRequestsInv, AllLoop, FrameTypes
<1> USE DEF threadVars
<1>1. CASE WordsKept
  BY <1>0, <1>1 DEF WordTypes, WordsKept
<1>2. ASSUME NEW t \in Threads, RequestSuspend(t) \/ SuspendAllIncrement(t) \/ Register(t)
      PROVE  WordTypes'
  BY <1>0, <1>2, <1>t, ThreadsAssumption
  DEF RequestSuspend, SuspendAllIncrement, Register, IncrementSuspendCount, WordTypes,
      FrameTypes, ThreadFlag
<1>3. ASSUME NEW t \in Threads, Resume(t) \/ ResumeAllDecrement(t)
      PROVE  WordTypes'
  BY <1>0, <1>3 DEF Resume, ResumeAllDecrement, DecrementSuspendCount, WordTypes, FrameTypes
<1>4. ASSUME NEW t \in Threads, GiveUp(t)
      PROVE  WordTypes'
  <2>1. target[t] \in Threads
    BY <1>4, <1>t DEF GiveUp
  <2>2. UNCHANGED suspendall_barrier /\ suspend1_barriers' \in [Threads -> SUBSET Threads]
    BY <1>0, <1>4, <2>1 DEF GiveUp, RemoveSuspend1Barrier, WordTypes
  <2>3. /\ flags' \in [Threads -> SUBSET ThreadFlag]
        /\ suspend_count' \in [Threads -> Int]
        /\ requests' \in [Threads -> SUBSET (Threads \cup {All})]
    BY <1>0, <1>4, <2>1 DEF GiveUp, DecrementSuspendCount, WordTypes
  <2> QED
    BY <1>0, <2>2, <2>3 DEF WordTypes
<1>5. ASSUME NEW t \in Threads, CheckSuspended(t)
      PROVE  WordTypes'
  BY <1>0, <1>5, <1>t DEF CheckSuspended, RemoveSuspend1Barrier, WordTypes
<1>6. ASSUME NEW t \in Threads, SuspendAllCheck(t)
      PROVE  WordTypes'
  BY <1>0, <1>6, <1>t DEF SuspendAllCheck, WordTypes
<1>7. ASSUME NEW t \in Threads, PassActiveSuspendBarriers(t) \/ Unregister(t)
      PROVE  WordTypes'
  <2>1. /\ UNCHANGED suspend_count /\ UNCHANGED requests
        /\ flags' \in {[flags EXCEPT ![t] = @ \ {"kActiveSuspendBarrier"}],
                      [flags EXCEPT ![t] = {}]}
        /\ suspendall_barrier' \in {suspendall_barrier, [suspendall_barrier EXCEPT ![t] = None]}
        /\ suspend1_barriers' \in {suspend1_barriers, [suspend1_barriers EXCEPT ![t] = {}]}
    BY <1>7, Zenon DEF PassActiveSuspendBarriers, Unregister
  <2> QED
    BY <1>0, <2>1 DEF WordTypes
<1> QED
  BY <1>1, <1>2, <1>3, <1>4, <1>5, <1>6, <1>7, WordsKeptStep, Zenon DEF WordStep

\* ... those of the frames ...
LEMMA FrameTypesStep ==
  ASSUME TypeInv, Cardinality(list) \in Int, [Next]_vars
  PROVE  FrameTypes'
<1>0. FrameTypes /\ list \subseteq Threads
  BY DEF TypeInv, ControlTypes
<1>1. CASE UNCHANGED oneVars /\ UNCHANGED allVars
  BY <1>0, <1>1 DEF FrameTypes, oneVars, allVars
<1>2. ASSUME NEW t \in Threads, StateChange(t)
      PROVE  FrameTypes'
  <2>1. CASE PassActiveSuspendBarriers(t)
    BY <1>0, <2>1 DEF PassActiveSuspendBarriers, FrameTypes
  <2> QED
    BY <1>1, <1>2, <2>1, Zenon
    DEF StateChange, TransitionFromRunnableToSuspended, CheckActiveSuspendBarriers,
        EnterRunnable, TransitionFromSuspendedToRunnable, WaitForResume, Resumed
<1>3. ASSUME NEW t \in Threads, RetryStep(t) \/ TurnStep(t) \/ Attach(t) \/ Resume(t)
      PROVE  FrameTypes'
  BY <1>1, <1>3, Zenon
  DEF RetryStep, BackOff, Sleep, Relock, SuspendTimesOut, TurnStep, SuspendAll, SuspendAllBusy,
      WaitForOtherSuspendAll, Attach, Register, BeginUnregister, Unregister, Resume
<1>4. ASSUME NEW t \in Threads, PhaseStep(t)
      PROVE  FrameTypes'
  <2>1. CASE SuspendThreadByThreadId(t)
    BY <1>0, <2>1, ThreadsAssumption DEF SuspendThreadByThreadId, FrameTypes, allVars
  <2>2. CASE FindThread(t) \/ NoSuchThread(t) \/ TargetExited(t)
    BY <1>0, <2>2 DEF FindThread, NoSuchThread, TargetExited, FrameTypes, allVars
  <2>3. CASE CheckSuspended(t) \/ SuspendSucceeded(t) \/ GiveUp(t)
    BY <1>0, <2>3 DEF CheckSuspended, SuspendSucceeded, GiveUp, FrameTypes, allVars
  <2> QED
    BY <1>1, <1>4, <2>1, <2>2, <2>3, Zenon DEF PhaseStep, RequestSuspend
<1>5. ASSUME NEW t \in Threads, AllStep(t)
      PROVE  FrameTypes'
  <2>1. CASE BeginSuspendAll(t)
    BY <1>0, <2>1 DEF BeginSuspendAll, FrameTypes, oneVars
  <2>2. CASE SuspendAllIncrement(t) \/ SuspendAllCheck(t)
    BY <1>0, <2>2 DEF SuspendAllIncrement, SuspendAllCheck, FrameTypes, oneVars
  <2>3. CASE ResumeAll(t) \/ ResumeAllDecrement(t) \/ EndResumeAll(t)
    BY <1>0, <2>3 DEF ResumeAll, ResumeAllDecrement, EndResumeAll, FrameTypes, oneVars
  <2> QED
    BY <1>1, <1>5, <2>1, <2>2, <2>3, Zenon
    DEF AllStep, SuspendAllRequested, AllSuspended, LockMutator
<1> QED
  BY <1>1, <1>2, <1>3, <1>4, <1>5, Steps DEF vars

\* ... and those of the rest.
LEMMA ControlTypesStep ==
  ASSUME TypeInv, [Next]_vars
  PROVE  ControlTypes'
<1>0. ControlTypes /\ Return \subseteq PC
  BY DEF TypeInv, Return, PC
<1> USE <1>0 DEF Goto, GotoAndReturn, Return, PC
<1>1. CASE UNCHANGED <<threadVars, exitVars, lockVars, mutatorVars, resume_waiters, pc, ret>>
  BY <1>1 DEF ControlTypes, threadVars, exitVars, lockVars, mutatorVars
<1>2. ASSUME NEW t \in Threads, StateChange(t)
      PROVE  ControlTypes'
  <2> USE DEF ControlTypes, exitVars, lockVars, mutatorVars
  <2>1. CASE TransitionFromRunnableToSuspended(t) \/ CheckActiveSuspendBarriers(t)
    BY <2>1 DEF TransitionFromRunnableToSuspended, CheckActiveSuspendBarriers, threadVars
  <2>2. CASE PassActiveSuspendBarriers(t) \/ EnterRunnable(t)
    BY <2>2 DEF PassActiveSuspendBarriers, EnterRunnable, threadVars
  <2>3. CASE TransitionFromSuspendedToRunnable(t) \/ WaitForResume(t) \/ Resumed(t)
    BY <2>3 DEF TransitionFromSuspendedToRunnable, WaitForResume, Resumed, threadVars
  <2> HIDE DEF ControlTypes
  <2> QED
    BY <1>2, <2>1, <2>2, <2>3, Zenon DEF StateChange
<1>3. ASSUME NEW t \in Threads, RetryStep(t)
      PROVE  ControlTypes'
  BY <1>3 DEF RetryStep, BackOff, Sleep, Relock, SuspendTimesOut, ControlTypes, threadVars,
              exitVars, lockVars, mutatorVars
<1>4. ASSUME NEW t \in Threads, PhaseStep(t) \/ Resume(t)
      PROVE  ControlTypes'
  <2> USE DEF ControlTypes, exitVars, lockVars, mutatorVars
  <2>1. CASE SuspendThreadByThreadId(t) \/ NoSuchThread(t) \/ TargetExited(t)
    BY <2>1 DEF SuspendThreadByThreadId, NoSuchThread, TargetExited, threadVars
  <2>2. CASE FindThread(t) \/ RequestSuspend(t) \/ SuspendSucceeded(t)
    BY <2>2 DEF FindThread, RequestSuspend, SuspendSucceeded, threadVars
  <2>3. CASE CheckSuspended(t) \/ GiveUp(t) \/ Resume(t)
    BY <2>3 DEF CheckSuspended, GiveUp, Resume, ReleaseLocks, Broadcast
  <2> HIDE DEF ControlTypes
  <2> QED
    BY <1>4, <2>1, <2>2, <2>3, Zenon DEF PhaseStep
<1>5. ASSUME NEW t \in Threads, TurnStep(t)
      PROVE  ControlTypes'
  BY <1>5 DEF TurnStep, SuspendAll, SuspendAllBusy, WaitForOtherSuspendAll, ControlTypes,
              threadVars, exitVars, lockVars, mutatorVars
<1>6. ASSUME NEW t \in Threads, AllStep(t)
      PROVE  ControlTypes'
  <2> USE DEF ControlTypes, exitVars, lockVars, mutatorVars, TakeLocks, ReleaseLocks
  <2>1. CASE BeginSuspendAll(t) \/ SuspendAllIncrement(t) \/ SuspendAllCheck(t)
    BY <2>1 DEF BeginSuspendAll, SuspendAllIncrement, SuspendAllCheck, threadVars
  <2>2. CASE SuspendAllRequested(t) \/ AllSuspended(t) \/ LockMutator(t)
    BY <2>2 DEF SuspendAllRequested, AllSuspended, LockMutator, threadVars
  <2>3. CASE ResumeAll(t) \/ ResumeAllDecrement(t) \/ EndResumeAll(t)
    BY <2>3 DEF ResumeAll, ResumeAllDecrement, EndResumeAll, Broadcast, threadVars
  <2> HIDE DEF ControlTypes
  <2> QED
    BY <1>6, <2>1, <2>2, <2>3, Zenon DEF AllStep
<1>7. ASSUME NEW t \in Threads, Attach(t)
      PROVE  ControlTypes'
  BY <1>7 DEF Attach, Register, BeginUnregister, Unregister, ControlTypes, threadVars,
              exitVars, lockVars, mutatorVars
<1> QED
  BY <1>1, <1>2, <1>3, <1>4, <1>5, <1>6, <1>7, Steps DEF vars

\* Where a thread is determines its state and its locks.
LEMMA ControlStep ==
  ASSUME TypeInv, ControlInv, [Next]_vars
  PROVE  ControlInv'
<1> SUFFICES ASSUME NEW u \in Threads, None \notin Threads, list \subseteq Threads,
                    pc \in [Threads -> PC], ret \in [Threads -> Return],
                    state \in [Threads -> {"kRunnable", "kSuspended"}],
                    Returns(u), Attached(u), Locked(u)
             PROVE  Returns(u)' /\ Attached(u)' /\ Locked(u)'
  BY ThreadsAssumption DEF ControlInv, TypeInv, ControlTypes
<1> DEFINE Control(t) == Returns(t) /\ Attached(t) /\ Locked(t)
<1> USE DEF Goto, GotoAndReturn, LocksFree, TakeLocks, ReleaseLocks
<1>1. ASSUME UNCHANGED vars
      PROVE  Control(u)'
  BY <1>1 DEF vars, Returns, Attached, Locked, threadVars, lockVars, mutatorVars
<1>2. ASSUME NEW t \in Threads, StateChange(t)
      PROVE  Control(u)'
  <2>0. Control(t)
    BY DEF ControlInv
  <2> USE <2>0 DEF Returns, Attached, Locked, LeavingPC, EnteringPC, RunnablePC, ListLockPC,
                   CountLockPC, lockVars, mutatorVars
  <2>1. CASE TransitionFromRunnableToSuspended(t) \/ CheckActiveSuspendBarriers(t)
    BY <2>1 DEF TransitionFromRunnableToSuspended, CheckActiveSuspendBarriers, threadVars
  <2>2. CASE TransitionFromSuspendedToRunnable(t) \/ EnterRunnable(t)
    BY <2>2 DEF TransitionFromSuspendedToRunnable, EnterRunnable, threadVars
  <2>3. CASE PassActiveSuspendBarriers(t) \/ WaitForResume(t) \/ Resumed(t)
    BY <2>3 DEF PassActiveSuspendBarriers, WaitForResume, Resumed, threadVars
  <2> HIDE DEF Control, Returns, Attached, Locked
  <2> QED
    BY <1>2, <2>1, <2>2, <2>3, Zenon DEF StateChange
<1>3. ASSUME NEW t \in Threads, RetryStep(t) \/ TurnStep(t)
      PROVE  Control(u)'
  <2>0. Control(t)
    BY DEF ControlInv
  <2> USE <2>0 DEF Returns, Attached, Locked, LeavingPC, EnteringPC, RunnablePC, ListLockPC,
                   CountLockPC, lockVars, mutatorVars, threadVars
  <2>1. CASE RetryStep(t)
    BY <2>1 DEF RetryStep, BackOff, Sleep, Relock, SuspendTimesOut
  <2>2. CASE TurnStep(t)
    BY <2>2 DEF TurnStep, SuspendAll, SuspendAllBusy, WaitForOtherSuspendAll
  <2> HIDE DEF Control, Returns, Attached, Locked
  <2> QED
    BY <1>3, <2>1, <2>2, Zenon
<1>4. ASSUME NEW t \in Threads, PhaseStep(t) \/ Resume(t)
      PROVE  Control(u)'
  <2>0. Control(t)
    BY DEF ControlInv
  <2> USE <2>0 DEF Returns, Attached, Locked, LeavingPC, EnteringPC, RunnablePC, ListLockPC,
                   CountLockPC, lockVars, mutatorVars, threadVars
  <2>1. CASE SuspendThreadByThreadId(t) \/ FindThread(t)
    BY <2>1 DEF SuspendThreadByThreadId, FindThread
  <2>2. CASE NoSuchThread(t) \/ TargetExited(t)
    BY <2>2 DEF NoSuchThread, TargetExited
  <2>3. CASE RequestSuspend(t) \/ SuspendSucceeded(t)
    BY <2>3 DEF RequestSuspend, SuspendSucceeded
  <2>4. CASE CheckSuspended(t)
    BY <2>4 DEF CheckSuspended
  <2>5. CASE GiveUp(t) \/ Resume(t)
    BY <2>5 DEF GiveUp, Resume
  <2> HIDE DEF Control, Returns, Attached, Locked
  <2> QED
    BY <1>4, <2>1, <2>2, <2>3, <2>4, <2>5, Zenon DEF PhaseStep
<1>5. ASSUME NEW t \in Threads, AllStep(t)
      PROVE  Control(u)'
  <2>0. Control(t)
    BY DEF ControlInv
  <2> USE <2>0 DEF Returns, Attached, Locked, LeavingPC, EnteringPC, RunnablePC, ListLockPC,
                   CountLockPC, lockVars, mutatorVars, threadVars
  <2>1. CASE BeginSuspendAll(t) \/ SuspendAllIncrement(t) \/ SuspendAllCheck(t)
    BY <2>1 DEF BeginSuspendAll, SuspendAllIncrement, SuspendAllCheck
  <2>2. CASE SuspendAllRequested(t) \/ AllSuspended(t) \/ LockMutator(t)
    BY <2>2 DEF SuspendAllRequested, AllSuspended, LockMutator
  <2>3. CASE ResumeAll(t) \/ ResumeAllDecrement(t) \/ EndResumeAll(t)
    BY <2>3 DEF ResumeAll, ResumeAllDecrement, EndResumeAll
  <2> HIDE DEF Control, Returns, Attached, Locked
  <2> QED
    BY <1>5, <2>1, <2>2, <2>3, Zenon DEF AllStep
<1>6. ASSUME NEW t \in Threads, Attach(t)
      PROVE  Control(u)'
  <2>0. Control(t)
    BY DEF ControlInv
  <2> QED
    BY <1>6, <2>0 DEF Attach, Register, BeginUnregister, Unregister, Returns, Attached, Locked,
      LeavingPC, EnteringPC, RunnablePC, ListLockPC, CountLockPC, threadVars, lockVars,
      mutatorVars
<1> HIDE DEF Control
<1>7. Control(u)'
  BY <1>1, <1>2, <1>3, <1>4, <1>5, <1>6, Steps, Zenon
<1> QED
  BY <1>7 DEF Control

\* At most one SuspendAll is in progress, and suspend_all_count_ says whether one is.
LEMMA AllInvStep ==
  ASSUME TypeInv, ControlInv, AllInv, [Next]_vars
  PROVE  AllInv'
<1> SUFFICES ASSUME pc \in [Threads -> PC]
             PROVE  AllInv'
  BY DEF TypeInv, ControlTypes
<1> USE DEF Goto
<1>1. CASE UNCHANGED vars
  BY <1>1 DEF AllInv, OneSuspendAll, vars, allVars
<1>2. CASE AllKept
  BY <1>2 DEF AllKept, AllInv, OneSuspendAll, AllPC
<1>3. ASSUME NEW t \in Threads, BeginSuspendAll(t)
      PROVE  AllInv'
  BY <1>3 DEF BeginSuspendAll, AllInv, OneSuspendAll, AllPC
<1>4. ASSUME NEW t \in Threads, EndResumeAll(t)
      PROVE  AllInv'
  BY <1>4 DEF EndResumeAll, AllInv, OneSuspendAll, AllPC
<1>5. ASSUME NEW t \in Threads,
             \/ SuspendAllIncrement(t) \/ SuspendAllCheck(t) \/ SuspendAllRequested(t)
             \/ AllSuspended(t) \/ LockMutator(t) \/ ResumeAll(t) \/ ResumeAllDecrement(t)
      PROVE  AllInv'
  <2> DEFINE Onward == /\ pc[t] \in AllPC /\ UNCHANGED suspend_all_count
                       /\ \E there \in AllPC : pc' = [pc EXCEPT ![t] = there]
  <2>1. CASE SuspendAllIncrement(t) \/ SuspendAllCheck(t) \/ ResumeAll(t)
    <3>1. Onward
      BY <2>1, Zenon DEF SuspendAllIncrement, SuspendAllCheck, ResumeAll, AllPC
    <3> QED
      BY <3>1 DEF AllInv, OneSuspendAll, AllPC
  <2>2. CASE SuspendAllRequested(t) \/ AllSuspended(t) \/ LockMutator(t)
    <3>1. Onward
      BY <2>2, Zenon DEF SuspendAllRequested, AllSuspended, LockMutator, AllPC, allVars
    <3> QED
      BY <3>1 DEF AllInv, OneSuspendAll, AllPC
  <2>3. CASE ResumeAllDecrement(t)
    BY <2>3 DEF ResumeAllDecrement, AllInv, OneSuspendAll
  <2> QED
    BY <1>5, <2>1, <2>2, <2>3, Zenon
<1>6. ASSUME NEW t \in Threads, Register(t) \/ Unregister(t)
      PROVE  AllInv'
  BY <1>6 DEF Register, Unregister, AllInv, OneSuspendAll, AllPC, allVars
<1> QED
  BY <1>1, <1>2, <1>3, <1>4, <1>5, <1>6, Steps, AllKeptStep, Zenon DEF AllStep, Attach

\* The requests of SuspendAll are on the threads that its loop has reached, and on those that
\* attach while it lasts.
LEMMA AllRequestsStep ==
  ASSUME TypeInv, ControlInv, AllInv, CountsMatchRequests, AllRequestsInv, [Next]_vars
  PROVE  AllRequestsInv'
<1> DEFINE Kept(u, w) == AllLoop(u) /\ AllRequested(u, w)
<1> SUFFICES ASSUME NEW u \in Threads, NEW w \in Threads, All \notin Threads,
                    None \notin Threads, list \subseteq Threads, pc \in [Threads -> PC],
                    requests \in [Threads -> SUBSET (Threads \cup {All})],
                    todo \in [Threads -> SUBSET Threads],
                    current \in [Threads -> Threads \cup {None}],
                    Kept(u, w), suspend_all_count = 0 => pc[u] \notin AllPC
             PROVE  Kept(u, w)'
  BY ThreadsAssumption
  DEF AllRequestsInv, TypeInv, WordTypes, FrameTypes, ControlTypes, AllInv
<1> USE DEF AllLoop, AllRequested, AllRequests, AllPC, Goto
<1>1. CASE UNCHANGED vars
  BY <1>1 DEF vars, threadVars, allVars
<1>2. CASE AllKept
  BY <1>2 DEF AllKept
<1>3. ASSUME NEW t \in Threads, AllStep(t)
      PROVE  Kept(u, w)'
  <2>0. /\ Kept(t, w) /\ (pc[t] \in AllPC /\ pc[u] \in AllPC => t = u)
        /\ suspend_all_count \in {0, 1} /\ (pc[t] \in AllPC => suspend_all_count = 1)
    BY DEF AllRequestsInv, AllInv, OneSuspendAll
  <2> USE <2>0
  <2>1. CASE BeginSuspendAll(t) \/ EndResumeAll(t)
    BY <2>1 DEF BeginSuspendAll, EndResumeAll, threadVars
  <2>2. CASE SuspendAllIncrement(t)
    <3>1. PICK v \in todo[t] : /\ IncrementSuspendCount(v, All, t, None)
                               /\ current' = [current EXCEPT ![t] = v]
      BY <2>2, Zenon DEF SuspendAllIncrement
    <3> QED
      BY <2>2, <3>1 DEF SuspendAllIncrement, IncrementSuspendCount
  <2>3. CASE SuspendAllCheck(t)
    BY <2>3 DEF SuspendAllCheck
  <2>4. CASE SuspendAllRequested(t) \/ AllSuspended(t) \/ LockMutator(t) \/ ResumeAll(t)
    BY <2>4 DEF SuspendAllRequested, AllSuspended, LockMutator, ResumeAll, threadVars, allVars
  <2>5. CASE ResumeAllDecrement(t)
    <3>1. PICK v \in todo[t] : /\ DecrementSuspendCount(v, All, {})
                               /\ todo' = [todo EXCEPT ![t] = @ \ {v}]
      BY <2>5, Zenon DEF ResumeAllDecrement
    <3> QED
      BY <2>5, <3>1 DEF ResumeAllDecrement, DecrementSuspendCount
  <2> HIDE DEF Kept
  <2> QED
    BY <1>3, <2>1, <2>2, <2>3, <2>4, <2>5, Zenon DEF AllStep
<1>4. ASSUME NEW t \in Threads, Register(t)
      PROVE  Kept(u, w)'
  <2>0. /\ t \notin list /\ pc[t] = "unattached" /\ list_lock = None
        /\ pc[u] \in {"sa_loop", "sa_check", "ra_loop"} => list_lock = u
        /\ suspend_all_count \in {0, 1}
    BY <1>4 DEF Register, LocksFree, ControlInv, Attached, Locked, ListLockPC, AllInv
  <2> QED
    BY <1>4, <2>0 DEF Register, IncrementSuspendCount, allVars
<1>5. ASSUME NEW t \in Threads, Unregister(t)
      PROVE  Kept(u, w)'
  <2>0. /\ All \notin requests[t] /\ pc[t] = "unregister" /\ list_lock = None
        /\ pc[u] \in {"sa_loop", "sa_check", "ra_loop"} => list_lock = u
    BY <1>5 DEF Unregister, LocksFree, ControlInv, Locked, ListLockPC, CountsMatchRequests
  <2> QED
    BY <1>5, <2>0 DEF Unregister, allVars
<1> HIDE DEF Kept
<1> QED
  BY <1>1, <1>2, <1>3, <1>4, <1>5, Steps, AllKeptStep, Zenon DEF Attach

===============================================================================
