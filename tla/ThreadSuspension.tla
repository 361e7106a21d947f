--------------------------- MODULE ThreadSuspension ---------------------------
(***************************************************************************)
(* The thread suspension protocol of the Android Runtime: the state and    *)
(* flags word of a thread, its suspend count and suspend barriers          *)
(* (runtime/thread-inl.h, runtime/thread.cc), and the operations of        *)
(* ThreadList that suspend, resume, register and unregister threads        *)
(* (runtime/thread_list.cc).                                               *)
(*                                                                         *)
(* An action is one atomic access to a state_and_flags word together with  *)
(* the accesses to lock-protected data around it.  A critical section is   *)
(* cut wherever the code touches the word of a thread that does not need   *)
(* the lock to change it: between IncrementSuspendCount() and the          *)
(* IsSuspended() that follows it, and between two threads of a loop.       *)
(***************************************************************************)
EXTENDS Integers, FiniteSets

CONSTANTS
  Threads,        \* native threads, attached to the runtime or not
  None,           \* the null pointer
  All,            \* stands for the running SuspendAll in `requests`
  InitList,       \* the threads attached in the initial state
  SuspendAllers,  \* the threads that may call SuspendAll and ResumeAll
  Suspenders,     \* the threads that may call SuspendThreadBy... and Resume
  Targets,        \* the threads they may name
  Exiters,        \* the threads that may detach (and attach again)
  Attempts        \* the values of attempt_of_4 in use

ASSUME ThreadsAssumption ==
  /\ IsFiniteSet(Threads)
  /\ None \notin Threads
  /\ All \notin Threads
  /\ InitList \subseteq Threads
  /\ SuspendAllers \subseteq Threads
  /\ Suspenders \subseteq Threads
  /\ Targets \subseteq Threads
  /\ Exiters \subseteq Threads
  /\ Attempts \subseteq 0..4

VARIABLES
  list,                \* ThreadList::list_
  state,               \* the ThreadState in the state_and_flags word
  flags,               \* the ThreadFlags in the state_and_flags word
  suspend_count,       \* tls32_.suspend_count
  requests,            \* history: who raised suspend_count and has to lower it
  suspendall_barrier,  \* active_suspendall_barrier: in whose frame the counter is
  suspend1_barriers,   \* active_suspend1_barriers: in whose frames the barriers are
  exit_flags,          \* thread_exit_flags: in whose frames the flags are
  exited,              \* the threads whose SuspendThread frame has tef.exited_ set
  suspend_all_count,   \* ThreadList::suspend_all_count_
  list_lock,           \* the owner of Locks::thread_list_lock_
  count_lock,          \* the owner of Locks::thread_suspend_count_lock_
  mutator_owner,       \* the exclusive holder of the rwlock of mutator_lock_
  mutator_shared,      \* the shared holders of the rwlock of mutator_lock_
  resume_waiters,      \* the threads blocked on Thread::resume_cond_
  pc,                  \* where each thread is
  ret,                 \* where it goes on after a change of thread state
  target,              \* SuspendThread: the parameter `thread`
  attempt,             \* SuspendThread: the parameter attempt_of_4
  barrier,             \* SuspendThread: wrapped_barrier.barrier_
  pending_threads,     \* SuspendAllInternal: the counter
  todo,                \* the threads a loop over list_ has not reached
  current              \* the thread it is at

threadVars  == <<list, state, flags, suspend_count, requests,
                 suspendall_barrier, suspend1_barriers>>
exitVars    == <<exit_flags, exited>>
lockVars    == <<list_lock, count_lock>>
mutatorVars == <<mutator_owner, mutator_shared>>
oneVars     == <<target, attempt, barrier>>
allVars     == <<suspend_all_count, pending_threads, todo, current>>
vars == <<threadVars, exitVars, lockVars, mutatorVars, resume_waiters, pc, ret,
          oneVars, allVars>>

-------------------------------------------------------------------------------
ThreadFlag == {"kSuspendRequest", "kCheckpointRequest",
               "kEmptyCheckpointRequest", "kActiveSuspendBarrier",
               "kPendingFlipFunction", "kRunningFlipFunction",
               "kSuspensionImmune"}

kCheckpointFlags == {"kCheckpointRequest", "kEmptyCheckpointRequest"}

\* Slip: a thread enters kRunnable without looking for a suspend request.
UncheckedSuspendRequest ==
  ThreadFlag \ {"kSuspensionImmune", "kSuspendRequest"}

\* SuspendOrCheckpointRequestFlags() | kActiveSuspendBarrier | FlipFunctionFlags()
kCheckedFlags == ThreadFlag \ {"kSuspensionImmune"}

PC == {"unattached", "native", "run", "to_suspended", "check_barriers",
       "to_runnable", "wait_resume",
       "st_lock", "st_try", "st_check", "st_sleep", "st_relock", "st_wait",
       "st_timeout", "sa_lock", "sa_retry", "sa_loop", "sa_check", "sa_wait",
       "sa_mutator", "sa_stopped", "ra_loop", "unregister"}

Return == {"native", "run", "st_lock", "st_sleep", "st_relock", "st_wait"}

IsSuspended(t) == state[t] # "kRunnable" /\ "kSuspendRequest" \in flags[t]

Goto(t, there) == pc' = [pc EXCEPT ![t] = there]

GotoAndReturn(t, there, back) == Goto(t, there) /\ ret' = [ret EXCEPT ![t] = back]

LocksFree == list_lock = None /\ count_lock = None

TakeLocks(s)  == LocksFree /\ list_lock' = s /\ count_lock' = s
ReleaseLocks  == list_lock' = None /\ count_lock' = None

\* Slip: the waiters are not woken.
NoBroadcast == UNCHANGED resume_waiters

\* Thread::resume_cond_->Broadcast(): every waiter goes on to check again.
Broadcast == resume_waiters' = {}

-------------------------------------------------------------------------------
\* Thread::IncrementSuspendCount.  `suspendall` and `suspend1` are the thread
\* whose frame holds the barrier passed, or None.
IncrementSuspendCount(t, request, suspendall, suspend1) ==
  /\ suspend_count' = [suspend_count EXCEPT ![t] = @ + 1]
  /\ requests' = [requests EXCEPT ![t] = @ \cup {request}]
  /\ suspendall_barrier' = [suspendall_barrier EXCEPT ![t] =
                              IF suspendall = None THEN @ ELSE suspendall]
  /\ suspend1_barriers' = [suspend1_barriers EXCEPT ![t] =
                              @ \cup ({suspend1} \ {None})]
  /\ flags' = [flags EXCEPT ![t] =
                 @ \cup {"kSuspendRequest"}
                   \cup (IF suspendall = None /\ suspend1 = None
                           THEN {} ELSE {"kActiveSuspendBarrier"})]

\* Slip: kSuspendRequest is cleared although other requests remain.
DecrementClearsRequest(t, request, cleared) ==
  /\ suspend_count' = [suspend_count EXCEPT ![t] = @ - 1]
  /\ requests' = [requests EXCEPT ![t] = @ \ {request}]
  /\ flags' = [flags EXCEPT ![t] = @ \ (cleared \cup {"kSuspendRequest"})]

\* Thread::DecrementSuspendCount; `cleared` are the flags the caller has
\* cleared just before it.
DecrementSuspendCount(t, request, cleared) ==
  /\ suspend_count' = [suspend_count EXCEPT ![t] = @ - 1]
  /\ requests' = [requests EXCEPT ![t] = @ \ {request}]
  /\ flags' = [flags EXCEPT ![t] =
                 @ \ (cleared \cup (IF suspend_count[t] = 1
                                      THEN {"kSuspendRequest"} ELSE {}))]

\* Slip: the barrier stays linked.
KeepSuspend1Barrier(t, s) == suspend1_barriers[t]

\* Thread::RemoveSuspend1Barrier: the barriers left when that of s is unlinked.
RemoveSuspend1Barrier(t, s) == suspend1_barriers[t] \ {s}

\* The flag to clear once the barriers of a thread are `all` and `one`
\* (HasActiveSuspendBarrier).
InactiveBarrierFlag(all, one) ==
  IF all = None /\ one = {} THEN {"kActiveSuspendBarrier"} ELSE {}

-------------------------------------------------------------------------------
(* Changes of thread state (runtime/thread-inl.h).                         *)

\* The CAS that leaves kRunnable.  A thread at "run" executes Java code; it
\* gets here at a suspend check or when it calls native code.
TransitionFromRunnableToSuspended(t) ==
  /\ pc[t] \in {"run", "to_suspended"}
  /\ flags[t] \cap kCheckpointFlags = {}
  /\ state' = [state EXCEPT ![t] = "kSuspended"]
  /\ Goto(t, "check_barriers")
  /\ UNCHANGED <<list, flags, suspend_count, requests, suspendall_barrier,
                 suspend1_barriers, exitVars, lockVars, mutatorVars,
                 resume_waiters, ret, oneVars, allVars>>

\* CheckActiveSuspendBarriers finds no barrier to pass.
CheckActiveSuspendBarriers(t) ==
  /\ pc[t] = "check_barriers"
  /\ flags[t] \cap ({"kActiveSuspendBarrier"} \cup kCheckpointFlags) = {}
  /\ GotoAndReturn(t, ret[t], "native")
  /\ UNCHANGED <<threadVars, exitVars, lockVars, mutatorVars, resume_waiters,
                 oneVars, allVars>>

\* PassActiveSuspendBarriers, from CheckActiveSuspendBarriers and from
\* TransitionFromSuspendedToRunnable; both test the flag again after it.
PassActiveSuspendBarriers(t) ==
  /\ pc[t] \in {"check_barriers", "to_runnable"}
  /\ "kActiveSuspendBarrier" \in flags[t]
  /\ count_lock = None
  /\ pending_threads' = [s \in Threads |->
       IF s = suspendall_barrier[t] THEN pending_threads[s] - 1
                                    ELSE pending_threads[s]]
  /\ barrier' = [s \in Threads |->
       IF s \in suspend1_barriers[t] THEN barrier[s] - 1 ELSE barrier[s]]
  /\ suspendall_barrier' = [suspendall_barrier EXCEPT ![t] = None]
  /\ suspend1_barriers' = [suspend1_barriers EXCEPT ![t] = {}]
  /\ flags' = [flags EXCEPT ![t] = @ \ {"kActiveSuspendBarrier"}]
  /\ UNCHANGED <<list, state, suspend_count, requests, exitVars, lockVars,
                 mutatorVars, resume_waiters, pc, ret, target, attempt,
                 suspend_all_count, todo, current>>

\* A thread in native code calls or returns into Java code.
EnterRunnable(t) ==
  /\ pc[t] = "native"
  /\ GotoAndReturn(t, "to_runnable", "run")
  /\ UNCHANGED <<threadVars, exitVars, lockVars, mutatorVars, resume_waiters,
                 oneVars, allVars>>

\* The CAS that enters kRunnable.
TransitionFromSuspendedToRunnable(t) ==
  /\ pc[t] = "to_runnable"
  /\ flags[t] \cap kCheckedFlags = {}
  /\ state' = [state EXCEPT ![t] = "kRunnable"]
  /\ GotoAndReturn(t, ret[t], "native")
  /\ UNCHANGED <<list, flags, suspend_count, requests, suspendall_barrier,
                 suspend1_barriers, exitVars, lockVars, mutatorVars,
                 resume_waiters, oneVars, allVars>>

\* TransitionFromSuspendedToRunnable waits while its suspend count is not 0.
WaitForResume(t) ==
  /\ pc[t] \in {"to_runnable", "wait_resume"}
  /\ t \notin resume_waiters
  /\ "kSuspendRequest" \in flags[t]
  /\ count_lock = None
  /\ Goto(t, "wait_resume")
  /\ resume_waiters' = resume_waiters \cup {t}
  /\ UNCHANGED <<threadVars, exitVars, lockVars, mutatorVars, ret, oneVars,
                 allVars>>

Resumed(t) ==
  /\ pc[t] = "wait_resume"
  /\ t \notin resume_waiters
  /\ "kSuspendRequest" \notin flags[t]
  /\ count_lock = None
  /\ Goto(t, "to_runnable")
  /\ UNCHANGED <<threadVars, exitVars, lockVars, mutatorVars, resume_waiters,
                 ret, oneVars, allVars>>

-------------------------------------------------------------------------------
(* SuspendThreadByPeer, SuspendThreadByThreadId and SuspendThread, then     *)
(* Resume (runtime/thread_list.cc).  A caller resumes what it suspended and *)
(* does not suspend the same thread twice.                                  *)

SuspendThreadByThreadId(s) ==
  /\ s \in Suspenders
  /\ pc[s] = "native"
  /\ \E t \in Targets \ {s}, a \in Attempts :
       /\ s \notin requests[t]
       /\ target' = [target EXCEPT ![s] = t]
       /\ attempt' = [attempt EXCEPT ![s] = a]
  /\ GotoAndReturn(s, "to_runnable", "st_lock")
  /\ UNCHANGED <<threadVars, exitVars, lockVars, mutatorVars, resume_waiters,
                 barrier, allVars>>

\* FindThreadByThreadId under thread_list_lock_, then NotifyOnThreadExit.
FindThread(s) ==
  /\ pc[s] = "st_lock"
  /\ list_lock = None
  /\ target[s] \in list
  /\ list_lock' = s
  /\ exit_flags' = [exit_flags EXCEPT ![target[s]] = @ \cup {s}]
  /\ exited' = exited \ {s}
  /\ barrier' = [barrier EXCEPT ![s] = 1]
  /\ Goto(s, "st_try")
  /\ UNCHANGED <<threadVars, count_lock, mutatorVars, resume_waiters, ret,
                 target, attempt, allVars>>

NoSuchThread(s) ==
  /\ pc[s] = "st_lock"
  /\ list_lock = None
  /\ target[s] \notin list
  /\ target' = [target EXCEPT ![s] = None]
  /\ GotoAndReturn(s, "to_suspended", "native")
  /\ UNCHANGED <<threadVars, exitVars, lockVars, mutatorVars, resume_waiters,
                 attempt, barrier, allVars>>

\* Slip: the caller does not look at its own suspend count.
RequestUnchecked(s) ==
  /\ pc[s] = "st_try"
  /\ count_lock = None
  /\ count_lock' = s
  /\ IncrementSuspendCount(target[s], s, None, s)
  /\ Goto(s, "st_check")
  /\ UNCHANGED <<list, state, exitVars, list_lock, mutatorVars, resume_waiters,
                 ret, oneVars, allVars>>

\* The caller is not itself asked to suspend: raise the count of the target.
RequestSuspend(s) ==
  /\ pc[s] = "st_try"
  /\ count_lock = None
  /\ suspend_count[s] = 0
  /\ count_lock' = s
  /\ IncrementSuspendCount(target[s], s, None, s)
  /\ Goto(s, "st_check")
  /\ UNCHANGED <<list, state, exitVars, list_lock, mutatorVars, resume_waiters,
                 ret, oneVars, allVars>>

\* Otherwise release the locks and sleep in a suspended state.
BackOff(s) ==
  /\ pc[s] = "st_try"
  /\ count_lock = None
  /\ suspend_count[s] # 0
  /\ list_lock' = None
  /\ GotoAndReturn(s, "to_suspended", "st_sleep")
  /\ UNCHANGED <<threadVars, exitVars, count_lock, mutatorVars, resume_waiters,
                 oneVars, allVars>>

\* usleep, then the destructor of ScopedThreadSuspension.
Sleep(s) ==
  /\ pc[s] = "st_sleep"
  /\ GotoAndReturn(s, "to_runnable", "st_relock")
  /\ UNCHANGED <<threadVars, exitVars, lockVars, mutatorVars, resume_waiters,
                 oneVars, allVars>>

\* The target may have exited while thread_list_lock_ was released.
Relock(s) ==
  /\ pc[s] = "st_relock"
  /\ list_lock = None
  /\ s \notin exited
  /\ list_lock' = s
  /\ Goto(s, "st_try")
  /\ UNCHANGED <<threadVars, exitVars, count_lock, mutatorVars, resume_waiters,
                 ret, oneVars, allVars>>

TargetExited(s) ==
  /\ pc[s] = "st_relock"
  /\ list_lock = None
  /\ s \in exited
  /\ target' = [target EXCEPT ![s] = None]
  /\ GotoAndReturn(s, "to_suspended", "native")
  /\ UNCHANGED <<threadVars, exitVars, lockVars, mutatorVars, resume_waiters,
                 attempt, barrier, allVars>>

\* IsSuspended() right after IncrementSuspendCount(): unlink the barrier on
\* behalf of a thread that is already suspended, or go and wait for it.
CheckSuspended(s) ==
  LET t == target[s]
      one == RemoveSuspend1Barrier(t, s)
  IN
  /\ pc[s] = "st_check"
  /\ IF IsSuspended(t)
       THEN /\ suspend1_barriers' = [suspend1_barriers EXCEPT ![t] = one]
            /\ flags' = [flags EXCEPT ![t] =
                           @ \ InactiveBarrierFlag(suspendall_barrier[t], one)]
            /\ target' = [target EXCEPT ![s] = None]
            /\ GotoAndReturn(s, "to_suspended", "native")
       ELSE /\ GotoAndReturn(s, "to_suspended", "st_wait")
            /\ UNCHANGED <<suspend1_barriers, flags, target>>
  /\ exit_flags' = [exit_flags EXCEPT ![t] = @ \ {s}]
  /\ ReleaseLocks
  /\ UNCHANGED <<list, state, suspend_count, requests, suspendall_barrier,
                 exited, mutatorVars, resume_waiters, attempt, barrier,
                 allVars>>

\* WaitForSuspendBarrier, or the last look at the barrier after a timeout.
SuspendSucceeded(s) ==
  /\ \/ pc[s] = "st_wait"
     \/ pc[s] = "st_timeout" /\ count_lock = None
  /\ barrier[s] = 0
  /\ target' = [target EXCEPT ![s] = None]
  /\ Goto(s, "native")
  /\ UNCHANGED <<threadVars, exitVars, lockVars, mutatorVars, resume_waiters,
                 ret, attempt, barrier, allVars>>

\* The first three of four attempts.  When the last one, or the only one,
\* times out and a last look finds the barrier not passed, the process aborts:
\* the behaviour ends there.
SuspendTimesOut(s) ==
  /\ pc[s] = "st_wait"
  /\ attempt[s] \in 1..3
  /\ barrier[s] # 0
  /\ Goto(s, "st_timeout")
  /\ UNCHANGED <<threadVars, exitVars, lockVars, mutatorVars, resume_waiters,
                 ret, oneVars, allVars>>

\* Look again under the lock; if the barrier is not passed, take the request
\* back.
GiveUp(s) ==
  LET t == target[s]
      one == RemoveSuspend1Barrier(t, s)
  IN
  /\ pc[s] = "st_timeout"
  /\ attempt[s] \in 1..3
  /\ count_lock = None
  /\ barrier[s] # 0
  /\ suspend1_barriers' = [suspend1_barriers EXCEPT ![t] = one]
  /\ DecrementSuspendCount(t, s, InactiveBarrierFlag(suspendall_barrier[t], one))
  /\ Broadcast
  /\ target' = [target EXCEPT ![s] = None]
  /\ Goto(s, "native")
  /\ UNCHANGED <<list, state, suspendall_barrier, exitVars, lockVars,
                 mutatorVars, ret, attempt, barrier, allVars>>

\* A thread that is not suspended, or not in the list, is a LOG(FATAL).
Resume(s) ==
  /\ pc[s] \in {"native", "run"}
  /\ LocksFree
  /\ \E t \in list :
       /\ s \in requests[t]
       /\ IsSuspended(t)
       /\ DecrementSuspendCount(t, s, {})
  /\ Broadcast
  /\ UNCHANGED <<list, state, suspendall_barrier, suspend1_barriers, exitVars,
                 lockVars, mutatorVars, pc, ret, oneVars, allVars>>

-------------------------------------------------------------------------------
(* SuspendAll and ResumeAll (runtime/thread_list.cc).                      *)

SuspendAll(s) ==
  /\ s \in SuspendAllers
  /\ pc[s] = "native"
  /\ Goto(s, "sa_lock")
  /\ UNCHANGED <<threadVars, exitVars, lockVars, mutatorVars, resume_waiters,
                 ret, oneVars, allVars>>

\* No other SuspendAll is running: take the locks for the loop over list_.
BeginSuspendAll(s) ==
  /\ pc[s] = "sa_lock"
  /\ s \notin resume_waiters
  /\ suspend_all_count = 0
  /\ TakeLocks(s)
  /\ suspend_all_count' = suspend_all_count + 1
  /\ pending_threads' = [pending_threads EXCEPT ![s] = Cardinality(list) - 1]
  /\ todo' = [todo EXCEPT ![s] = list \ {s}]
  /\ Goto(s, "sa_loop")
  /\ UNCHANGED <<threadVars, exitVars, mutatorVars, resume_waiters, ret,
                 oneVars, current>>

\* Another one is: release the locks ...
SuspendAllBusy(s) ==
  /\ pc[s] = "sa_lock"
  /\ s \notin resume_waiters
  /\ suspend_all_count # 0
  /\ LocksFree
  /\ Goto(s, "sa_retry")
  /\ UNCHANGED <<threadVars, exitVars, lockVars, mutatorVars, resume_waiters,
                 ret, oneVars, allVars>>

\* ... look again under thread_suspend_count_lock_, and wait if it still runs.
WaitForOtherSuspendAll(s) ==
  /\ pc[s] = "sa_retry"
  /\ count_lock = None
  /\ resume_waiters' = IF suspend_all_count # 0 THEN resume_waiters \cup {s}
                                                ELSE resume_waiters
  /\ Goto(s, "sa_lock")
  /\ UNCHANGED <<threadVars, exitVars, lockVars, mutatorVars, ret, oneVars,
                 allVars>>

SuspendAllIncrement(s) ==
  /\ pc[s] = "sa_loop"
  /\ \E t \in todo[s] :
       /\ IncrementSuspendCount(t, All, s, None)
       /\ current' = [current EXCEPT ![s] = t]
  /\ Goto(s, "sa_check")
  /\ UNCHANGED <<list, state, exitVars, lockVars, mutatorVars, resume_waiters,
                 ret, oneVars, suspend_all_count, pending_threads, todo>>

\* IsSuspended(): pass the barrier on behalf of a suspended thread.
SuspendAllCheck(s) ==
  LET t == current[s] IN
  /\ pc[s] = "sa_check"
  /\ IF IsSuspended(t)
       THEN /\ pending_threads' = [pending_threads EXCEPT ![s] = @ - 1]
            /\ suspendall_barrier' = [suspendall_barrier EXCEPT ![t] = None]
            /\ flags' = [flags EXCEPT ![t] =
                           @ \ InactiveBarrierFlag(None, suspend1_barriers[t])]
       ELSE UNCHANGED <<pending_threads, suspendall_barrier, flags>>
  /\ todo' = [todo EXCEPT ![s] = @ \ {t}]
  /\ current' = [current EXCEPT ![s] = None]
  /\ Goto(s, "sa_loop")
  /\ UNCHANGED <<list, state, suspend_count, requests, suspend1_barriers,
                 exitVars, lockVars, mutatorVars, resume_waiters, ret, oneVars,
                 suspend_all_count>>

SuspendAllRequested(s) ==
  /\ pc[s] = "sa_loop"
  /\ todo[s] = {}
  /\ flags' = [flags EXCEPT ![s] = @ \cup {"kSuspensionImmune"}]
  /\ ReleaseLocks
  /\ Goto(s, "sa_wait")
  /\ UNCHANGED <<list, state, suspend_count, requests, suspendall_barrier,
                 suspend1_barriers, exitVars, mutatorVars, resume_waiters, ret,
                 oneVars, allVars>>

\* WaitForSuspendBarrier, in any of the four attempts.
AllSuspended(s) ==
  /\ pc[s] = "sa_wait"
  /\ pending_threads[s] = 0
  /\ Goto(s, "sa_mutator")
  /\ UNCHANGED <<threadVars, exitVars, lockVars, mutatorVars, resume_waiters,
                 ret, oneVars, allVars>>

\* mutator_lock_->ExclusiveLock; SuspendAll returns.
LockMutator(s) ==
  /\ pc[s] = "sa_mutator"
  /\ mutator_owner = None
  /\ mutator_shared = {}
  /\ mutator_owner' = s
  /\ Goto(s, "sa_stopped")
  /\ UNCHANGED <<threadVars, exitVars, lockVars, mutator_shared,
                 resume_waiters, ret, oneVars, allVars>>

ResumeAll(s) ==
  /\ pc[s] = "sa_stopped"
  /\ TakeLocks(s)
  /\ mutator_owner' = None
  /\ todo' = [todo EXCEPT ![s] = list \ {s}]
  /\ Goto(s, "ra_loop")
  /\ UNCHANGED <<threadVars, exitVars, mutator_shared, resume_waiters, ret,
                 oneVars, suspend_all_count, pending_threads, current>>

ResumeAllDecrement(s) ==
  /\ pc[s] = "ra_loop"
  /\ \E t \in todo[s] :
       /\ DecrementSuspendCount(t, All, {})
       /\ todo' = [todo EXCEPT ![s] = @ \ {t}]
  /\ UNCHANGED <<list, state, suspendall_barrier, suspend1_barriers, exitVars,
                 lockVars, mutatorVars, resume_waiters, pc, ret, oneVars,
                 suspend_all_count, pending_threads, current>>

EndResumeAll(s) ==
  /\ pc[s] = "ra_loop"
  /\ todo[s] = {}
  /\ suspend_all_count' = suspend_all_count - 1
  /\ flags' = [flags EXCEPT ![s] = @ \ {"kSuspensionImmune"}]
  /\ Broadcast
  /\ ReleaseLocks
  /\ Goto(s, "native")
  /\ UNCHANGED <<list, state, suspend_count, requests, suspendall_barrier,
                 suspend1_barriers, exitVars, mutatorVars, ret, oneVars,
                 pending_threads, todo, current>>

-------------------------------------------------------------------------------
(* Register and Unregister (runtime/thread_list.cc).                       *)

\* Slip: a thread that attaches while the world is stopped is not suspended.
RegisterUnsuspended(t) ==
  /\ t \in Exiters
  /\ pc[t] = "unattached"
  /\ LocksFree
  /\ list' = list \cup {t}
  /\ Goto(t, "native")
  /\ UNCHANGED <<state, flags, suspend_count, requests, suspendall_barrier,
                 suspend1_barriers, exitVars, lockVars, mutatorVars,
                 resume_waiters, ret, oneVars, allVars>>

\* A new Thread object, created in a suspended state, enters the list.
Register(t) ==
  /\ t \in Exiters
  /\ pc[t] = "unattached"
  /\ LocksFree
  /\ IF suspend_all_count = 1
       THEN IncrementSuspendCount(t, All, None, None)
       ELSE UNCHANGED <<suspend_count, requests, suspendall_barrier,
                        suspend1_barriers, flags>>
  /\ list' = list \cup {t}
  /\ Goto(t, "native")
  /\ UNCHANGED <<state, exitVars, lockVars, mutatorVars, resume_waiters, ret,
                 oneVars, allVars>>

\* A thread that still has to resume another one does not exit.
BeginUnregister(t) ==
  /\ t \in Exiters
  /\ pc[t] = "native"
  /\ \A u \in Threads : t \notin requests[u]
  /\ Goto(t, "unregister")
  /\ UNCHANGED <<threadVars, exitVars, lockVars, mutatorVars, resume_waiters,
                 ret, oneVars, allVars>>

\* Slip: a thread exits although its flip function runs.
UnregisterUnchecked(t) ==
  /\ pc[t] = "unregister"
  /\ LocksFree
  /\ "kSuspendRequest" \notin flags[t]
  /\ list' = list \ {t}
  /\ exited' = exited \cup exit_flags[t]
  /\ exit_flags' = [exit_flags EXCEPT ![t] = {}]
  /\ flags' = [flags EXCEPT ![t] = {}]
  /\ Goto(t, "unattached")
  /\ UNCHANGED <<state, suspend_count, requests, suspendall_barrier,
                 suspend1_barriers, lockVars, mutatorVars, resume_waiters, ret,
                 oneVars, allVars>>

\* Retried until no suspend request and no flip function is in the way; then
\* list_.remove, SignalExitFlags, and the Thread object is deleted.
Unregister(t) ==
  /\ pc[t] = "unregister"
  /\ LocksFree
  /\ flags[t] \cap {"kSuspendRequest", "kRunningFlipFunction"} = {}
  /\ list' = list \ {t}
  /\ exited' = exited \cup exit_flags[t]
  /\ exit_flags' = [exit_flags EXCEPT ![t] = {}]
  /\ flags' = [flags EXCEPT ![t] = {}]
  /\ Goto(t, "unattached")
  /\ UNCHANGED <<state, suspend_count, requests, suspendall_barrier,
                 suspend1_barriers, lockVars, mutatorVars, resume_waiters, ret,
                 oneVars, allVars>>

-------------------------------------------------------------------------------
Init ==
  /\ list = InitList
  /\ state = [t \in Threads |-> "kSuspended"]
  /\ flags = [t \in Threads |-> {}]
  /\ suspend_count = [t \in Threads |-> 0]
  /\ requests = [t \in Threads |-> {}]
  /\ suspendall_barrier = [t \in Threads |-> None]
  /\ suspend1_barriers = [t \in Threads |-> {}]
  /\ exit_flags = [t \in Threads |-> {}]
  /\ exited = {}
  /\ suspend_all_count = 0
  /\ list_lock = None
  /\ count_lock = None
  /\ mutator_owner = None
  /\ mutator_shared = {}
  /\ resume_waiters = {}
  /\ pc = [t \in Threads |-> IF t \in InitList THEN "native" ELSE "unattached"]
  /\ ret = [t \in Threads |-> "native"]
  /\ target = [s \in Threads |-> None]
  /\ attempt = [s \in Threads |-> 0]
  /\ barrier = [s \in Threads |-> 0]
  /\ pending_threads = [s \in Threads |-> 0]
  /\ todo = [s \in Threads |-> {}]
  /\ current = [s \in Threads |-> None]

StateChange(t) ==
  \/ TransitionFromRunnableToSuspended(t)
  \/ CheckActiveSuspendBarriers(t)
  \/ PassActiveSuspendBarriers(t)
  \/ EnterRunnable(t)
  \/ TransitionFromSuspendedToRunnable(t)
  \/ WaitForResume(t)
  \/ Resumed(t)

SuspendOne(s) ==
  \/ SuspendThreadByThreadId(s)
  \/ FindThread(s)
  \/ NoSuchThread(s)
  \/ RequestSuspend(s)
  \/ BackOff(s)
  \/ Sleep(s)
  \/ Relock(s)
  \/ TargetExited(s)
  \/ CheckSuspended(s)
  \/ SuspendSucceeded(s)
  \/ SuspendTimesOut(s)
  \/ GiveUp(s)
  \/ Resume(s)

StopTheWorld(s) ==
  \/ SuspendAll(s)
  \/ BeginSuspendAll(s)
  \/ SuspendAllBusy(s)
  \/ WaitForOtherSuspendAll(s)
  \/ SuspendAllIncrement(s)
  \/ SuspendAllCheck(s)
  \/ SuspendAllRequested(s)
  \/ AllSuspended(s)
  \/ LockMutator(s)
  \/ ResumeAll(s)
  \/ ResumeAllDecrement(s)
  \/ EndResumeAll(s)

Attach(t) ==
  \/ Register(t)
  \/ BeginUnregister(t)
  \/ Unregister(t)

Next ==
  \E t \in Threads :
    StateChange(t) \/ SuspendOne(t) \/ StopTheWorld(t) \/ Attach(t)

Spec == Init /\ [][Next]_vars

\* Slip: the poll looks for checkpoint requests only.
CheckpointCheck(t) ==
  /\ pc[t] = "run" => flags[t] \cap kCheckpointFlags # {}
  /\ TransitionFromRunnableToSuspended(t)

\* A thread that runs Java code polls its flags (CheckSuspend) and acts on a
\* suspend request.
SuspendCheck(t) ==
  /\ pc[t] = "run" => "kSuspendRequest" \in flags[t]
  /\ TransitionFromRunnableToSuspended(t)

\* The steps a thread takes once it is inside an operation.  What it may leave
\* undone is what starts one: EnterRunnable, SuspendThreadByThreadId,
\* SuspendAll, Register, BeginUnregister, and the timeout.
Proceed(t) ==
  \/ SuspendCheck(t)
  \/ CheckActiveSuspendBarriers(t)
  \/ PassActiveSuspendBarriers(t)
  \/ TransitionFromSuspendedToRunnable(t)
  \/ WaitForResume(t)
  \/ Resumed(t)
  \/ FindThread(t)
  \/ NoSuchThread(t)
  \/ RequestSuspend(t)
  \/ BackOff(t)
  \/ Sleep(t)
  \/ Relock(t)
  \/ TargetExited(t)
  \/ CheckSuspended(t)
  \/ SuspendSucceeded(t)
  \/ GiveUp(t)
  \/ BeginSuspendAll(t)
  \/ SuspendAllBusy(t)
  \/ WaitForOtherSuspendAll(t)
  \/ SuspendAllIncrement(t)
  \/ SuspendAllCheck(t)
  \/ SuspendAllRequested(t)
  \/ AllSuspended(t)
  \/ LockMutator(t)
  \/ ResumeAll(t)
  \/ ResumeAllDecrement(t)
  \/ EndResumeAll(t)

\* InflateThinLocked returns to kRunnable with its target still suspended, and
\* resumes it there.
ReturnToResume(t) == EnterRunnable(t) /\ \E u \in Threads : t \in requests[u]
ResumeFromRunnable(t) == pc[t] = "run" /\ Resume(t)

\* Every thread is scheduled.  A thread that wants thread_suspend_count_lock_ to
\* pass its barriers gets it if it is free again and again, and a caller of
\* SuspendThread goes on to Resume however often it has to change state before.
Fairness ==
  \A t \in Threads : /\ WF_vars(Proceed(t) \/ ReturnToResume(t))
                     /\ SF_vars(PassActiveSuspendBarriers(t))
                     /\ SF_vars(ResumeFromRunnable(t))

FairSpec == Spec /\ Fairness

-------------------------------------------------------------------------------
(* Properties.                                                             *)

\* Every variable keeps its type; in particular no count and no barrier goes
\* below zero, which PassActiveSuspendBarriers and DecrementSuspendCount would
\* turn into a failed CHECK.
TypeOK ==
  /\ list \subseteq Threads
  /\ state \in [Threads -> {"kRunnable", "kSuspended"}]
  /\ flags \in [Threads -> SUBSET ThreadFlag]
  /\ suspend_count \in [Threads -> Nat]
  /\ requests \in [Threads -> SUBSET (Threads \cup {All})]
  /\ suspendall_barrier \in [Threads -> Threads \cup {None}]
  /\ suspend1_barriers \in [Threads -> SUBSET Threads]
  /\ exit_flags \in [Threads -> SUBSET Threads]
  /\ exited \subseteq Threads
  /\ suspend_all_count \in {0, 1}
  /\ list_lock \in Threads \cup {None}
  /\ count_lock \in Threads \cup {None}
  /\ mutator_owner \in Threads \cup {None}
  /\ mutator_shared \subseteq Threads
  /\ resume_waiters \subseteq Threads
  /\ pc \in [Threads -> PC]
  /\ ret \in [Threads -> Return]
  /\ target \in [Threads -> Threads \cup {None}]
  /\ attempt \in [Threads -> 0..4]
  /\ barrier \in [Threads -> {0, 1}]
  /\ pending_threads \in [Threads -> Nat]
  /\ todo \in [Threads -> SUBSET Threads]
  /\ current \in [Threads -> Threads \cup {None}]

\* What SuspendAll promises: from the moment it returns until ResumeAll gives
\* mutator_lock_ back, every other attached thread, one that attaches meanwhile
\* included, is suspended and stays so (AssertOtherThreadsAreSuspended).
WorldStopped ==
  mutator_owner # None => \A t \in list \ {mutator_owner} : IsSuspended(t)

\* What SuspendThread promises: a thread whose suspension has been reported to
\* the caller stays attached and suspended until that caller resumes it, so
\* that Resume never takes its LOG(FATAL) branches.
SuspendedUntilResumed ==
  \A s, t \in Threads : s \in requests[t] /\ target[s] # t
                          => IsSuspended(t) /\ t \in list

\* suspend_count_ counts the requests that are outstanding, kSuspendRequest is
\* set exactly while there is one, and only an attached thread has one: no
\* request is applied to the successor of a thread that exited.
CountsMatchRequests ==
  \A t \in Threads :
    /\ suspend_count[t] = Cardinality(requests[t])
    /\ "kSuspendRequest" \in flags[t] <=> requests[t] # {}
    /\ requests[t] # {} => t \in list

\* A barrier linked from a thread lives in a frame that is still waiting for
\* it: no thread decrements a barrier of a SuspendThread that returned or gave
\* up, or the counter of a SuspendAll that went on.
NoDanglingBarrier ==
  \A s, t \in Threads :
    /\ s \in suspend1_barriers[t] =>
         /\ target[s] = t
         /\ barrier[s] = 1
         /\ \/ pc[s] \in {"st_check", "st_wait", "st_timeout"}
            \/ ret[s] = "st_wait"
    /\ suspendall_barrier[t] = s =>
         /\ pc[s] \in {"sa_loop", "sa_check", "sa_wait"}
         /\ pending_threads[s] > 0

\* A barrier that is not passed is still linked from a thread that has yet to
\* pass it, and the flag that makes it do so is set: no requester waits for a
\* decrement that nobody will make.
NoForgottenBarrier ==
  \A s \in Threads :
    /\ (pc[s] \in {"st_wait", "st_timeout"} /\ barrier[s] # 0) =>
         /\ s \in suspend1_barriers[target[s]]
         /\ "kActiveSuspendBarrier" \in flags[target[s]]
    /\ pc[s] = "sa_wait" =>
         /\ pending_threads[s] =
              Cardinality({t \in Threads : suspendall_barrier[t] = s})
         /\ \A t \in Threads : suspendall_barrier[t] = s =>
              "kActiveSuspendBarrier" \in flags[t]

\* Whoever is blocked on resume_cond_ has a reason to: outside the critical
\* sections that change the reason and broadcast, a waiting thread is asked to
\* suspend, and a waiting SuspendAll sees another one running.
NoLostWakeup ==
  count_lock = None =>
    \A t \in resume_waiters :
      \/ pc[t] = "wait_resume" /\ "kSuspendRequest" \in flags[t]
      \/ pc[t] = "sa_lock" /\ suspend_all_count # 0

\* Threads never suspend each other in a circle: in every set of threads some
\* thread is not suspended by another of the set.  SuspendThread backs off while
\* its caller has a suspend request for this.
NoSuspendCycle ==
  \A C \in (SUBSET Threads) \ {{}} : \E t \in C : requests[t] \cap C = {}

\* Between SuspendAll and ResumeAll nobody starts to suspend a single thread,
\* the caller of SuspendAll included (runtime/mutator_gc_coord.md).
NoSuspensionWhileStopped ==
  [][mutator_owner # None =>
       \A t \in Threads : requests'[t] \subseteq requests[t] \cup {All}]_vars

\* At most one SuspendAll is between its first request and its ResumeAll.
OneSuspendAll ==
  \A s, u \in Threads :
    {pc[s], pc[u]} \subseteq {"sa_loop", "sa_check", "sa_wait", "sa_mutator",
                               "sa_stopped", "ra_loop"} => s = u

\* A SuspendAll that has started stops the world, whatever the other threads
\* are in the middle of, a SuspendThread of its own caller included.
SuspendAllCompletes ==
  \A s \in Threads : pc[s] = "sa_loop" ~> mutator_owner = s

\* A request to suspend a thread is answered: the target passes the barrier or
\* the caller gives up, whatever other suspensions are under way.
SuspendRequestAnswered ==
  \A s \in Threads : pc[s] = "st_wait" ~> pc[s] # "st_wait"

=============================================================================
