--------------------------- MODULE ThreadCheckpoint ---------------------------
(***************************************************************************)
(* Checkpoints: a closure that every attached thread has to run.           *)
(* ThreadList::RunCheckpoint installs it in the threads that are runnable  *)
(* and runs it on behalf of the others, which it keeps suspended while it  *)
(* does (runtime/thread_list.cc).  Thread::RequestSynchronousCheckpoint    *)
(* does the same for one thread and waits (runtime/thread.cc).             *)
(*                                                                         *)
(* The module extends ThreadSuspension: the threads go on to change state, *)
(* to be suspended, and to attach and detach, while checkpoints run.  No   *)
(* flip function is pending here (FlipFunctionFlags() is clear).           *)
(***************************************************************************)
EXTENDS ThreadSuspension, Sequences

CONSTANTS
  Checkpointers,      \* the threads that may call RunCheckpoint
  Modes,              \* how: "held", "acquire" or "none", see RunCheckpoint
  SyncCheckpointers   \* the threads that may call RequestSynchronousCheckpoint

ASSUME CheckpointAssumption ==
  /\ Checkpointers \subseteq Threads
  /\ SyncCheckpointers \subseteq Threads
  /\ Modes \subseteq {"held", "acquire", "none"}

VARIABLES
  checkpoints,  \* tlsPtr_.checkpoint_function followed by checkpoint_overflow_
  running,      \* the closure a thread has taken from there and not yet run
  mode,         \* RunCheckpoint: mutator_lock_held and acquire_mutator_lock
  remaining,    \* RunCheckpoint: remaining_threads
  tefs,         \* RunCheckpoint: the threads whose list of exit flags has a tefs[i]
  tef_exited,   \* RunCheckpoint: the threads whose tefs[i].exited_ is set
  count,        \* RunCheckpoint: the result
  gc_barrier,   \* the barrier that the closure passes and the caller waits for
  due           \* history: the threads that have yet to run the closure

checkpointVars == <<checkpoints, running, mode, remaining, tefs, tef_exited,
                    count, gc_barrier, due>>
coreVars == <<threadVars, exitVars, lockVars, mutatorVars, resume_waiters, pc,
              ret, oneVars, allVars>>
allCheckpointVars == <<coreVars, checkpointVars>>

\* A closure is named by the thread that wants it run.  It runs for thread t
\* and passes its barrier.
RunClosure(r, t) ==
  /\ gc_barrier' = [gc_barrier EXCEPT ![r] = @ - 1]
  /\ due' = [due EXCEPT ![r] = @ \ {t}]

-------------------------------------------------------------------------------
(* The thread that is asked (runtime/thread.cc).                           *)

\* Slip: the flag is set whatever state the thread is in.
RequestAnyway(t, closure) ==
  /\ flags' = [flags EXCEPT ![t] = @ \cup {"kCheckpointRequest"}]
  /\ checkpoints' = [checkpoints EXCEPT ![t] = Append(@, closure)]

\* Thread::RequestCheckpoint: the CAS that sets the flag succeeds only in
\* kRunnable; the closure is queued under thread_suspend_count_lock_.
RequestCheckpoint(t, closure) ==
  /\ state[t] = "kRunnable"
  /\ flags' = [flags EXCEPT ![t] = @ \cup {"kCheckpointRequest"}]
  /\ checkpoints' = [checkpoints EXCEPT ![t] = Append(@, closure)]

AtSuspendPoint == {"run", "to_suspended"}

\* Where a thread is while it runs a checkpoint it took at a suspend point.
Inside(there) == IF there = "run" THEN "cp_run" ELSE "cp_to_suspended"

\* Thread::RunCheckpointFunction, from CheckSuspend and from
\* TransitionToSuspendedAndRunCheckpoints: take the first closure ...
RunCheckpointFunction(t) ==
  /\ pc[t] \in AtSuspendPoint
  /\ "kCheckpointRequest" \in flags[t]
  /\ count_lock = None
  /\ running' = [running EXCEPT ![t] = Head(checkpoints[t])]
  /\ checkpoints' = [checkpoints EXCEPT ![t] = Tail(@)]
  /\ flags' = [flags EXCEPT ![t] =
                 IF Len(checkpoints[t]) > 1 THEN @
                                            ELSE @ \ {"kCheckpointRequest"}]
  /\ Goto(t, Inside(pc[t]))
  /\ UNCHANGED <<list, state, suspend_count, requests, suspendall_barrier,
                 suspend1_barriers, exitVars, lockVars, mutatorVars,
                 resume_waiters, ret, oneVars, allVars, mode, remaining, tefs,
                 tef_exited, count, gc_barrier, due>>

\* ... and run it outside the lock.
RunTakenCheckpoint(t) ==
  /\ \E there \in AtSuspendPoint, r \in Threads :
       /\ pc[t] = Inside(there)
       /\ running[t] = r
       /\ RunClosure(r, t)
       /\ Goto(t, there)
  /\ running' = [running EXCEPT ![t] = None]
  /\ UNCHANGED <<threadVars, exitVars, lockVars, mutatorVars, resume_waiters,
                 ret, oneVars, allVars, checkpoints, mode, remaining, tefs,
                 tef_exited, count>>

-------------------------------------------------------------------------------
(* ThreadList::RunCheckpoint.  A loop over list_ or remaining_threads takes *)
(* one step for each access to the state word of a thread.                  *)

\* "held": the caller is runnable.  "acquire": it is not, and becomes so for
\* the call (acquire_mutator_lock).  "none": it is not, and stays so.
RunCheckpoint(r) ==
  /\ r \in Checkpointers
  /\ \E m \in Modes :
       /\ mode' = [mode EXCEPT ![r] = m]
       /\ pc[r] = (IF m = "held" THEN "run" ELSE "native")
       /\ IF m = "acquire" THEN GotoAndReturn(r, "to_runnable", "rc_lock")
                           ELSE Goto(r, "rc_lock") /\ UNCHANGED ret
  /\ gc_barrier' = [gc_barrier EXCEPT ![r] = 0]
  /\ UNCHANGED <<threadVars, exitVars, lockVars, mutatorVars, resume_waiters,
                 oneVars, allVars, checkpoints, running, remaining, tefs,
                 tef_exited, count, due>>

\* Slip: the caller is not counted.
OthersOnly == Cardinality(list) - 1

\* count = list_.size().
InitialCount == Cardinality(list)

BeginCheckpoint(r) ==
  /\ pc[r] = "rc_lock"
  /\ TakeLocks(r)
  /\ count' = [count EXCEPT ![r] = InitialCount]
  /\ todo' = [todo EXCEPT ![r] = list \ {r}]
  /\ due' = [due EXCEPT ![r] = list]
  /\ Goto(r, "rc_request")
  /\ UNCHANGED <<threadVars, exitVars, mutatorVars, resume_waiters, ret, oneVars,
                 suspend_all_count, pending_threads, current, checkpoints,
                 running, mode, remaining, tefs, tef_exited, gc_barrier>>

\* The first loop: install the closure in the threads that are runnable.
FirstRequest(r) ==
  /\ pc[r] = "rc_request"
  /\ \E t \in todo[r] :
       /\ todo' = [todo EXCEPT ![r] = @ \ {t}]
       /\ \/ /\ RequestCheckpoint(t, r)
             /\ UNCHANGED remaining
          \/ /\ state[t] # "kRunnable"
             /\ remaining' = [remaining EXCEPT ![r] = @ \cup {t}]
             /\ UNCHANGED <<flags, checkpoints>>
  /\ UNCHANGED <<list, state, suspend_count, requests, suspendall_barrier,
                 suspend1_barriers, exitVars, lockVars, mutatorVars,
                 resume_waiters, pc, ret, oneVars, suspend_all_count,
                 pending_threads, current, running, mode, tefs, tef_exited,
                 count, gc_barrier, due>>

\* NotifyOnThreadExit for the others, then the first pass over them.
WatchExits(r) ==
  /\ pc[r] = "rc_request"
  /\ todo[r] = {}
  /\ tefs' = [tefs EXCEPT ![r] = remaining[r]]
  /\ tef_exited' = [tef_exited EXCEPT ![r] = {}]
  /\ todo' = [todo EXCEPT ![r] = remaining[r]]
  /\ Goto(r, "rc_scan")
  /\ UNCHANGED <<threadVars, exitVars, lockVars, mutatorVars, resume_waiters,
                 ret, oneVars, suspend_all_count, pending_threads, current,
                 checkpoints, running, mode, remaining, count, gc_barrier, due>>

\* Slip: a thread that exited is still counted.
StillCounted(r) == count[r]

\* The count without a thread that exited.
CountExit(r) == count[r] - 1

\* tefs[i].HasExited().
SkipExited(r) ==
  /\ pc[r] = "rc_scan"
  /\ \E t \in todo[r] \cap tef_exited[r] :
       /\ todo' = [todo EXCEPT ![r] = @ \ {t}]
       /\ remaining' = [remaining EXCEPT ![r] = @ \ {t}]
  /\ count' = [count EXCEPT ![r] = CountExit(r)]
  /\ UNCHANGED <<threadVars, exitVars, lockVars, mutatorVars, resume_waiters, pc,
                 ret, oneVars, suspend_all_count, pending_threads, current,
                 checkpoints, running, mode, tefs, tef_exited, gc_barrier, due>>

\* The thread has become runnable: it runs the checkpoint itself.
RequestAgain(r) ==
  /\ pc[r] = "rc_scan"
  /\ \E t \in todo[r] \ tef_exited[r] :
       /\ RequestCheckpoint(t, r)
       /\ tefs' = [tefs EXCEPT ![r] = @ \ {t}]
       /\ todo' = [todo EXCEPT ![r] = @ \ {t}]
       /\ remaining' = [remaining EXCEPT ![r] = @ \ {t}]
  /\ UNCHANGED <<list, state, suspend_count, requests, suspendall_barrier,
                 suspend1_barriers, exitVars, lockVars, mutatorVars,
                 resume_waiters, pc, ret, oneVars, suspend_all_count,
                 pending_threads, current, running, mode, tef_exited, count,
                 gc_barrier, due>>

\* RequestCheckpoint finds it not runnable; it may become so before ...
StillSuspended(r) ==
  /\ pc[r] = "rc_scan"
  /\ \E t \in todo[r] \ tef_exited[r] :
       /\ state[t] # "kRunnable"
       /\ current' = [current EXCEPT ![r] = t]
       /\ todo' = [todo EXCEPT ![r] = @ \ {t}]
  /\ Goto(r, "rc_increment")
  /\ UNCHANGED <<threadVars, exitVars, lockVars, mutatorVars, resume_waiters,
                 ret, oneVars, suspend_all_count, pending_threads,
                 checkpointVars>>

\* ... its suspend count is raised.
HoldSuspended(r) ==
  /\ pc[r] = "rc_increment"
  /\ IncrementSuspendCount(current[r], <<"checkpoint", r>>, None, None)
  /\ Goto(r, "rc_check")
  /\ UNCHANGED <<list, state, exitVars, lockVars, mutatorVars, resume_waiters,
                 ret, oneVars, allVars, checkpointVars>>

\* Slip: the closure is run for a thread that has become runnable.
RunAnyway(r) ==
  /\ pc[r] = "rc_check"
  /\ ReleaseLocks
  /\ Goto(r, "rc_run")
  /\ UNCHANGED <<threadVars, exitVars, mutatorVars, resume_waiters, ret, oneVars,
                 allVars, checkpointVars>>

\* It is suspended and stays so: go and run the closure for it.
RunForSuspended(r) ==
  /\ pc[r] = "rc_check"
  /\ IsSuspended(current[r])
  /\ ReleaseLocks
  /\ Goto(r, "rc_run")
  /\ UNCHANGED <<threadVars, exitVars, mutatorVars, resume_waiters, ret, oneVars,
                 allVars, checkpointVars>>

\* It became runnable in between: leave it for the next pass.
Defer(r) ==
  /\ pc[r] = "rc_check"
  /\ ~IsSuspended(current[r])
  /\ DecrementSuspendCount(current[r], <<"checkpoint", r>>, {})
  /\ Broadcast
  /\ current' = [current EXCEPT ![r] = None]
  /\ Goto(r, "rc_scan")
  /\ UNCHANGED <<list, state, suspendall_barrier, suspend1_barriers, exitVars,
                 lockVars, mutatorVars, ret, oneVars, suspend_all_count,
                 pending_threads, todo, checkpointVars>>

\* checkpoint_function->Run(thread), without the locks.
RunOnBehalf(r) ==
  /\ pc[r] = "rc_run"
  /\ RunClosure(r, current[r])
  /\ Goto(r, "rc_resume")
  /\ UNCHANGED <<threadVars, exitVars, lockVars, mutatorVars, resume_waiters,
                 ret, oneVars, allVars, checkpoints, running, mode, remaining,
                 tefs, tef_exited, count>>

\* Let the thread go, with both locks ...
ResumeAfterRun(r) ==
  /\ pc[r] = "rc_resume"
  /\ mode[r] # "acquire"
  /\ TakeLocks(r)
  /\ DecrementSuspendCount(current[r], <<"checkpoint", r>>, {})
  /\ Broadcast
  /\ tefs' = [tefs EXCEPT ![r] = @ \ {current[r]}]
  /\ remaining' = [remaining EXCEPT ![r] = @ \ {current[r]}]
  /\ current' = [current EXCEPT ![r] = None]
  /\ Goto(r, "rc_scan")
  /\ UNCHANGED <<list, state, suspendall_barrier, suspend1_barriers, exitVars,
                 mutatorVars, ret, oneVars, suspend_all_count, pending_threads,
                 todo, checkpoints, running, mode, tef_exited, count, gc_barrier,
                 due>>

\* ... or, with acquire_mutator_lock, with thread_suspend_count_lock_ only,
\* followed by a ScopedThreadSuspension: the thread may exit meanwhile.
ResumeAndYield(r) ==
  /\ pc[r] = "rc_resume"
  /\ mode[r] = "acquire"
  /\ count_lock = None
  /\ DecrementSuspendCount(current[r], <<"checkpoint", r>>, {})
  /\ Broadcast
  /\ GotoAndReturn(r, "to_suspended", "rc_reenter")
  /\ UNCHANGED <<list, state, suspendall_barrier, suspend1_barriers, exitVars,
                 lockVars, mutatorVars, oneVars, allVars, checkpointVars>>

Reenter(r) ==
  /\ pc[r] = "rc_reenter"
  /\ GotoAndReturn(r, "to_runnable", "rc_relock")
  /\ UNCHANGED <<threadVars, exitVars, lockVars, mutatorVars, resume_waiters,
                 oneVars, allVars, checkpointVars>>

\* UnregisterThreadExitFlag does nothing if the thread has exited.
RelockAfterRun(r) ==
  /\ pc[r] = "rc_relock"
  /\ TakeLocks(r)
  /\ tefs' = [tefs EXCEPT ![r] = @ \ {current[r]}]
  /\ remaining' = [remaining EXCEPT ![r] = @ \ {current[r]}]
  /\ current' = [current EXCEPT ![r] = None]
  /\ Goto(r, "rc_scan")
  /\ UNCHANGED <<threadVars, exitVars, mutatorVars, resume_waiters, ret, oneVars,
                 suspend_all_count, pending_threads, todo, checkpoints, running,
                 mode, tef_exited, count, gc_barrier, due>>

\* The do-while loop: another pass over what remains, with the locks held.
NextPass(r) ==
  /\ pc[r] = "rc_scan"
  /\ todo[r] = {}
  /\ remaining[r] # {}
  /\ todo' = [todo EXCEPT ![r] = remaining[r]]
  /\ UNCHANGED <<threadVars, exitVars, lockVars, mutatorVars, resume_waiters, pc,
                 ret, oneVars, suspend_all_count, pending_threads, current,
                 checkpointVars>>

LastPass(r) ==
  /\ pc[r] = "rc_scan"
  /\ todo[r] = {}
  /\ remaining[r] = {}
  /\ ReleaseLocks
  /\ Goto(r, "rc_self")
  /\ UNCHANGED <<threadVars, exitVars, mutatorVars, resume_waiters, ret, oneVars,
                 allVars, checkpointVars>>

\* checkpoint_function->Run(self); the caller then waits in a suspended state.
RunOnSelf(r) ==
  /\ pc[r] = "rc_self"
  /\ RunClosure(r, r)
  /\ IF mode[r] = "none"
       THEN Goto(r, "rc_barrier") /\ UNCHANGED ret
       ELSE GotoAndReturn(r, "to_suspended", "rc_barrier")
  /\ UNCHANGED <<threadVars, exitVars, lockVars, mutatorVars, resume_waiters,
                 oneVars, allVars, checkpoints, running, mode, remaining, tefs,
                 tef_exited, count>>

\* barrier.Increment(self, barrier_count) adds the threads that RunCheckpoint
\* counted, ...
AddToBarrier(r) ==
  /\ pc[r] = "rc_barrier"
  /\ gc_barrier' = [gc_barrier EXCEPT ![r] = @ + count[r]]
  /\ Goto(r, "rc_wait")
  /\ UNCHANGED <<threadVars, exitVars, lockVars, mutatorVars, resume_waiters,
                 ret, oneVars, allVars, checkpoints, running, mode, remaining,
                 tefs, tef_exited, count, due>>

\* ... and waits for zero.  The caller returns, and the closure is gone.
CheckpointDone(r) ==
  /\ pc[r] = "rc_wait"
  /\ gc_barrier[r] = 0
  /\ IF mode[r] = "held" THEN GotoAndReturn(r, "to_runnable", "run")
                         ELSE Goto(r, "native") /\ UNCHANGED ret
  /\ UNCHANGED <<threadVars, exitVars, lockVars, mutatorVars, resume_waiters,
                 oneVars, allVars, checkpointVars>>

-------------------------------------------------------------------------------
(* Thread::RequestSynchronousCheckpoint(function, wait_state), for a        *)
(* wait_state other than kRunnable.                                         *)

\* The caller is runnable.  It finds its target under thread_list_lock_.
RequestSynchronousCheckpoint(r) ==
  /\ r \in SyncCheckpointers
  /\ pc[r] = "run"
  /\ list_lock = None
  /\ \E t \in list \ {r} :
       /\ target' = [target EXCEPT ![r] = t]
       /\ due' = [due EXCEPT ![r] = {t}]
       /\ Goto(r, IF state[t] = "kRunnable" THEN "sc_install" ELSE "sc_suspend")
  /\ list_lock' = r
  /\ gc_barrier' = [gc_barrier EXCEPT ![r] = 0]
  /\ exited' = exited \ {r}
  /\ UNCHANGED <<threadVars, exit_flags, count_lock, mutatorVars, resume_waiters,
                 ret, attempt, barrier, allVars, checkpoints, running, mode,
                 remaining, tefs, tef_exited, count>>

\* The target is runnable: let it run the closure, and wait suspended.
InstallSynchronous(r) ==
  /\ pc[r] = "sc_install"
  /\ count_lock = None
  /\ RequestCheckpoint(target[r], r)
  /\ list_lock' = None
  /\ GotoAndReturn(r, "to_suspended", "sc_barrier")
  /\ UNCHANGED <<list, state, suspend_count, requests, suspendall_barrier,
                 suspend1_barriers, exitVars, count_lock, mutatorVars,
                 resume_waiters, oneVars, allVars, running, mode, remaining,
                 tefs, tef_exited, count, gc_barrier, due>>

\* It no longer is: fall through.
NoLongerRunnable(r) ==
  /\ pc[r] = "sc_install"
  /\ count_lock = None
  /\ state[target[r]] # "kRunnable"
  /\ Goto(r, "sc_suspend")
  /\ UNCHANGED <<threadVars, exitVars, lockVars, mutatorVars, resume_waiters,
                 ret, oneVars, allVars, checkpointVars>>

\* barrier_closure.Wait(): the target may have passed it already.
AddToClosureBarrier(r) ==
  /\ pc[r] = "sc_barrier"
  /\ gc_barrier' = [gc_barrier EXCEPT ![r] = @ + 1]
  /\ Goto(r, "sc_done")
  /\ UNCHANGED <<threadVars, exitVars, lockVars, mutatorVars, resume_waiters,
                 ret, oneVars, allVars, checkpoints, running, mode, remaining,
                 tefs, tef_exited, count, due>>

\* Slip: the caller does not wait for the closure.
LeaveAtOnce(r) ==
  /\ pc[r] = "sc_done"
  /\ target' = [target EXCEPT ![r] = None]
  /\ GotoAndReturn(r, "to_runnable", "run")
  /\ UNCHANGED <<threadVars, exitVars, lockVars, mutatorVars, resume_waiters,
                 attempt, barrier, allVars, checkpointVars>>

ClosureDone(r) ==
  /\ pc[r] = "sc_done"
  /\ gc_barrier[r] = 0
  /\ target' = [target EXCEPT ![r] = None]
  /\ GotoAndReturn(r, "to_runnable", "run")
  /\ UNCHANGED <<threadVars, exitVars, lockVars, mutatorVars, resume_waiters,
                 attempt, barrier, allVars, checkpointVars>>

\* The target is not runnable: suspend it, unless the caller is itself asked to
\* suspend.  thread_list_lock_ is released before IsSuspended().
SuspendForCheckpoint(r) ==
  /\ pc[r] = "sc_suspend"
  /\ count_lock = None
  /\ suspend_count[r] = 0
  /\ exit_flags' = [exit_flags EXCEPT ![target[r]] = @ \ {r}]
  /\ IncrementSuspendCount(target[r], <<"checkpoint", r>>, None, r)
  /\ barrier' = [barrier EXCEPT ![r] = 1]
  /\ list_lock' = None
  /\ count_lock' = r
  /\ Goto(r, "sc_check")
  /\ UNCHANGED <<list, state, exited, mutatorVars, resume_waiters, ret, target,
                 attempt, allVars, checkpointVars>>

\* Otherwise watch for its exit, release the locks, and sleep suspended.
BackOffCheckpoint(r) ==
  /\ pc[r] = "sc_suspend"
  /\ count_lock = None
  /\ suspend_count[r] # 0
  /\ exit_flags' = [exit_flags EXCEPT ![target[r]] = @ \cup {r}]
  /\ list_lock' = None
  /\ GotoAndReturn(r, "to_suspended", "sc_sleep")
  /\ UNCHANGED <<threadVars, exited, count_lock, mutatorVars, resume_waiters,
                 oneVars, allVars, checkpointVars>>

SleepCheckpoint(r) ==
  /\ pc[r] = "sc_sleep"
  /\ GotoAndReturn(r, "to_runnable", "sc_relock")
  /\ UNCHANGED <<threadVars, exitVars, lockVars, mutatorVars, resume_waiters,
                 oneVars, allVars, checkpointVars>>

RelockCheckpoint(r) ==
  /\ pc[r] = "sc_relock"
  /\ list_lock = None
  /\ IF r \in exited
       THEN /\ target' = [target EXCEPT ![r] = None]
            /\ Goto(r, "run")
            /\ UNCHANGED list_lock
       ELSE /\ list_lock' = r
            /\ Goto(r, "sc_suspend")
            /\ UNCHANGED target
  /\ UNCHANGED <<threadVars, exitVars, count_lock, mutatorVars, resume_waiters,
                 ret, attempt, barrier, allVars, checkpointVars>>

\* IsSuspended(), as in SuspendThread.
CheckSynchronous(r) ==
  LET t == target[r]
      one == RemoveSuspend1Barrier(t, r)
  IN
  /\ pc[r] = "sc_check"
  /\ IF IsSuspended(t)
       THEN /\ suspend1_barriers' = [suspend1_barriers EXCEPT ![t] = one]
            /\ flags' = [flags EXCEPT ![t] =
                           @ \ InactiveBarrierFlag(suspendall_barrier[t], one)]
            /\ Goto(r, "sc_run")
       ELSE /\ Goto(r, "sc_wait")
            /\ UNCHANGED <<suspend1_barriers, flags>>
  /\ count_lock' = None
  /\ UNCHANGED <<list, state, suspend_count, requests, suspendall_barrier,
                 exitVars, list_lock, mutatorVars, resume_waiters, ret, oneVars,
                 allVars, checkpointVars>>

\* WaitForSuspendBarrier: the caller stays runnable; a timeout aborts.
TargetSuspended(r) ==
  /\ pc[r] = "sc_wait"
  /\ barrier[r] = 0
  /\ Goto(r, "sc_run")
  /\ UNCHANGED <<threadVars, exitVars, lockVars, mutatorVars, resume_waiters,
                 ret, oneVars, allVars, checkpointVars>>

RunSynchronous(r) ==
  /\ pc[r] = "sc_run"
  /\ RunClosure(r, target[r])
  /\ Goto(r, "sc_resume")
  /\ UNCHANGED <<threadVars, exitVars, lockVars, mutatorVars, resume_waiters,
                 ret, oneVars, allVars, checkpoints, running, mode, remaining,
                 tefs, tef_exited, count>>

ResumeSynchronous(r) ==
  /\ pc[r] = "sc_resume"
  /\ count_lock = None
  /\ DecrementSuspendCount(target[r], <<"checkpoint", r>>, {})
  /\ Broadcast
  /\ target' = [target EXCEPT ![r] = None]
  /\ Goto(r, "run")
  /\ UNCHANGED <<list, state, suspendall_barrier, suspend1_barriers, exitVars,
                 lockVars, mutatorVars, ret, attempt, barrier, allVars,
                 checkpointVars>>

-------------------------------------------------------------------------------
CheckpointInit ==
  /\ Init
  /\ checkpoints = [t \in Threads |-> <<>>]
  /\ running = [t \in Threads |-> None]
  /\ mode = [r \in Threads |-> "none"]
  /\ remaining = [r \in Threads |-> {}]
  /\ tefs = [r \in Threads |-> {}]
  /\ tef_exited = [r \in Threads |-> {}]
  /\ count = [r \in Threads |-> 0]
  /\ gc_barrier = [r \in Threads |-> 0]
  /\ due = [r \in Threads |-> {}]

\* SignalExitFlags also reaches the flags of RunCheckpoint.  A thread that is
\* gone has nothing due.
UnregisterWatched(t) ==
  /\ Unregister(t)
  /\ tef_exited' = [r \in Threads |-> IF t \in tefs[r] THEN tef_exited[r] \cup {t}
                                                       ELSE tef_exited[r]]
  /\ tefs' = [r \in Threads |-> tefs[r] \ {t}]
  /\ due' = [r \in Threads |-> due[r] \ {t}]
  /\ UNCHANGED <<checkpoints, running, mode, remaining, count, gc_barrier>>

TargetStep(t) == RunCheckpointFunction(t) \/ RunTakenCheckpoint(t)

RequesterStep(r) ==
  \/ BeginCheckpoint(r)
  \/ FirstRequest(r)
  \/ WatchExits(r)
  \/ SkipExited(r)
  \/ RequestAgain(r)
  \/ StillSuspended(r)
  \/ HoldSuspended(r)
  \/ RunForSuspended(r)
  \/ Defer(r)
  \/ RunOnBehalf(r)
  \/ ResumeAfterRun(r)
  \/ ResumeAndYield(r)
  \/ Reenter(r)
  \/ RelockAfterRun(r)
  \/ NextPass(r)
  \/ LastPass(r)
  \/ RunOnSelf(r)
  \/ AddToBarrier(r)
  \/ CheckpointDone(r)

SynchronousStep(r) ==
  \/ InstallSynchronous(r)
  \/ NoLongerRunnable(r)
  \/ AddToClosureBarrier(r)
  \/ ClosureDone(r)
  \/ SuspendForCheckpoint(r)
  \/ BackOffCheckpoint(r)
  \/ SleepCheckpoint(r)
  \/ RelockCheckpoint(r)
  \/ CheckSynchronous(r)
  \/ TargetSuspended(r)
  \/ RunSynchronous(r)
  \/ ResumeSynchronous(r)

\* What starts an operation ...
Call(t) ==
  \/ RunCheckpoint(t)
  \/ RequestSynchronousCheckpoint(t)
  \/ (SuspendAll(t) \/ Register(t) \/ BeginUnregister(t)) /\ UNCHANGED checkpointVars

\* ... and what goes on with one.
Step(t) ==
  \/ StateChange(t) /\ UNCHANGED checkpointVars
  \/ pc[t] # "native" /\ StopTheWorld(t) /\ UNCHANGED checkpointVars
  \/ UnregisterWatched(t)
  \/ TargetStep(t)
  \/ RequesterStep(t)
  \/ SynchronousStep(t)

CheckpointNext == \E t \in Threads : Call(t) \/ Step(t)

CheckpointSpec == CheckpointInit /\ [][CheckpointNext]_allCheckpointVars

\* What a thread does of itself once it is asked or has asked, and the polls of
\* a thread that runs Java code.
CheckpointProceed(t) ==
  \/ Proceed(t) /\ UNCHANGED checkpointVars
  \/ TargetStep(t)
  \/ RequesterStep(t)
  \/ SynchronousStep(t)

-------------------------------------------------------------------------------
(* Properties.                                                             *)

\* Where the frame of a RunCheckpoint or RequestSynchronousCheckpoint, with the
\* closure in it, exists.
CallPC == {"rc_lock", "rc_request", "rc_scan", "rc_increment", "rc_check",
           "rc_run", "rc_resume", "rc_reenter", "rc_relock", "rc_self",
           "rc_barrier", "rc_wait", "sc_install", "sc_barrier", "sc_done",
           "sc_suspend", "sc_sleep", "sc_relock", "sc_check", "sc_wait",
           "sc_run", "sc_resume"}

InCall(r) == pc[r] \in CallPC \/ ret[r] \in CallPC

\* Every variable keeps its type.
CheckpointTypeOK ==
  /\ checkpoints \in [Threads -> Seq(Threads)]
  /\ running \in [Threads -> Threads \cup {None}]
  /\ mode \in [Threads -> {"held", "acquire", "none"}]
  /\ remaining \in [Threads -> SUBSET Threads]
  /\ tefs \in [Threads -> SUBSET Threads]
  /\ tef_exited \in [Threads -> SUBSET Threads]
  /\ count \in [Threads -> 0..Cardinality(Threads)]
  /\ gc_barrier \in [Threads -> -Cardinality(Threads)..Cardinality(Threads)]
  /\ due \in [Threads -> SUBSET Threads]

\* kCheckpointRequest is set exactly while a closure is queued, and only in
\* kRunnable: RunCheckpointFunction always finds one, and no thread has to
\* enter kRunnable with a checkpoint pending.  Both are CHECKed or LOG(FATAL).
CheckpointFlag ==
  /\ CheckpointTypeOK
  /\ \A t \in Threads :
       /\ "kCheckpointRequest" \in flags[t] <=> checkpoints[t] # <<>>
       /\ checkpoints[t] # <<>> => state[t] = "kRunnable"

\* While a closure runs on behalf of a thread, that thread is attached and
\* suspended, and nobody resumes it.
TargetStaysSuspended ==
  \A r \in Threads :
    /\ pc[r] \in {"rc_run", "rc_resume"} => IsSuspended(current[r]) /\ current[r] \in list
    /\ pc[r] \in {"sc_run", "sc_resume"} => IsSuspended(target[r]) /\ target[r] \in list

\* A queued closure lives in a frame that is still waiting for it.
NoDanglingClosure ==
  \A r, t \in Threads :
    (running[t] = r \/ \E i \in DOMAIN checkpoints[t] : checkpoints[t][i] = r)
      => InCall(r)

\* The number that RunCheckpoint returns is right: when the caller has added it
\* to the barrier, what is left is the number of threads that have yet to run
\* the closure, however many have run it, twice or not at all, or have exited.
BarrierCountsDue ==
  \A r \in Threads : pc[r] = "rc_wait" => gc_barrier[r] = Cardinality(due[r])

\* A call of the promise begins when its threads are fixed.
Promise == INSTANCE CheckpointPromise
             WITH attached <- list,
                  open <- {r \in Threads : {pc[r], ret[r]} \cap (CallPC \ {"rc_lock"}) # {}},
                  pending <- due

\* Both kinds of checkpoint keep the promise of CheckpointPromise: the call is
\* not over while an attached thread has yet to run the closure.
PromiseKept == Promise!PromiseSpec

\* Every call comes back: the barrier of RunCheckpoint is passed, and threads
\* that ask each other for synchronous checkpoints do not wait for each other,
\* although threads exit, attach, are suspended and stop the world meanwhile.  The
\* loop of RunCheckpoint has no bound: a thread that changes state in step with it
\* would keep it busy, and with it a requester that waits for the locks, so this
\* is for threads that in the end stay runnable or stay suspended.
CheckpointCompletes ==
  (\A t \in Threads : \/ <>[](state[t] = "kRunnable")
                      \/ <>[](state[t] # "kRunnable"))
    => \A r \in Threads : pc[r] \in {"rc_lock", "sc_install", "sc_suspend"} ~> ~InCall(r)

=============================================================================
