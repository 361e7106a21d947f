------------------------------ MODULE ThreadFlip ------------------------------
(***************************************************************************)
(* Thread flips: the collector stops the world, gives every thread a flip  *)
(* function, and lets the threads go.  The flip function of a thread runs  *)
(* before the thread runs Java code again, on the first thread that gets   *)
(* to it: the thread itself, the collector, or one that runs a checkpoint  *)
(* on its behalf (FlipThreadRoots in runtime/thread_list.cc, and           *)
(* EnsureFlipFunctionStarted in runtime/thread.cc).                        *)
(***************************************************************************)
EXTENDS ThreadCheckpoint

CONSTANT Flippers   \* the threads that may call FlipThreadRoots

ASSUME FlipAssumption ==
  /\ Flippers \subseteq Threads
  /\ Flippers \cap SuspendAllers = {}

VARIABLES
  flip_function,  \* the threads with tlsPtr_.flip_function set
  flip_target,    \* the thread whose flip function one runs or waits for
  flip_back,      \* where one goes on then
  flipping,       \* FlipThreadRoots: flipping_threads, less the null entries
  flip_tefs,      \* FlipThreadRoots: the threads with an exit_flags[i] registered
  flip_exited     \* FlipThreadRoots: the threads whose exit_flags[i] is set

flipVars == <<flip_function, flip_target, flip_back, flipping, flip_tefs,
              flip_exited>>
allFlipVars == <<allCheckpointVars, flipVars>>

FlipFunctionFlags == {"kPendingFlipFunction", "kRunningFlipFunction"}

-------------------------------------------------------------------------------
(* Running a flip function (runtime/thread.cc).                            *)

\* Slip: a flip function that somebody runs already is claimed again.
ClaimAgain(x, t, back) ==
  /\ flags[t] \cap FlipFunctionFlags # {}
  /\ flags' = [flags EXCEPT ![t] = (@ \ {"kPendingFlipFunction"})
                                     \cup {"kRunningFlipFunction"}]
  /\ flip_target' = [flip_target EXCEPT ![x] = t]
  /\ flip_back' = [flip_back EXCEPT ![x] = back]
  /\ UNCHANGED <<flip_function, flip_tefs, flip_exited>>

\* EnsureFlipFunctionStarted: the CAS that claims the flip function of t.
ClaimFlip(x, t, back) ==
  /\ "kPendingFlipFunction" \in flags[t]
  /\ flags' = [flags EXCEPT ![t] = (@ \ {"kPendingFlipFunction"})
                                     \cup {"kRunningFlipFunction"}]
  /\ flip_target' = [flip_target EXCEPT ![x] = t]
  /\ flip_back' = [flip_back EXCEPT ![x] = back]
  /\ UNCHANGED <<flip_function, flip_tefs, flip_exited>>

\* RunFlipFunction: it runs, ...
RunFlipFunction(x) ==
  /\ pc[x] = "flip_run"
  /\ flip_function' = flip_function \ {flip_target[x]}
  /\ Goto(x, "flip_clear")
  /\ UNCHANGED <<threadVars, exitVars, lockVars, mutatorVars, resume_waiters,
                 ret, oneVars, allVars, checkpointVars, flip_target, flip_back,
                 flipping, flip_tefs, flip_exited>>

\* ... the flag is cleared, and the thread may go away ...
FlipFinished(x) ==
  /\ pc[x] = "flip_clear"
  /\ flags' = [flags EXCEPT ![flip_target[x]] = @ \ {"kRunningFlipFunction"}]
  /\ Goto(x, "flip_broadcast")
  /\ UNCHANGED <<list, state, suspend_count, requests, suspendall_barrier,
                 suspend1_barriers, exitVars, lockVars, mutatorVars,
                 resume_waiters, ret, oneVars, allVars, checkpointVars,
                 flipVars>>

\* ... and those who wait for it are woken.
FlipBroadcast(x) ==
  /\ pc[x] = "flip_broadcast"
  /\ count_lock = None
  /\ Broadcast
  /\ Goto(x, flip_back[x])
  /\ flip_target' = [flip_target EXCEPT ![x] = None]
  /\ flip_back' = [flip_back EXCEPT ![x] = "native"]
  /\ UNCHANGED <<threadVars, exitVars, lockVars, mutatorVars, ret, oneVars,
                 allVars, checkpointVars, flip_function, flipping, flip_tefs,
                 flip_exited>>

\* WaitForFlipFunction: x finds that somebody else runs it, and waits ...
BlockOnFlip(x, t, back) ==
  /\ "kRunningFlipFunction" \in flags[t]
  /\ count_lock = None
  /\ resume_waiters' = resume_waiters \cup {x}
  /\ flip_target' = [flip_target EXCEPT ![x] = t]
  /\ flip_back' = [flip_back EXCEPT ![x] = back]
  /\ Goto(x, "wait_flip")
  /\ UNCHANGED <<threadVars, exitVars, lockVars, mutatorVars, ret, oneVars,
                 allVars, checkpointVars, flip_function, flipping, flip_tefs,
                 flip_exited>>

\* ... again after a wakeup meant for others ...
WaitForFlipFunction(x) ==
  /\ pc[x] = "wait_flip"
  /\ x \notin resume_waiters
  /\ BlockOnFlip(x, flip_target[x], flip_back[x])

\* ... until it has run.
FlipAwaited(x) ==
  /\ pc[x] = "wait_flip"
  /\ x \notin resume_waiters
  /\ count_lock = None
  /\ "kRunningFlipFunction" \notin flags[flip_target[x]]
  /\ Goto(x, flip_back[x])
  /\ flip_target' = [flip_target EXCEPT ![x] = None]
  /\ flip_back' = [flip_back EXCEPT ![x] = "native"]
  /\ UNCHANGED <<threadVars, exitVars, lockVars, mutatorVars, resume_waiters,
                 ret, oneVars, allVars, checkpointVars, flip_function, flipping,
                 flip_tefs, flip_exited>>

-------------------------------------------------------------------------------
(* The thread itself, in TransitionFromSuspendedToRunnable.                *)

\* Nothing that is tested before the flip functions holds it up.
ReachesFlip(t) ==
  /\ pc[t] = "to_runnable"
  /\ flags[t] \cap (kCheckedFlags \ FlipFunctionFlags) = {}

\* Slip: it becomes runnable while another thread runs its flip function.
EnterDuringFlip(t) ==
  /\ ReachesFlip(t)
  /\ "kRunningFlipFunction" \in flags[t]
  /\ state' = [state EXCEPT ![t] = "kRunnable"]
  /\ GotoAndReturn(t, ret[t], "native")
  /\ UNCHANGED <<list, flags, suspend_count, requests, suspendall_barrier,
                 suspend1_barriers, exitVars, lockVars, mutatorVars,
                 resume_waiters, oneVars, allVars, checkpointVars, flipVars>>

AwaitOwnFlip(t) == ReachesFlip(t) /\ BlockOnFlip(t, t, "to_runnable")

\* It claims its flip function and becomes runnable with one CAS.
RunOwnFlip(t) ==
  /\ ReachesFlip(t)
  /\ ClaimFlip(t, t, ret[t])
  /\ state' = [state EXCEPT ![t] = "kRunnable"]
  /\ GotoAndReturn(t, "flip_run", "native")
  /\ UNCHANGED <<list, suspend_count, requests, suspendall_barrier,
                 suspend1_barriers, exitVars, lockVars, mutatorVars,
                 resume_waiters, oneVars, allVars, checkpointVars, flipping>>

-------------------------------------------------------------------------------
(* ThreadList::FlipThreadRoots.                                            *)

\* SuspendAllInternal follows, as in SuspendAll.
FlipThreadRoots(r) ==
  /\ r \in Flippers
  /\ pc[r] = "native"
  /\ Goto(r, "sa_lock")
  /\ UNCHANGED <<threadVars, exitVars, lockVars, mutatorVars, resume_waiters,
                 ret, oneVars, allVars, checkpointVars, flipVars>>

\* With the world stopped: flip_callback, SetFlipFunction and
\* NotifyOnThreadExit for every thread, the caller included.
SetFlipFunctions(r) ==
  /\ r \in Flippers
  /\ pc[r] = "sa_stopped"
  /\ LocksFree
  /\ flags' = [t \in Threads |-> IF t \in list THEN flags[t] \cup {"kPendingFlipFunction"}
                                               ELSE flags[t]]
  /\ flip_function' = flip_function \cup list
  /\ flipping' = [flipping EXCEPT ![r] = list]
  /\ flip_tefs' = [flip_tefs EXCEPT ![r] = list]
  /\ flip_exited' = [flip_exited EXCEPT ![r] = {}]
  /\ Goto(r, "fl_resume")
  /\ UNCHANGED <<list, state, suspend_count, requests, suspendall_barrier,
                 suspend1_barriers, exitVars, lockVars, mutatorVars,
                 resume_waiters, ret, oneVars, allVars, checkpointVars,
                 flip_target, flip_back>>

\* ResumeAllInternal: the loop is that of ResumeAll.
FlipResumeAll(r) ==
  /\ pc[r] = "fl_resume"
  /\ TakeLocks(r)
  /\ mutator_owner' = None
  /\ todo' = [todo EXCEPT ![r] = list \ {r}]
  /\ Goto(r, "ra_loop")
  /\ UNCHANGED <<threadVars, exitVars, mutator_shared, resume_waiters, ret,
                 oneVars, suspend_all_count, pending_threads, current,
                 checkpointVars, flipVars>>

\* Slip: thread_suspend_count_lock_ is released with thread_list_lock_.
ReleaseCountLock(r) == None

\* The lock that is kept until the caller is a reader of mutator_lock_ again.
KeepCountLock(r) == r

EndFlipResumeAll(r) ==
  /\ r \in Flippers
  /\ pc[r] = "ra_loop"
  /\ todo[r] = {}
  /\ suspend_all_count' = suspend_all_count - 1
  /\ flags' = [flags EXCEPT ![r] = @ \ {"kSuspensionImmune"}]
  /\ Broadcast
  /\ list_lock' = None
  /\ count_lock' = KeepCountLock(r)
  /\ Goto(r, "fl_shared")
  /\ UNCHANGED <<list, state, suspend_count, requests, suspendall_barrier,
                 suspend1_barriers, exitVars, mutatorVars, ret, oneVars,
                 pending_threads, todo, current, checkpointVars, flipVars>>

\* mutator_lock_->SharedTryLock, whose failure is a failed CHECK.
FlipSharedTryLock(r) ==
  /\ pc[r] = "fl_shared"
  /\ mutator_owner = None
  /\ mutator_shared' = mutator_shared \cup {r}
  /\ count_lock' = None
  /\ todo' = [todo EXCEPT ![r] = flipping[r]]
  /\ Goto(r, "fl_start")
  /\ UNCHANGED <<threadVars, exitVars, list_lock, mutator_owner, resume_waiters,
                 ret, oneVars, suspend_all_count, pending_threads, current,
                 checkpointVars, flipVars>>

\* Slip: the loop does not advance.
StayAtFlip(r, t) ==
  /\ pc[r] = "fl_start"
  /\ list_lock = None
  /\ t \in todo[r]
  /\ r \in todo[r] => t = r
  /\ UNCHANGED todo

\* The first loop starts with the caller itself.
NextToFlip(r, t) ==
  /\ pc[r] = "fl_start"
  /\ list_lock = None
  /\ t \in todo[r]
  /\ r \in todo[r] => t = r
  /\ todo' = [todo EXCEPT ![r] = @ \ {t}]

\* Slip: a thread whose flip function still runs counts as finished.
FinishedWhenClaimed(r, t) ==
  t \in flip_exited[r] \/ "kPendingFlipFunction" \notin flags[t]

\* What EnsureFlipFunctionStarted finds to be finished.
Finished(r, t) == t \in flip_exited[r] \/ flags[t] \cap FlipFunctionFlags = {}

\* The thread exited, or its flip function has run: done with it, once the exit
\* flag is unregistered, for which thread_list_lock_ is taken again.
AlreadyFlipped(r) ==
  /\ \E t \in Threads :
       /\ NextToFlip(r, t)
       /\ Finished(r, t)
       /\ current' = [current EXCEPT ![r] = t]
  /\ Goto(r, "fl_unregister")
  /\ UNCHANGED <<threadVars, exitVars, lockVars, mutatorVars, resume_waiters,
                 ret, oneVars, suspend_all_count, pending_threads,
                 checkpointVars, flipVars>>

\* Somebody else runs it: leave it for the second loop.
BeingFlipped(r) ==
  /\ \E t \in Threads :
       /\ NextToFlip(r, t)
       /\ ~Finished(r, t)
       /\ "kRunningFlipFunction" \in flags[t]
  /\ UNCHANGED <<threadVars, exitVars, lockVars, mutatorVars, resume_waiters, pc,
                 ret, oneVars, suspend_all_count, pending_threads, current,
                 checkpointVars, flipVars>>

\* Run it ...
FlipOther(r) ==
  /\ \E t \in Threads :
       /\ NextToFlip(r, t)
       /\ t \notin flip_exited[r]
       /\ ClaimFlip(r, t, "fl_unregister")
       /\ current' = [current EXCEPT ![r] = t]
  /\ Goto(r, "flip_run")
  /\ UNCHANGED <<list, state, suspend_count, requests, suspendall_barrier,
                 suspend1_barriers, exitVars, lockVars, mutatorVars,
                 resume_waiters, ret, oneVars, suspend_all_count,
                 pending_threads, checkpointVars, flipping>>

\* Slip: the exit flag stays registered.
KeepFlipFlag(r) ==
  /\ pc[r] \in {"fl_unregister", "fl_waited"}
  /\ list_lock = None
  /\ flipping' = [flipping EXCEPT ![r] = @ \ {current[r]}]
  /\ current' = [current EXCEPT ![r] = None]
  /\ Goto(r, IF pc[r] = "fl_unregister" THEN "fl_start" ELSE "fl_wait")
  /\ UNCHANGED <<threadVars, exitVars, lockVars, mutatorVars, resume_waiters,
                 ret, oneVars, suspend_all_count, pending_threads, todo,
                 checkpointVars, flip_function, flip_target, flip_back,
                 flip_tefs, flip_exited>>

\* ... and unregister the exit flag, unless the thread has exited since.
UnregisterFlipFlag(r) ==
  /\ pc[r] \in {"fl_unregister", "fl_waited"}
  /\ list_lock = None
  /\ flipping' = [flipping EXCEPT ![r] = @ \ {current[r]}]
  /\ flip_tefs' = [flip_tefs EXCEPT ![r] = @ \ {current[r]}]
  /\ current' = [current EXCEPT ![r] = None]
  /\ Goto(r, IF pc[r] = "fl_unregister" THEN "fl_start" ELSE "fl_wait")
  /\ UNCHANGED <<threadVars, exitVars, lockVars, mutatorVars, resume_waiters,
                 ret, oneVars, suspend_all_count, pending_threads, todo,
                 checkpointVars, flip_function, flip_target, flip_back,
                 flip_exited>>

\* The second loop: WaitForFlipFunctionTestingExited.
StartWaiting(r) ==
  /\ pc[r] = "fl_start"
  /\ todo[r] = {}
  /\ Goto(r, "fl_wait")
  /\ UNCHANGED <<threadVars, exitVars, lockVars, mutatorVars, resume_waiters,
                 ret, oneVars, allVars, checkpointVars, flipVars>>

FlipEnded(r) ==
  /\ pc[r] = "fl_wait"
  /\ r \notin resume_waiters
  /\ LocksFree
  /\ \E t \in flipping[r] :
       /\ current[r] \in {None, t}
       /\ t \in flip_exited[r] \/ "kRunningFlipFunction" \notin flags[t]
       /\ current' = [current EXCEPT ![r] = t]
  /\ Goto(r, "fl_waited")
  /\ UNCHANGED <<threadVars, exitVars, lockVars, mutatorVars, resume_waiters,
                 ret, oneVars, suspend_all_count, pending_threads, todo,
                 checkpointVars, flipVars>>

FlipStillRuns(r) ==
  /\ pc[r] = "fl_wait"
  /\ r \notin resume_waiters
  /\ LocksFree
  /\ \E t \in flipping[r] \ flip_exited[r] :
       /\ current[r] \in {None, t}
       /\ "kRunningFlipFunction" \in flags[t]
       /\ current' = [current EXCEPT ![r] = t]
  /\ resume_waiters' = resume_waiters \cup {r}
  /\ UNCHANGED <<threadVars, exitVars, lockVars, mutatorVars, pc, ret, oneVars,
                 suspend_all_count, pending_threads, todo, checkpointVars,
                 flipVars>>

\* mutator_lock_->SharedUnlock, and return.
FlipDone(r) ==
  /\ pc[r] = "fl_wait"
  /\ flipping[r] = {}
  /\ mutator_shared' = mutator_shared \ {r}
  /\ Goto(r, "native")
  /\ UNCHANGED <<threadVars, exitVars, lockVars, mutator_owner, resume_waiters,
                 ret, oneVars, allVars, checkpointVars, flipVars>>

-------------------------------------------------------------------------------
(* Checkpoints on behalf of a thread whose flip function is pending: those *)
(* that may look at the Java heap run it first.                            *)

TouchesHeap(r) == (pc[r] = "rc_run" /\ mode[r] # "none") \/ pc[r] = "sc_run"

BehalfOf(r) == IF pc[r] = "rc_run" THEN current[r] ELSE target[r]

FlipForCheckpoint(r) ==
  /\ TouchesHeap(r)
  /\ ClaimFlip(r, BehalfOf(r), pc[r])
  /\ Goto(r, "flip_run")
  /\ UNCHANGED <<list, state, suspend_count, requests, suspendall_barrier,
                 suspend1_barriers, exitVars, lockVars, mutatorVars,
                 resume_waiters, ret, oneVars, allVars, checkpointVars,
                 flipping>>

\* RunCheckpoint finds that another thread runs it, and goes on to the next
\* thread ...
SkipFlipping(r) ==
  /\ TouchesHeap(r)
  /\ pc[r] = "rc_run"
  /\ "kRunningFlipFunction" \in flags[current[r]]
  /\ Goto(r, "rc_skip")
  /\ UNCHANGED <<threadVars, exitVars, lockVars, mutatorVars, resume_waiters,
                 ret, oneVars, allVars, checkpointVars, flipVars>>

\* ... to come back to this one in another pass.
ResumeSkipped(r) ==
  /\ pc[r] = "rc_skip"
  /\ TakeLocks(r)
  /\ DecrementSuspendCount(current[r], <<"checkpoint", r>>, {})
  /\ Broadcast
  /\ current' = [current EXCEPT ![r] = None]
  /\ Goto(r, "rc_scan")
  /\ UNCHANGED <<list, state, suspendall_barrier, suspend1_barriers, exitVars,
                 mutatorVars, ret, oneVars, suspend_all_count, pending_threads,
                 todo, checkpointVars, flipVars>>

\* RequestSynchronousCheckpoint waits.
AwaitTargetFlip(r) ==
  /\ pc[r] = "sc_run"
  /\ BlockOnFlip(r, target[r], "sc_run")

-------------------------------------------------------------------------------
FlipInit ==
  /\ CheckpointInit
  /\ flip_function = {}
  /\ flip_target = [t \in Threads |-> None]
  /\ flip_back = [t \in Threads |-> "native"]
  /\ flipping = [t \in Threads |-> {}]
  /\ flip_tefs = [t \in Threads |-> {}]
  /\ flip_exited = [t \in Threads |-> {}]

\* SignalExitFlags reaches the flags of FlipThreadRoots too; the flip function
\* goes with the Thread object.
UnregisterFlipping(t) ==
  /\ UnregisterWatched(t)
  /\ flip_exited' = [r \in Threads |-> IF t \in flip_tefs[r] THEN flip_exited[r] \cup {t}
                                                             ELSE flip_exited[r]]
  /\ flip_tefs' = [r \in Threads |-> flip_tefs[r] \ {t}]
  /\ flip_function' = flip_function \ {t}
  /\ UNCHANGED <<flip_target, flip_back, flipping>>

FlipStep(t) ==
  \/ RunFlipFunction(t)
  \/ FlipFinished(t)
  \/ FlipBroadcast(t)
  \/ WaitForFlipFunction(t)
  \/ FlipAwaited(t)
  \/ AwaitOwnFlip(t)
  \/ RunOwnFlip(t)

FlipRootsStep(r) ==
  \/ SetFlipFunctions(r)
  \/ FlipResumeAll(r)
  \/ EndFlipResumeAll(r)
  \/ FlipSharedTryLock(r)
  \/ AlreadyFlipped(r)
  \/ BeingFlipped(r)
  \/ FlipOther(r)
  \/ UnregisterFlipFlag(r)
  \/ StartWaiting(r)
  \/ FlipEnded(r)
  \/ FlipStillRuns(r)
  \/ FlipDone(r)

FlipForStep(r) ==
  \/ FlipForCheckpoint(r)
  \/ SkipFlipping(r)
  \/ ResumeSkipped(r)
  \/ AwaitTargetFlip(r)

\* What a flip puts something in front of.
FlipFirst(t) ==
  \/ t \in Flippers /\ pc[t] = "sa_stopped"
  \/ t \in Flippers /\ pc[t] = "ra_loop" /\ todo[t] = {}
  \/ TouchesHeap(t) /\ flags[BehalfOf(t)] \cap FlipFunctionFlags # {}

OtherStep(t) ==
  /\ ~FlipFirst(t)
  /\ \/ StateChange(t) /\ UNCHANGED checkpointVars
     \/ pc[t] # "native" /\ StopTheWorld(t) /\ UNCHANGED checkpointVars
     \/ TargetStep(t)
     \/ RequesterStep(t)
     \/ SynchronousStep(t)

FlipCall(t) == FlipThreadRoots(t) \/ (Call(t) /\ UNCHANGED flipVars)

FlipNextStep(t) ==
  \/ OtherStep(t) /\ UNCHANGED flipVars
  \/ UnregisterFlipping(t)
  \/ FlipStep(t)
  \/ FlipRootsStep(t)
  \/ FlipForStep(t)

FlipNext == \E t \in Threads : FlipCall(t) \/ FlipNextStep(t)

FlipSpec == FlipInit /\ [][FlipNext]_allFlipVars

\* What a thread does of itself once it is in an operation.
FlipProceed(t) ==
  \/ pc[t] \notin {"native", "run", "unregister", "unattached"}
       /\ FlipNextStep(t)
  \/ SuspendCheck(t) /\ UNCHANGED <<checkpointVars, flipVars>>
  \/ TargetStep(t) /\ UNCHANGED flipVars

-------------------------------------------------------------------------------
(* Properties.                                                             *)

\* Every variable keeps its type.
FlipTypeOK ==
  /\ flip_function \subseteq list
  /\ flip_target \in [Threads -> Threads \cup {None}]
  /\ flip_back \in [Threads -> {"native", "run", "to_runnable",
                                "fl_unregister", "rc_run", "sc_run", "rc_lock",
                                "rc_relock", "sc_relock"}]
  /\ flipping \in [Threads -> SUBSET Threads]
  /\ flip_tefs \in [Threads -> SUBSET Threads]
  /\ flip_exited \in [Threads -> SUBSET Threads]

RunsFlipOf(x, t) == pc[x] \in {"flip_run", "flip_clear"} /\ flip_target[x] = t

\* The flip function of a thread is run by one thread at a time, the one whose CAS
\* set kRunningFlipFunction, and it is set exactly while it is pending or that
\* thread is still to run it: no thread runs it twice (EnsureFlipFunctionStarted).
OneClaim ==
  /\ FlipTypeOK
  /\ \A t \in Threads :
       /\ "kRunningFlipFunction" \in flags[t] <=> \E x \in Threads : RunsFlipOf(x, t)
       /\ \A x, y \in Threads : RunsFlipOf(x, t) /\ RunsFlipOf(y, t) => x = y
       /\ t \in flip_function <=>
            \/ "kPendingFlipFunction" \in flags[t]
            \/ \E x \in Threads : pc[x] = "flip_run" /\ flip_target[x] = t

\* No thread runs Java code before its flip function has run, nor while another
\* thread runs it: a runnable thread with a flip function is running it.
FlipBeforeJava ==
  \A t \in Threads :
    state[t] = "kRunnable" /\ flags[t] \cap FlipFunctionFlags # {} => RunsFlipOf(t, t)

\* The Thread object stays while its flip function runs.
FlipTargetAttached ==
  \A x \in Threads : pc[x] \in {"flip_run", "flip_clear"} => flip_target[x] \in list

\* The SharedTryLock of FlipThreadRoots succeeds: no SuspendAll gets between.
SharedTryLockSucceeds ==
  \A r \in Threads : pc[r] = "fl_shared" => mutator_owner = None

\* A thread that waits for a flip function has not missed the broadcast: it
\* still runs, or whoever ran it is about to broadcast.
NoLostFlipWakeup ==
  \A x \in resume_waiters :
    LET t == IF pc[x] = "wait_flip" THEN flip_target[x] ELSE current[x]
    IN  pc[x] \in {"wait_flip", "fl_wait"} =>
          \/ t \in flip_exited[x]
          \/ "kRunningFlipFunction" \in flags[t]
          \/ \E y \in Threads : pc[y] = "flip_broadcast" /\ flip_target[y] = t

\* An exit flag that a thread would set lives in a frame of FlipThreadRoots that
\* has not returned.
NoDanglingExitFlag ==
  \A r \in Threads : flip_tefs[r] # {} =>
    {pc[r], flip_back[r]} \cap {"fl_resume", "ra_loop", "fl_shared", "fl_start",
                               "fl_unregister", "fl_wait", "fl_waited"} # {}

\* When FlipThreadRoots returns no flip function is left, pending or running.
FlipLeavesNone ==
  [][\A r \in Threads :
       r \in mutator_shared /\ r \notin mutator_shared' =>
         \A t \in list : flags[t] \cap FlipFunctionFlags = {}]_allFlipVars

\* FlipThreadRoots returns, from the suspension of all threads on, although
\* another thread stops the world and a third exits meanwhile.
FlipCompletes == \A r \in Flippers : pc[r] = "sa_lock" ~> pc[r] = "native"

=============================================================================
