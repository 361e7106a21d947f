------------------------- MODULE ThreadSuspensionInv -------------------------
(***************************************************************************)
(* The inductive invariant of ThreadSuspension, in layers: each layer is   *)
(* inductive relative to the ones before it.                               *)
(***************************************************************************)
EXTENDS ThreadSuspension

\* The thread is ...
AllPC == {"sa_loop", "sa_check", "sa_wait", "sa_mutator", "sa_stopped", "ra_loop"}
ListLockPC == {"st_try", "st_check", "sa_loop", "sa_check", "ra_loop"}
CountLockPC == {"st_check", "sa_loop", "sa_check", "ra_loop"}
RunnablePC == {"run", "to_suspended", "st_lock", "st_try", "st_check", "st_relock"}
LeavingPC == {"to_suspended", "check_barriers"}
EnteringPC == {"to_runnable", "wait_resume"}

\* ... in SuspendThread, with its exit flag registered and no request made,
Watching(s) ==
  \/ pc[s] \in {"st_try", "st_sleep", "st_relock"}
  \/ pc[s] \in LeavingPC /\ ret[s] = "st_sleep"
  \/ pc[s] \in EnteringPC /\ ret[s] = "st_relock"

\* ... in SuspendThread, with no request made,
Seeking(s) ==
  \/ Watching(s)
  \/ pc[s] = "st_lock"
  \/ pc[s] \in EnteringPC /\ ret[s] = "st_lock"

\* ... in SuspendThread, with its request made.
Waiting(s) ==
  \/ pc[s] \in {"st_check", "st_wait", "st_timeout"}
  \/ pc[s] \in LeavingPC /\ ret[s] = "st_wait"

\* Types, the bounds of the counters left out: of the flags, the requests and the
\* barriers of the threads,
WordTypes ==
  /\ flags \in [Threads -> SUBSET ThreadFlag]
  /\ suspend_count \in [Threads -> Int]
  /\ requests \in [Threads -> SUBSET (Threads \cup {All})]
  /\ suspendall_barrier \in [Threads -> Threads \cup {None}]
  /\ suspend1_barriers \in [Threads -> SUBSET Threads]

\* of the frames and the counters of those who suspend them,
FrameTypes ==
  /\ target \in [Threads -> Threads \cup {None}]
  /\ attempt \in [Threads -> 0..4]
  /\ barrier \in [Threads -> Int]
  /\ suspend_all_count \in Int
  /\ pending_threads \in [Threads -> Int]
  /\ todo \in [Threads -> SUBSET Threads]
  /\ current \in [Threads -> Threads \cup {None}]

\* and of the rest.
ControlTypes ==
  /\ list \subseteq Threads
  /\ state \in [Threads -> {"kRunnable", "kSuspended"}]
  /\ exit_flags \in [Threads -> SUBSET Threads]
  /\ exited \subseteq Threads
  /\ list_lock \in Threads \cup {None}
  /\ count_lock \in Threads \cup {None}
  /\ mutator_owner \in Threads \cup {None}
  /\ mutator_shared \subseteq Threads
  /\ resume_waiters \subseteq Threads
  /\ pc \in [Threads -> PC]
  /\ ret \in [Threads -> Return]

TypeInv == WordTypes /\ FrameTypes /\ ControlTypes

\* Where a thread is determines where it returns to,
Returns(t) ==
  /\ pc[t] \in LeavingPC => ret[t] \in {"native", "st_sleep", "st_wait"}
  /\ pc[t] \in EnteringPC => ret[t] \in {"run", "st_lock", "st_relock"}
  /\ pc[t] \notin LeavingPC \cup EnteringPC => ret[t] = "native"

\* whether it is attached and whether it is runnable,
Attached(t) ==
  /\ t \in list <=> pc[t] # "unattached"
  /\ state[t] = "kRunnable" <=> pc[t] \in RunnablePC

\* and what it has locked.
Locked(t) ==
  /\ list_lock = t <=> pc[t] \in ListLockPC
  /\ count_lock = t <=> pc[t] \in CountLockPC
  /\ mutator_owner = t <=> pc[t] = "sa_stopped"

ControlInv == \A t \in Threads : Returns(t) /\ Attached(t) /\ Locked(t)

\* suspend_all_count_ counts the threads inside SuspendAll ... ResumeAll.
AllInv ==
  /\ suspend_all_count \in {0, 1}
  /\ suspend_all_count = 0 => \A s \in Threads : pc[s] \notin AllPC
  /\ suspend_all_count = 1 => \E s \in Threads : pc[s] \in AllPC
  /\ OneSuspendAll

\* The parameter of a SuspendThread and whether its request is outstanding.
Frame(s) ==
  /\ Seeking(s) \/ Waiting(s) => target[s] \in Threads \ {s}
  /\ Seeking(s) => s \notin requests[target[s]]
  /\ Waiting(s) => s \in requests[target[s]]

FrameInv == \A s \in Threads : Frame(s)

\* The threads that the loops of SuspendAll and ResumeAll have reached are the
\* ones with a SuspendAll request.
AllRequests(s) ==
  CASE pc[s] = "sa_loop" -> (list \ {s}) \ todo[s]
    [] pc[s] = "sa_check" -> ((list \ {s}) \ todo[s]) \cup {current[s]}
    [] pc[s] \in {"sa_wait", "sa_mutator", "sa_stopped"} -> list \ {s}
    [] pc[s] = "ra_loop" -> todo[s]
    [] OTHER -> {}

AllLoop(s) ==
  /\ pc[s] \in {"sa_loop", "sa_check", "ra_loop"} => todo[s] \subseteq list \ {s}
  /\ pc[s] = "sa_wait" => todo[s] = {}
  /\ pc[s] = "sa_check" => current[s] \in todo[s]

AllRequested(s, t) ==
  /\ pc[s] \in AllPC => (All \in requests[t] <=> t \in AllRequests(s))
  /\ suspend_all_count = 0 => All \notin requests[t]

AllRequestsInv == \A s, t \in Threads : AllLoop(s) /\ AllRequested(s, t)

\* The target of a SuspendThread that retries is attached, or has set its flag.
Exit(s) ==
  /\ Watching(s) => \/ s \in exited
                    \/ target[s] \in list /\ s \in exit_flags[target[s]]
  /\ pc[s] = "st_try" => s \notin exited

ExitInv == \A s \in Threads : Exit(s)

\* The conjuncts of CountsMatchRequests for one thread.
Counts(t) ==
  /\ suspend_count[t] = Cardinality(requests[t])
  /\ "kSuspendRequest" \in flags[t] <=> requests[t] # {}
  /\ requests[t] # {} => t \in list

\* Barriers of SuspendThread that are linked are the ones not yet passed.
Suspend1(s) ==
  /\ barrier[s] \in {0, 1}
  /\ Watching(s) \/ pc[s] = "st_check" => barrier[s] = 1
  /\ Waiting(s) /\ barrier[s] = 1 => s \in suspend1_barriers[target[s]]

LinkedSuspend1(s, t) ==
  s \in suspend1_barriers[t] => target[s] = t /\ Waiting(s) /\ barrier[s] = 1

Suspend1Inv == \A s, t \in Threads : Suspend1(s) /\ LinkedSuspend1(s, t)

\* The threads that a SuspendAll still has to hear from.
Pending(s) == {t \in Threads : suspendall_barrier[t] = s} \cup todo[s]

LinkedSuspendAll(s, t) ==
  suspendall_barrier[t] = s =>
    pc[s] \in {"sa_loop", "sa_check", "sa_wait"} /\ All \in requests[t]

SuspendAllCount(s) ==
  /\ pc[s] \in {"sa_loop", "sa_check", "sa_wait"} =>
       pending_threads[s] = Cardinality(Pending(s))
  /\ pc[s] = "sa_check" => suspendall_barrier[current[s]] = s
  /\ pending_threads[s] \in Nat

SuspendAllInv ==
  \A s, t \in Threads : LinkedSuspendAll(s, t) /\ SuspendAllCount(s)

\* kActiveSuspendBarrier is set exactly while a barrier is linked.
BarrierFlag(t) ==
  "kActiveSuspendBarrier" \in flags[t] <=>
    suspendall_barrier[t] # None \/ suspend1_barriers[t] # {}

BarrierFlagInv == \A t \in Threads : BarrierFlag(t)

\* A thread with a request whose barrier is gone is not runnable.
Suspended(t) ==
  state[t] = "kRunnable" =>
    \A r \in requests[t] : \/ r = All /\ suspendall_barrier[t] # None
                           \/ r \in suspend1_barriers[t]

SuspendedInv == \A t \in Threads : Suspended(t)

\* A waiter whose request is gone is woken by the ResumeAll in progress.
Wakeup(t) ==
  t \in resume_waiters =>
    \/ /\ pc[t] = "wait_resume"
       /\ "kSuspendRequest" \in flags[t] \/ \E s \in Threads : pc[s] = "ra_loop"
    \/ pc[t] = "sa_lock" /\ suspend_all_count # 0

WakeupInv == \A t \in Threads : Wakeup(t)

IInv ==
  /\ TypeInv
  /\ ControlInv
  /\ AllInv
  /\ FrameInv
  /\ AllRequestsInv
  /\ ExitInv
  /\ CountsMatchRequests
  /\ Suspend1Inv
  /\ SuspendAllInv
  /\ BarrierFlagInv
  /\ SuspendedInv
  /\ WakeupInv
  /\ NoSuspendCycle

=============================================================================
