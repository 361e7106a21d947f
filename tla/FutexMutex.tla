------------------------------- MODULE FutexMutex ------------------------------
(* Mutex and ConditionVariable of runtime/base/mutex.cc over futexes: one mutex  *)
(* and one condition variable that it guards.                                    *)
(*                                                                               *)
(* held and contenders are the two fields of the word state_and_contenders_,     *)
(* read and written together.  A futex queue is the set of threads the kernel    *)
(* has asleep on the word; it wakes any of them.  Of sequence_ only its being    *)
(* the value a waiter has read matters (fresh), which is exact as long as it     *)
(* does not wrap around while a waiter is about to sleep.                        *)
EXTENDS Integers, FiniteSets

CONSTANTS Threads,
          NoThread,
          Recursive,      \* recursive_
          MaxRecursion    \* bound on recursion_count_

ASSUME MutexAssumption ==
  /\ IsFiniteSet(Threads) /\ NoThread \notin Threads
  /\ Recursive \in BOOLEAN /\ MaxRecursion \in Nat \ {0}

VARIABLES
  held, contenders,       \* state_and_contenders_
  exclusive_owner,
  recursion_count,
  mutexq,                 \* asleep on state_and_contenders_
  num_waiters,
  fresh,                  \* whose cur_sequence is sequence_
  condq,                  \* asleep on sequence_
  waiting,                \* are in ConditionVariable::Wait or TimedWait
  old_count,              \* old_recursion_count of a waiter
  cur,                    \* the contenders a locker expects in cur_state
  pc,
  depth                   \* history: how often a thread has locked and not unlocked

wordVars == <<held, contenders>>
ownerVars == <<exclusive_owner, recursion_count, depth>>
condVars == <<num_waiters, fresh, condq, waiting, old_count>>
mutexVars == <<wordVars, ownerVars, mutexq, condVars, cur, pc>>

PCs == {"idle", "lock", "contend", "sleep", "asleep", "uncontend", "own",
        "critical", "unlock", "wake", "cv_sleep", "cv_asleep", "cv_end",
        "requeue_one", "requeue_all"}

MutexInit ==
  /\ held = 0 /\ contenders = 0
  /\ exclusive_owner = NoThread /\ recursion_count = 0
  /\ mutexq = {} /\ num_waiters = 0
  /\ fresh = {} /\ condq = {} /\ waiting = {}
  /\ old_count = [t \in Threads |-> 0]
  /\ cur = [t \in Threads |-> 0]
  /\ pc = [t \in Threads |-> "idle"]
  /\ depth = [t \in Threads |-> 0]

Goto(t, p) == pc' = [pc EXCEPT ![t] = p]

-------------------------------------------------------------------------------
(* Mutex                                                                         *)

IsExclusiveHeld(t) == exclusive_owner = t

\* ExclusiveLock by a thread that does not hold the mutex.
ExclusiveLock(t) ==
  /\ pc[t] = "idle"
  /\ Goto(t, "lock")
  /\ UNCHANGED <<wordVars, ownerVars, mutexq, condVars, cur>>

\* ExclusiveLock or ExclusiveTryLock by one that does.
LockAgain(t) ==
  /\ pc[t] = "critical" /\ Recursive /\ IsExclusiveHeld(t)
  /\ recursion_count < MaxRecursion
  /\ recursion_count' = recursion_count + 1
  /\ depth' = [depth EXCEPT ![t] = @ + 1]
  /\ UNCHANGED <<wordVars, exclusive_owner, mutexq, condVars, cur, pc>>

\* The CAS that takes a free mutex; a failed one is tried again from the load.
Acquire(t) ==
  /\ held = 0
  /\ held' = 1
  /\ Goto(t, "own")
  /\ UNCHANGED <<contenders, ownerVars, mutexq, condVars, cur>>

LockFree(t) == pc[t] = "lock" /\ Acquire(t)

\* ExclusiveTryLock, which gives up at once when the mutex is held.
ExclusiveTryLock(t) == pc[t] = "idle" /\ Acquire(t)

\* The load finds the mutex held, and stays so while WaitBrieflyFor spins.
Contend(t) ==
  /\ pc[t] = "lock" /\ held = 1
  /\ cur' = [cur EXCEPT ![t] = contenders + 1]
  /\ Goto(t, "contend")
  /\ UNCHANGED <<wordVars, ownerVars, mutexq, condVars>>

IncrementContenders(t) ==
  /\ pc[t] = "contend"
  /\ contenders' = contenders + 1
  /\ Goto(t, "sleep")
  /\ UNCHANGED <<held, ownerVars, mutexq, condVars, cur>>

\* Slip: sleeps without the kernel's comparison.
SleepAnyway(t) == mutexq \cup {t}

\* FUTEX_WAIT: sleeps if the word still is cur_state, or EAGAIN.
SleepIfUnchanged(t) ==
  IF held = 1 /\ contenders = cur[t] THEN mutexq \cup {t} ELSE mutexq

FutexWait(t) ==
  /\ pc[t] = "sleep"
  /\ mutexq' = SleepIfUnchanged(t)
  /\ Goto(t, "asleep")
  /\ UNCHANGED <<wordVars, ownerVars, condVars, cur>>

\* Awake, for whatever reason: sleeps again unless the mutex is free.
Recheck(t) ==
  /\ pc[t] = "asleep" /\ t \notin mutexq
  /\ \/ /\ held = 1
        /\ cur' = [cur EXCEPT ![t] = contenders]
        /\ Goto(t, "sleep")
     \/ /\ held = 0
        /\ Goto(t, "uncontend")
        /\ UNCHANGED cur
  /\ UNCHANGED <<wordVars, ownerVars, mutexq, condVars>>

DecrementContenders(t) ==
  /\ pc[t] = "uncontend"
  /\ contenders' = contenders - 1
  /\ Goto(t, "lock")
  /\ UNCHANGED <<held, ownerVars, mutexq, condVars, cur>>

\* Records the owner after the CAS.
Own(t) ==
  /\ pc[t] = "own"
  /\ exclusive_owner' = t
  /\ recursion_count' = recursion_count + 1
  /\ IF t \in waiting
       THEN Goto(t, "cv_end") /\ UNCHANGED depth
       ELSE Goto(t, "critical") /\ depth' = [depth EXCEPT ![t] = @ + 1]
  /\ UNCHANGED <<wordVars, mutexq, condVars, cur>>

\* ExclusiveUnlock up to the store to exclusive_owner_.
ExclusiveUnlock(t) ==
  /\ pc[t] = "critical"
  /\ recursion_count' = recursion_count - 1
  /\ depth' = [depth EXCEPT ![t] = @ - 1]
  /\ \/ /\ recursion_count > 1
        /\ UNCHANGED <<exclusive_owner, pc>>
     \/ /\ recursion_count = 1
        /\ exclusive_owner' = NoThread
        /\ Goto(t, "unlock")
  /\ UNCHANGED <<wordVars, mutexq, condVars, cur>>

AfterUnlock(t) == IF t \in waiting THEN "cv_sleep" ELSE "idle"

HaveContenders == contenders # 0

\* The CAS that frees the mutex; its new value says whether to wake.
Release(t) ==
  /\ pc[t] = "unlock"
  /\ held' = 0
  /\ Goto(t, IF HaveContenders THEN "wake" ELSE AfterUnlock(t))
  /\ UNCHANGED <<contenders, ownerVars, mutexq, condVars, cur>>

\* FUTEX_WAKE of one sleeper, if there is one.
Wake(t) ==
  /\ pc[t] = "wake"
  /\ \/ mutexq = {} /\ UNCHANGED mutexq
     \/ \E w \in mutexq : mutexq' = mutexq \ {w}
  /\ Goto(t, AfterUnlock(t))
  /\ UNCHANGED <<wordVars, ownerVars, condVars, cur>>

\* By a thread in RunEmptyCheckpoint.
WakeupToRespondToEmptyCheckpoint ==
  /\ HaveContenders
  /\ mutexq' = {}
  /\ UNCHANGED <<wordVars, ownerVars, condVars, cur, pc>>

\* EINTR, and ETIMEDOUT where the wait is timed, on either futex.
InterruptSleep(t) ==
  /\ t \in mutexq \cup condq
  /\ mutexq' = mutexq \ {t}
  /\ condq' = condq \ {t}
  /\ UNCHANGED <<wordVars, ownerVars, num_waiters, fresh, waiting, old_count, cur, pc>>

-------------------------------------------------------------------------------
(* ConditionVariable                                                             *)

\* Wait and TimedWait up to the CAS in ExclusiveUnlock.
Wait(t) ==
  /\ pc[t] = "critical"
  /\ waiting' = waiting \cup {t}
  /\ num_waiters' = num_waiters + 1
  /\ contenders' = contenders + 1
  /\ old_count' = [old_count EXCEPT ![t] = recursion_count]
  /\ recursion_count' = 0
  /\ exclusive_owner' = NoThread
  /\ fresh' = fresh \cup {t}
  /\ Goto(t, "unlock")
  /\ UNCHANGED <<held, mutexq, condq, cur, depth>>

CondWait(t) ==
  /\ pc[t] = "cv_sleep"
  /\ condq' = IF t \in fresh THEN condq \cup {t} ELSE condq
  /\ Goto(t, "cv_asleep")
  /\ UNCHANGED <<wordVars, ownerVars, mutexq, num_waiters, fresh, waiting, old_count, cur>>

\* Awake: takes the mutex again.
CondWoken(t) ==
  /\ pc[t] = "cv_asleep" /\ t \notin condq \cup mutexq
  /\ fresh' = fresh \ {t}
  /\ Goto(t, "lock")
  /\ UNCHANGED <<wordVars, ownerVars, mutexq, num_waiters, condq, waiting, old_count, cur>>

\* Slip: leaves the count that ExclusiveLock has set.
CountOfLock(t) == recursion_count

RestoredCount(t) == old_count[t]

CondEnd(t) ==
  /\ pc[t] = "cv_end"
  /\ waiting' = waiting \ {t}
  /\ num_waiters' = num_waiters - 1
  /\ contenders' = contenders - 1
  /\ recursion_count' = RestoredCount(t)
  /\ Goto(t, "critical")
  /\ UNCHANGED <<held, exclusive_owner, mutexq, fresh, condq, old_count, cur, depth>>

\* Slip: the waiters are moved but sequence_ stays.
KeepSequence == fresh

IncrementSequence == {}

\* Signal and Broadcast: sequence_++, and nothing if nobody waits.
Signal(t, all) ==
  /\ pc[t] = "critical" /\ num_waiters > 0
  /\ fresh' = IncrementSequence
  /\ Goto(t, IF all THEN "requeue_all" ELSE "requeue_one")
  /\ UNCHANGED <<wordVars, ownerVars, mutexq, num_waiters, condq, waiting, old_count, cur>>

\* The sets of sleepers that FUTEX_REQUEUE may move.
Moves(t) ==
  IF pc[t] = "requeue_all" \/ condq = {} THEN {condq} ELSE {{w} : w \in condq}

RequeueWaiters(t) ==
  /\ pc[t] \in {"requeue_one", "requeue_all"}
  /\ \E moved \in Moves(t) : condq' = condq \ moved /\ mutexq' = mutexq \cup moved
  /\ Goto(t, "critical")
  /\ UNCHANGED <<wordVars, ownerVars, num_waiters, fresh, waiting, old_count, cur>>

-------------------------------------------------------------------------------
Call(t) ==
  \/ ExclusiveLock(t) \/ ExclusiveTryLock(t) \/ LockAgain(t)
  \/ Wait(t)
  \/ \E all \in BOOLEAN : Signal(t, all)

\* What a thread does without being asked: it also unlocks in the end.
Proceed(t) ==
  \/ LockFree(t) \/ Contend(t) \/ IncrementContenders(t) \/ FutexWait(t)
  \/ Recheck(t) \/ DecrementContenders(t) \/ Own(t)
  \/ ExclusiveUnlock(t) \/ Release(t) \/ Wake(t)
  \/ CondWait(t) \/ CondWoken(t) \/ CondEnd(t) \/ RequeueWaiters(t)

MutexNext ==
  \/ \E t \in Threads : Call(t) \/ Proceed(t) \/ InterruptSleep(t)
  \/ WakeupToRespondToEmptyCheckpoint

MutexSpec == MutexInit /\ [][MutexNext]_mutexVars

-------------------------------------------------------------------------------
MutexTypeOK ==
  /\ held \in {0, 1} /\ contenders \in Nat
  /\ exclusive_owner \in Threads \cup {NoThread}
  /\ recursion_count \in Nat
  /\ mutexq \subseteq Threads /\ condq \subseteq Threads
  /\ fresh \subseteq Threads /\ waiting \subseteq Threads
  /\ num_waiters \in Nat
  /\ old_count \in [Threads -> Nat] /\ cur \in [Threads -> Nat]
  /\ depth \in [Threads -> Nat]
  /\ pc \in [Threads -> PCs]

\* Has the mutex, from the CAS that takes it to the CAS that frees it.
HasMutex(t) ==
  pc[t] \in {"own", "critical", "unlock", "cv_end", "requeue_one", "requeue_all"}

\* One thread at a time has the mutex, and the word, the owner and the recursion
\* count say so: a thread that the owner field names is inside, and the one that
\* has just won the CAS finds no owner (the DCHECK_EQ of ExclusiveLock).
MutualExclusion ==
  /\ \A s, t \in Threads : HasMutex(s) /\ HasMutex(t) => s = t
  /\ held = 1 <=> \E t \in Threads : HasMutex(t)
  /\ \A t \in Threads :
       exclusive_owner = t <=>
         pc[t] \in {"critical", "cv_end", "requeue_one", "requeue_all"}
  /\ exclusive_owner = NoThread <=> recursion_count = 0

Counted == {t \in Threads : pc[t] \in {"sleep", "asleep", "uncontend"}}

\* The contenders in the word are the threads that contend and those that wait
\* for the condition, each counted from before it may sleep until it no longer does;
\* num_waiters_ are the latter.  Release wakes somebody for this reason only.
ContendersCounted ==
  /\ contenders = Cardinality(Counted) + Cardinality(waiting)
  /\ num_waiters = Cardinality(waiting)

\* Where the threads of the queues and of waiting stand, and what the counts are there.
PlaceInv ==
  /\ \A t \in mutexq : pc[t] \in {"asleep", "cv_asleep"}
  /\ \A t \in condq : pc[t] = "cv_asleep" /\ t \notin mutexq
  /\ \A t \in Threads :
       /\ pc[t] \in {"cv_sleep", "cv_asleep", "cv_end"} => t \in waiting
       /\ t \in waiting => pc[t] \notin {"idle", "critical", "requeue_one", "requeue_all"}
       /\ t \in waiting => old_count[t] > 0
       /\ pc[t] = "cv_end" => recursion_count = 1

\* The levels of a recursive mutex are the entries of the thread that has it, and those
\* of a thread that waits are kept for it, whoever has the mutex meanwhile.
LevelsKept ==
  \A t \in Threads :
    depth[t] = IF t \in waiting THEN old_count[t]
               ELSE IF pc[t] \in {"critical", "requeue_one", "requeue_all"} THEN recursion_count
               ELSE 0

Awake(t) ==
  \/ pc[t] \in {"wake", "lock", "contend", "sleep", "uncontend"}
  \/ pc[t] \in {"asleep", "cv_asleep"} /\ t \notin mutexq \cup condq

\* No thread sleeps on a free mutex with nobody about to look after it: there is
\* one that will wake a sleeper, or that will take the mutex and then do so.  A waiter
\* moved over from the condition variable counts as a sleeper.
NoSleepOnFreeMutex ==
  mutexq # {} /\ held = 0 => \E t \in Threads : Awake(t)

\* The inductive invariant.
MutexInv ==
  /\ MutexTypeOK
  /\ PlaceInv
  /\ MutualExclusion
  /\ ContendersCounted
  /\ LevelsKept
  /\ NoSleepOnFreeMutex

Signals(s, w) ==
  pc[s] = "requeue_all" \/ (pc[s] = "requeue_one" /\ waiting = {w})

\* Broadcast makes every waiter return and Signal the only one, also those that
\* have released the mutex and not yet fallen asleep, and whatever else the threads
\* do with the mutex meanwhile.
SignalsArrive ==
  \A w \in Threads :
    w \in waiting /\ (\E s \in Threads : Signals(s, w)) ~> w \notin waiting

\* The entries of the threads, from the CAS that takes the mutex to the CAS that frees it:
\* outside Wait the first comes before the thread counts its entry, the second after.
Entries ==
  [t \in Threads |-> IF ~HasMutex(t) THEN 0
                     ELSE IF pc[t] \in {"own", "unlock"} /\ t \notin waiting THEN depth[t] + 1
                     ELSE depth[t]]

SavedEntries == [t \in Threads |-> IF t \in waiting /\ ~HasMutex(t) THEN depth[t] ELSE 0]

Promise == INSTANCE ReentrantLock WITH entries <- Entries, saved <- SavedEntries

\* Mutex and ConditionVariable together are one ReentrantLock: whatever the futex calls
\* and contenders do, the mutex changes hands only when it is free, Wait gives up all
\* levels of a recursive mutex at its one CAS, and returns with as many.
MutexPromiseKept == Promise!PromiseSpec

=============================================================================
