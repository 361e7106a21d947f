--------------------------------- MODULE Monitor -------------------------------
(* The monitor of one object: runtime/monitor.cc, lock_word.h, and the identity     *)
(* hash code of runtime/mirror/object.cc, which shares the lock word.              *)
(*                                                                               *)
(* The lock word is thin, fat, a hash code or unlocked.  A CAS of it that fails is  *)
(* followed by another load, so a load and the CAS that succeeds are one step; a   *)
(* load and a plain store (collectors without read barriers) are two.              *)
(* Mutex and ConditionVariable are atomic here (see FutexMutex), and suspending a  *)
(* thread is waiting until it is suspended (see ThreadSuspension).                 *)
EXTENDS Integers, Sequences, FiniteSets, Functions

CONSTANTS Threads,
          None,
          Hashes,             \* values of GenerateIdentityHashCode
          kThinLockMaxCount,
          MaxDepth            \* bound on nested entries

ASSUME MonitorAssumption ==
  /\ IsFiniteSet(Threads) /\ None \notin Threads \cup Hashes
  /\ kThinLockMaxCount \in Nat /\ MaxDepth \in Nat

VARIABLES
  word, thin_owner, thin_count, word_hash,     \* the lock word
  monitor_lock, owner, lock_count, num_waiters, wait_set, wake_set, hash_code,
  wait_mutex,         \* who holds the wait mutex of a thread
  wait_monitor,       \* the threads whose wait_monitor_ is set
  asleep,             \* the threads in wait_cond_
  interrupted,
  was_interrupted,    \* a local of Wait
  prev_lock_count,    \* likewise
  in_wait,            \* the threads in Monitor::Wait
  suspenders,         \* who keeps a thread suspended in order to inflate its lock
  inflating,          \* the owner a thread inflates the lock for
  new_hash,           \* the hash code it gives to the monitor
  target,             \* the thread it is about to signal
  ret,                \* where it goes on after inflation
  pc,
  depth,              \* history: the entries of a thread
  returned            \* history: the hash codes handed out

wordVars == <<word, thin_owner, thin_count, word_hash>>
lockVars == <<monitor_lock, owner, lock_count>>
monitorVars == <<lockVars, num_waiters, wait_set, wake_set, hash_code>>
waitVars == <<wait_mutex, wait_monitor, asleep, interrupted, was_interrupted,
              prev_lock_count, in_wait>>
inflateVars == <<suspenders, inflating, new_hash, ret>>
historyVars == <<depth, returned>>
vars == <<wordVars, monitorVars, waitVars, inflateVars, target, pc, historyVars>>

Init ==
  /\ word = "kUnlocked" /\ thin_owner = None /\ thin_count = 0 /\ word_hash = None
  /\ monitor_lock = None /\ owner = None /\ lock_count = 0 /\ num_waiters = 0
  /\ wait_set = <<>> /\ wake_set = <<>> /\ hash_code = None
  /\ wait_mutex = [t \in Threads |-> None]
  /\ wait_monitor = {} /\ asleep = {} /\ interrupted = {} /\ was_interrupted = {}
  /\ prev_lock_count = [t \in Threads |-> 0]
  /\ in_wait = {}
  /\ suspenders = [t \in Threads |-> {}]
  /\ inflating = [t \in Threads |-> None]
  /\ new_hash = [t \in Threads |-> None]
  /\ target = [t \in Threads |-> None]
  /\ ret = [t \in Threads |-> "java"]
  /\ pc = [t \in Threads |-> "java"]
  /\ depth = [t \in Threads |-> 0]
  /\ returned = {}

Goto(t, p) == pc' = [pc EXCEPT ![t] = p]

\* A thread may be kept from becoming runnable, and from leaving a suspend point.
MayRun(t) == suspenders[t] = {}

SignalPC == {"signal", "signal_mutex", "signal_cond"}

\* Not runnable, or at a point where it checks for suspension.  (Wait allocates its
\* exception before it locks again.)
Suspended(t) ==
  \/ pc[t] \in {"java", "enter", "inf_suspend", "inf_suspended", "blocked", "locked",
                "w_mutex", "w_check", "w_asleep", "w_out"}
  \/ pc[t] \in SignalPC \cup {"lock"} /\ t \in in_wait

-------------------------------------------------------------------------------
(* MonitorEnter                                                                  *)

MonitorEnter(t, trylock) ==
  /\ pc[t] = "java" /\ MayRun(t) /\ depth[t] < MaxDepth
  /\ Goto(t, IF trylock THEN "try" ELSE "enter")
  /\ UNCHANGED <<wordVars, monitorVars, waitVars, inflateVars, target, historyVars>>

Enters(t) == pc[t] \in {"enter", "try"} /\ MayRun(t)

Entered(t) ==
  /\ depth' = [depth EXCEPT ![t] = @ + 1]
  /\ Goto(t, "java")
  /\ UNCHANGED returned

EnterUnlocked(t) ==
  /\ Enters(t) /\ word = "kUnlocked"
  /\ word' = "kThinLocked" /\ thin_owner' = t /\ thin_count' = 0
  /\ Entered(t)
  /\ UNCHANGED <<word_hash, monitorVars, waitVars, inflateVars, target>>

\* To inflate on behalf of the owner o, and then to p.
InflateFor(t, o, hash, p) ==
  /\ inflating' = [inflating EXCEPT ![t] = o]
  /\ new_hash' = [new_hash EXCEPT ![t] = hash]
  /\ ret' = [ret EXCEPT ![t] = p]

\* Inflation is over.
Inflated(t) == InflateFor(t, None, None, "java") /\ Goto(t, ret[t])

\* InflateThinLocked: at once if self is the owner, who must be suspended otherwise.
InflateThinLocked(t, hash, p) ==
  /\ InflateFor(t, thin_owner, hash, p)
  /\ Goto(t, IF thin_owner = t THEN "install" ELSE "inf_suspend")
  /\ UNCHANGED <<wordVars, monitorVars, waitVars, suspenders, target, historyVars>>

\* Slip: the count wraps around.
WrapCount == (thin_count + 1) % (kThinLockMaxCount + 1)

NewCount == thin_count + 1

EnterAgain(t) ==
  /\ Enters(t) /\ word = "kThinLocked" /\ thin_owner = t
  /\ \/ /\ NewCount <= kThinLockMaxCount
        /\ Goto(t, "again")
        /\ UNCHANGED <<wordVars, monitorVars, waitVars, inflateVars, target, historyVars>>
     \/ /\ NewCount > kThinLockMaxCount
        /\ InflateThinLocked(t, None, pc[t])

\* The owner may store the word: nobody inflates its lock while it is runnable.
StoreCount(t) ==
  /\ pc[t] = "again"
  /\ word' = "kThinLocked" /\ thin_owner' = t /\ thin_count' = NewCount
  /\ Entered(t)
  /\ UNCHANGED <<word_hash, monitorVars, waitVars, inflateVars, target>>

\* Somebody else has the thin lock: spins, and inflates it in the end.
EnterContended(t) ==
  /\ Enters(t) /\ word = "kThinLocked" /\ thin_owner # t
  /\ \/ /\ pc[t] = "try"
        /\ Goto(t, "java")
        /\ UNCHANGED <<wordVars, monitorVars, waitVars, inflateVars, target, historyVars>>
     \/ /\ pc[t] = "enter"
        /\ InflateThinLocked(t, None, "enter")

EnterHashed(t) ==
  /\ Enters(t) /\ word = "kHashCode"
  /\ InflateFor(t, None, word_hash, pc[t])
  /\ Goto(t, "install")
  /\ UNCHANGED <<wordVars, monitorVars, waitVars, suspenders, target, historyVars>>

EnterFat(t) ==
  /\ Enters(t) /\ word = "kFatLocked"
  /\ Goto(t, IF pc[t] = "try" THEN "trylock" ELSE "lock")
  /\ UNCHANGED <<wordVars, monitorVars, waitVars, inflateVars, target, historyVars>>

-------------------------------------------------------------------------------
(* Inflation                                                                     *)

\* SuspendPlatformOrVirtualThread, which backs off while its caller is to be suspended.
SuspendOwner(t) ==
  /\ pc[t] = "inf_suspend" /\ MayRun(t)
  /\ Suspended(inflating[t])
  /\ suspenders' = [suspenders EXCEPT ![inflating[t]] = @ \cup {t}]
  /\ Goto(t, "inf_suspended")
  /\ UNCHANGED <<wordVars, monitorVars, waitVars, inflating, new_hash, ret, target, historyVars>>

SuspendFails(t) ==
  /\ pc[t] = "inf_suspend" /\ MayRun(t)
  /\ Inflated(t)
  /\ UNCHANGED <<wordVars, monitorVars, waitVars, suspenders, target, historyVars>>

\* Slip: does not look again whether the owner still has the lock.
Unexamined(t) == TRUE

StillOwner(t) == word = "kThinLocked" /\ thin_owner = inflating[t]

\* Runnable again, with the owner suspended.
CheckOwner(t) ==
  /\ pc[t] = "inf_suspended" /\ MayRun(t)
  /\ Goto(t, IF StillOwner(t) THEN "install" ELSE "inf_resume")
  /\ UNCHANGED <<wordVars, monitorVars, waitVars, inflateVars, target, historyVars>>

\* An owner that was suspended is to be resumed.
AfterInstall(t) ==
  IF inflating[t] \in {t, None}
    THEN Inflated(t)
    ELSE Goto(t, "inf_resume") /\ UNCHANGED <<inflating, new_hash, ret>>

\* Inflate: publishes a new monitor with the state of the lock word.
Install(t) ==
  /\ pc[t] = "install"
  /\ \/ word = "kThinLocked" /\ thin_owner = inflating[t]
     \/ word = "kHashCode" /\ inflating[t] = None /\ word_hash = new_hash[t]
  /\ word' = "kFatLocked" /\ thin_owner' = None /\ thin_count' = 0 /\ word_hash' = None
  /\ monitor_lock' = inflating[t] /\ owner' = inflating[t] /\ lock_count' = thin_count
  /\ hash_code' = new_hash[t]
  /\ AfterInstall(t)
  /\ UNCHANGED <<num_waiters, wait_set, wake_set, waitVars, suspenders, target, historyVars>>

\* The CAS fails, or finds a monitor: the new one is released.
InstallFails(t) ==
  /\ pc[t] = "install"
  /\ AfterInstall(t)
  /\ UNCHANGED <<wordVars, monitorVars, waitVars, suspenders, target, historyVars>>

ResumeOwner(t) ==
  /\ pc[t] = "inf_resume"
  /\ suspenders' = [suspenders EXCEPT ![inflating[t]] = @ \ {t}]
  /\ Inflated(t)
  /\ UNCHANGED <<wordVars, monitorVars, waitVars, target, historyVars>>

-------------------------------------------------------------------------------
(* Monitor::Lock, and where it returns to                                        *)

\* Slip: looks in wake_set only.
RemoveNotified(t) ==
  wake_set' = SelectSeq(wake_set, LAMBDA u : u # t) /\ UNCHANGED wait_set

RemoveFromWaitSet(t) ==
  IF t \in Range(wait_set)
    THEN wait_set' = SelectSeq(wait_set, LAMBDA u : u # t) /\ UNCHANGED wake_set
    ELSE wake_set' = SelectSeq(wake_set, LAMBDA u : u # t) /\ UNCHANGED wait_set

\* self owns the monitor: MonitorEnter returns, or Wait restores what it had.
\* n: what self contributed to num_waiters_ in Lock.
Owned(t, n) ==
  /\ owner' = t
  /\ Goto(t, "java")
  /\ IF t \in in_wait
       THEN /\ lock_count' = prev_lock_count[t]
            /\ num_waiters' = num_waiters - n - 1
            /\ RemoveFromWaitSet(t)
            /\ in_wait' = in_wait \ {t}
            /\ prev_lock_count' = [prev_lock_count EXCEPT ![t] = 0]
            /\ UNCHANGED depth
       ELSE /\ num_waiters' = num_waiters - n
            /\ depth' = [depth EXCEPT ![t] = @ + 1]
            /\ UNCHANGED <<lock_count, wait_set, wake_set, in_wait, prev_lock_count>>

waitOthers == <<wait_mutex, wait_monitor, asleep, interrupted, was_interrupted>>

TryLock(t) ==
  /\ pc[t] \in {"lock", "trylock"} /\ MayRun(t)
  /\ \/ /\ owner = t
        /\ lock_count' = lock_count + 1
        /\ Entered(t)
        /\ UNCHANGED <<monitor_lock, owner, num_waiters, wait_set, wake_set, in_wait,
                       prev_lock_count>>
     \/ /\ owner # t /\ monitor_lock = None
        /\ monitor_lock' = t
        /\ Owned(t, 0)
  /\ UNCHANGED <<wordVars, hash_code, waitOthers, inflateVars, target, returned>>

\* Slip: a thread about to block does not count as a waiter.
BlockUncounted == num_waiters

CountWaiter == num_waiters + 1

LockContended(t) ==
  /\ pc[t] \in {"lock", "trylock"} /\ MayRun(t) /\ owner # t /\ monitor_lock # None
  /\ \/ /\ pc[t] = "trylock"
        /\ Goto(t, "java")
        /\ UNCHANGED num_waiters
     \/ /\ pc[t] = "lock"
        /\ num_waiters' = CountWaiter
        /\ Goto(t, "blocked")
  /\ UNCHANGED <<wordVars, lockVars, wait_set, wake_set, hash_code, waitVars, inflateVars,
                 target, historyVars>>

\* The mutex is taken while suspended; owner_ is set once runnable again.
LockSuspended(t) ==
  /\ pc[t] = "blocked" /\ monitor_lock = None
  /\ monitor_lock' = t
  /\ Goto(t, "locked")
  /\ UNCHANGED <<wordVars, owner, lock_count, num_waiters, wait_set, wake_set, hash_code,
                 waitVars, inflateVars, target, historyVars>>

LockRunnable(t) ==
  /\ pc[t] = "locked" /\ MayRun(t)
  /\ Owned(t, 1)
  /\ UNCHANGED <<wordVars, monitor_lock, hash_code, waitOthers, inflateVars, target, returned>>

-------------------------------------------------------------------------------
(* MonitorExit, and the release of monitor_lock_                                 *)

ExitThin(t) ==
  /\ pc[t] = "java" /\ MayRun(t) /\ word = "kThinLocked" /\ thin_owner = t
  /\ Goto(t, "exit")
  /\ UNCHANGED <<wordVars, monitorVars, waitVars, inflateVars, target, historyVars>>

StoreExit(t) ==
  /\ pc[t] = "exit"
  /\ IF thin_count # 0
       THEN word' = "kThinLocked" /\ thin_owner' = t /\ thin_count' = thin_count - 1
       ELSE word' = "kUnlocked" /\ thin_owner' = None /\ UNCHANGED thin_count
  /\ depth' = [depth EXCEPT ![t] = @ - 1]
  /\ Goto(t, "java")
  /\ UNCHANGED <<word_hash, monitorVars, waitVars, inflateVars, target, returned>>

\* Unlock.
ExitFat(t) ==
  /\ pc[t] = "java" /\ MayRun(t) /\ word = "kFatLocked" /\ owner = t
  /\ IF lock_count = 0
       THEN owner' = None /\ Goto(t, "signal") /\ UNCHANGED lock_count
       ELSE lock_count' = lock_count - 1 /\ UNCHANGED <<owner, pc>>
  /\ depth' = [depth EXCEPT ![t] = @ - 1]
  /\ UNCHANGED <<wordVars, monitor_lock, num_waiters, wait_set, wake_set, hash_code, waitVars,
                 inflateVars, target, returned>>

AfterSignal(t) == IF t \in in_wait THEN "w_check" ELSE "java"

\* Slip: does not look whether there is somebody to signal.
Overlooked == TRUE

NobodyNotified == wake_set = <<>>

\* SignalWaiterAndReleaseMonitorLock: nobody was notified.
SignalNobody(t) ==
  /\ pc[t] = "signal" /\ NobodyNotified
  /\ monitor_lock' = None
  /\ Goto(t, AfterSignal(t))
  /\ UNCHANGED <<wordVars, owner, lock_count, num_waiters, wait_set, wake_set, hash_code,
                 waitVars, inflateVars, target, historyVars>>

SignalNext(t) ==
  /\ pc[t] = "signal" /\ wake_set # <<>>
  /\ target' = [target EXCEPT ![t] = Head(wake_set)]
  /\ wake_set' = Tail(wake_set)
  /\ Goto(t, "signal_mutex")
  /\ UNCHANGED <<wordVars, lockVars, num_waiters, wait_set, hash_code, waitVars, inflateVars,
                 historyVars>>

WaitMutexFree(t) == wait_mutex[target[t]] = None

\* Takes the thread's wait mutex; passes it over if it has stopped waiting.
SignalMutex(t) ==
  /\ pc[t] = "signal_mutex" /\ WaitMutexFree(t)
  /\ IF target[t] \in wait_monitor
       THEN /\ wait_mutex' = [wait_mutex EXCEPT ![target[t]] = t]
            /\ monitor_lock' = None
            /\ Goto(t, "signal_cond")
            /\ UNCHANGED target
       ELSE /\ target' = [target EXCEPT ![t] = None]
            /\ Goto(t, "signal")
            /\ UNCHANGED <<wait_mutex, monitor_lock>>
  /\ UNCHANGED <<wordVars, owner, lock_count, num_waiters, wait_set, wake_set, hash_code,
                 wait_monitor, asleep, interrupted, was_interrupted, prev_lock_count, in_wait,
                 inflateVars, historyVars>>

SignalCond(t) ==
  /\ pc[t] = "signal_cond"
  /\ asleep' = asleep \ {target[t]}
  /\ wait_mutex' = [wait_mutex EXCEPT ![target[t]] = None]
  /\ target' = [target EXCEPT ![t] = None]
  /\ Goto(t, AfterSignal(t))
  /\ UNCHANGED <<wordVars, monitorVars, wait_monitor, interrupted, was_interrupted,
                 prev_lock_count, in_wait, inflateVars, historyVars>>

-------------------------------------------------------------------------------
(* Object.wait, Thread.interrupt, Object.notify                                  *)

Wait(t) ==
  /\ pc[t] = "java" /\ MayRun(t) /\ depth[t] > 0
  /\ Goto(t, "wait")
  /\ UNCHANGED <<wordVars, monitorVars, waitVars, inflateVars, target, historyVars>>

WaitThin(t) ==
  /\ pc[t] = "wait" /\ word = "kThinLocked"
  /\ InflateThinLocked(t, None, "wait")

\* Gives up the monitor whatever its count, and counts as a waiter until it has it back.
WaitFat(t) ==
  /\ pc[t] = "wait" /\ word = "kFatLocked"
  /\ prev_lock_count' = [prev_lock_count EXCEPT ![t] = lock_count]
  /\ lock_count' = 0 /\ owner' = None
  /\ num_waiters' = num_waiters + 1
  /\ in_wait' = in_wait \cup {t}
  /\ Goto(t, "w_mutex")
  /\ UNCHANGED <<wordVars, monitor_lock, wait_set, wake_set, hash_code, wait_mutex, wait_monitor,
                 asleep, interrupted, was_interrupted, inflateVars, target, historyVars>>

WaitMutex(t) ==
  /\ pc[t] = "w_mutex" /\ wait_mutex[t] = None
  /\ wait_mutex' = [wait_mutex EXCEPT ![t] = t]
  /\ wait_set' = Append(wait_set, t)
  /\ wait_monitor' = wait_monitor \cup {t}
  /\ Goto(t, "signal")
  /\ UNCHANGED <<wordVars, lockVars, num_waiters, wake_set, hash_code, asleep, interrupted,
                 was_interrupted, prev_lock_count, in_wait, inflateVars, target, historyVars>>

\* Interrupted already, or asleep with the wait mutex released.
WaitCheck(t) ==
  /\ pc[t] = "w_check"
  /\ wait_mutex' = [wait_mutex EXCEPT ![t] = None]
  /\ IF t \in interrupted
       THEN /\ was_interrupted' = was_interrupted \cup {t}
            /\ Goto(t, "w_out")
            /\ UNCHANGED asleep
       ELSE /\ asleep' = asleep \cup {t}
            /\ Goto(t, "w_asleep")
            /\ UNCHANGED was_interrupted
  /\ UNCHANGED <<wordVars, monitorVars, wait_monitor, interrupted, prev_lock_count, in_wait,
                 inflateVars, target, historyVars>>

\* A timeout, or a signal to the process.
TimeOut(t) ==
  /\ t \in asleep
  /\ asleep' = asleep \ {t}
  /\ UNCHANGED <<wordVars, monitorVars, wait_mutex, wait_monitor, interrupted, was_interrupted,
                 prev_lock_count, in_wait, inflateVars, target, pc, historyVars>>

Awake(t) ==
  /\ pc[t] = "w_asleep" /\ t \notin asleep /\ wait_mutex[t] = None
  /\ was_interrupted' = IF t \in interrupted THEN was_interrupted \cup {t} ELSE was_interrupted
  /\ Goto(t, "w_out")
  /\ UNCHANGED <<wordVars, monitorVars, wait_mutex, wait_monitor, asleep, interrupted,
                 prev_lock_count, in_wait, inflateVars, target, historyVars>>

\* Runnable again: no longer to be signalled, and off to Lock.
WaitOut(t) ==
  /\ pc[t] = "w_out" /\ MayRun(t) /\ wait_mutex[t] = None
  /\ wait_monitor' = wait_monitor \ {t}
  /\ interrupted' = interrupted \ ({t} \cap was_interrupted)
  /\ was_interrupted' = was_interrupted \ {t}
  /\ Goto(t, "lock")
  /\ UNCHANGED <<wordVars, monitorVars, wait_mutex, asleep, prev_lock_count, in_wait,
                 inflateVars, target, historyVars>>

Interrupt(t, u) ==
  /\ pc[t] = "java" /\ MayRun(t) /\ wait_mutex[u] = None /\ u \notin interrupted
  /\ interrupted' = interrupted \cup {u}
  /\ asleep' = IF u \in wait_monitor THEN asleep \ {u} ELSE asleep
  /\ UNCHANGED <<wordVars, monitorVars, wait_mutex, wait_monitor, was_interrupted,
                 prev_lock_count, in_wait, inflateVars, target, pc, historyVars>>

\* DoNotify: a thin lock has no waiters.
Notifies(t) == pc[t] = "java" /\ MayRun(t) /\ word = "kFatLocked" /\ owner = t

Notify(t) ==
  /\ Notifies(t) /\ wait_set # <<>>
  /\ wake_set' = <<Head(wait_set)>> \o wake_set
  /\ wait_set' = Tail(wait_set)
  /\ UNCHANGED <<wordVars, lockVars, num_waiters, hash_code, waitVars, inflateVars, target, pc,
                 historyVars>>

NotifyAll(t) ==
  /\ Notifies(t) /\ wait_set # <<>>
  /\ wake_set' = wake_set \o wait_set
  /\ wait_set' = <<>>
  /\ UNCHANGED <<wordVars, lockVars, num_waiters, hash_code, waitVars, inflateVars, target, pc,
                 historyVars>>

-------------------------------------------------------------------------------
(* Object.hashCode                                                               *)

IdentityHashCode(t) ==
  /\ pc[t] = "java" /\ MayRun(t)
  /\ Goto(t, "hash")
  /\ UNCHANGED <<wordVars, monitorVars, waitVars, inflateVars, target, historyVars>>

ReturnHash(t, h) == returned' = returned \cup {h} /\ Goto(t, "java") /\ UNCHANGED depth

HashUnlocked(t) ==
  /\ pc[t] = "hash" /\ word = "kUnlocked"
  /\ \E h \in Hashes : word_hash' = h /\ ReturnHash(t, h)
  /\ word' = "kHashCode"
  /\ UNCHANGED <<thin_owner, thin_count, monitorVars, waitVars, inflateVars, target>>

HashThin(t) ==
  /\ pc[t] = "hash" /\ word = "kThinLocked"
  /\ \E h \in Hashes : InflateThinLocked(t, h, "hash")

\* GetHashCode of the monitor, which generates one if there is none.
HashFat(t) ==
  /\ pc[t] = "hash" /\ word = "kFatLocked"
  /\ \E h \in Hashes :
       /\ hash_code' = IF hash_code = None THEN h ELSE hash_code
       /\ ReturnHash(t, hash_code')
  /\ UNCHANGED <<wordVars, lockVars, num_waiters, wait_set, wake_set, waitVars, inflateVars, target>>

HashHashed(t) ==
  /\ pc[t] = "hash" /\ word = "kHashCode"
  /\ ReturnHash(t, word_hash)
  /\ UNCHANGED <<wordVars, monitorVars, waitVars, inflateVars, target>>

-------------------------------------------------------------------------------
(* Deflation, by a collector that has suspended all threads                      *)

\* Slip: the object forgets its hash code.
ForgetHash == word' = "kUnlocked" /\ UNCHANGED word_hash

\* The lock word keeps the hash code.
DeflatedWord ==
  IF hash_code = None
    THEN word' = "kUnlocked" /\ UNCHANGED word_hash
    ELSE word' = "kHashCode" /\ word_hash' = hash_code

Deflate ==
  /\ \A t \in Threads : Suspended(t)
  /\ word = "kFatLocked" /\ num_waiters = 0 /\ monitor_lock = None
  /\ DeflatedWord
  /\ hash_code' = None
  /\ UNCHANGED <<thin_owner, thin_count, lockVars, num_waiters, wait_set, wake_set, waitVars,
                 inflateVars, target, pc, historyVars>>

-------------------------------------------------------------------------------
Call(t) ==
  \/ \E trylock \in BOOLEAN : MonitorEnter(t, trylock)
  \/ Wait(t)
  \/ \E u \in Threads : Interrupt(t, u)
  \/ Notify(t) \/ NotifyAll(t)
  \/ IdentityHashCode(t)

\* Every entry has an exit: the verifier's structured locking.
Exit(t) == ExitThin(t) \/ ExitFat(t)

Proceed(t) ==
  \/ EnterUnlocked(t) \/ EnterAgain(t) \/ StoreCount(t) \/ EnterContended(t)
  \/ EnterHashed(t) \/ EnterFat(t) \/ StoreExit(t)
  \/ SuspendOwner(t) \/ CheckOwner(t) \/ Install(t) \/ ResumeOwner(t)
  \/ TryLock(t) \/ LockContended(t) \/ LockSuspended(t) \/ LockRunnable(t)
  \/ SignalNobody(t) \/ SignalNext(t) \/ SignalMutex(t) \/ SignalCond(t)
  \/ WaitThin(t) \/ WaitFat(t) \/ WaitMutex(t) \/ WaitCheck(t) \/ Awake(t) \/ WaitOut(t)
  \/ HashUnlocked(t) \/ HashThin(t) \/ HashFat(t) \/ HashHashed(t)

\* What need not happen.
Chance(t) == SuspendFails(t) \/ InstallFails(t) \/ TimeOut(t)

Next ==
  \/ \E t \in Threads : Call(t) \/ Exit(t) \/ Proceed(t) \/ Chance(t)
  \/ Deflate

Spec == Init /\ [][Next]_vars

-------------------------------------------------------------------------------
(* Properties                                                                    *)

LockStates == {"kUnlocked", "kThinLocked", "kFatLocked", "kHashCode"}

WaitPC == {"w_mutex", "w_check", "w_asleep", "w_out"}

SuspendPC == {"inf_suspended", "install", "inf_resume"}

PCs == {"java", "enter", "try", "again", "inf_suspend", "lock", "trylock", "blocked", "locked",
        "exit", "wait", "hash"} \cup SuspendPC \cup SignalPC \cup WaitPC

MonitorTypeOK ==
  /\ word \in LockStates
  /\ thin_owner \in Threads \cup {None} /\ thin_count \in 0..kThinLockMaxCount
  /\ word_hash \in Hashes \cup {None} /\ hash_code \in Hashes \cup {None}
  /\ monitor_lock \in Threads \cup {None} /\ owner \in Threads \cup {None}
  /\ lock_count \in Nat
  /\ prev_lock_count \in [Threads -> Nat] /\ depth \in [Threads -> Nat]
  /\ in_wait \subseteq Threads
  /\ suspenders \in [Threads -> SUBSET Threads]
  /\ inflating \in [Threads -> Threads \cup {None}]
  /\ new_hash \in [Threads -> Hashes \cup {None}]
  /\ ret \in [Threads -> {"java", "enter", "try", "wait", "hash"}]
  /\ pc \in [Threads -> PCs]
  /\ returned \subseteq Hashes

\* Has entered, and is not in Wait.
Inside(t) == depth[t] > 0 /\ t \notin in_wait

\* Whatever form the lock takes, and across Wait, at most one thread is inside, and the
\* lock records it and the number of its entries (Install hands the count of the thin
\* lock to the monitor, Wait saves and restores it, Deflate leaves a held lock alone).
EntriesRecorded ==
  /\ \A t \in Threads : Inside(t) =>
       \/ word = "kThinLocked" /\ thin_owner = t /\ depth[t] = thin_count + 1
       \/ word = "kFatLocked" /\ owner = t /\ depth[t] = lock_count + 1
  /\ word = "kThinLocked" => Inside(thin_owner)
  /\ owner # None => Inside(owner)

\* Where a thread may be in Wait, and what holds at the points of the other calls.
ControlInv ==
  \A t \in Threads :
    /\ pc[t] \in WaitPC => t \in in_wait
    /\ t \in in_wait => /\ pc[t] \in WaitPC \cup SignalPC \cup {"lock", "blocked", "locked"}
                        /\ depth[t] = prev_lock_count[t] + 1
    /\ \/ pc[t] = "wait"
       \/ pc[t] \in SuspendPC \cup {"inf_suspend"} /\ ret[t] = "wait"
       => depth[t] > 0
    /\ pc[t] \in {"again", "exit"} => word = "kThinLocked" /\ thin_owner = t
    /\ pc[t] = "again" => thin_count < kThinLockMaxCount
    /\ pc[t] \in {"inf_suspend", "inf_suspended", "inf_resume"} => inflating[t] \in Threads \ {t}

\* Who is kept suspended, and by whom.
SuspendInv ==
  /\ \A t, u \in Threads :
       t \in suspenders[u] <=> pc[t] \in SuspendPC /\ inflating[t] = u /\ u # t
  /\ \A u \in Threads : suspenders[u] # {} => Suspended(u)

\* Between loading the monitor from the lock word and the last use of it.
UsesMonitor(t) ==
  pc[t] \in SignalPC \cup WaitPC \cup {"lock", "trylock", "blocked", "locked"}

\* The lock word and the monitor agree, and monitor_lock_ is held by the owner or by a
\* thread that is about to be it or has just been it.
LockInv ==
  /\ word = "kThinLocked" <=> thin_owner # None
  /\ word # "kThinLocked" => thin_count = 0
  /\ word = "kHashCode" <=> word_hash # None
  /\ word # "kFatLocked" => monitor_lock = None /\ hash_code = None
  /\ owner = None => lock_count = 0
  /\ owner # None => pc[owner] \notin SignalPC \cup WaitPC \cup {"blocked", "locked"}
  /\ \A t \in Threads : /\ monitor_lock = t <=> \/ owner = t
                                                \/ pc[t] \in {"locked", "signal", "signal_mutex",
                                                              "w_mutex"}
                        /\ UsesMonitor(t) => word = "kFatLocked"

Blocked == {t \in Threads : pc[t] \in {"blocked", "locked"}}

\* num_waiters_ counts the threads in Wait, and once more those that block in Lock.
WaitersCounted == num_waiters = Cardinality(in_wait) + Cardinality(Blocked)

\* The invariant that is inductive with InstallSafe and HashStable.
MonitorInv ==
  MonitorTypeOK /\ EntriesRecorded /\ ControlInv /\ SuspendInv /\ LockInv /\ WaitersCounted

\* Install never meets an unlocked word, the lock of another thread or another hash code
\* (its LOG(FATAL) and CHECKs): the owner was suspended before the word was examined.
InstallSafe ==
  \A t \in Threads : pc[t] = "install" =>
    \/ word = "kFatLocked"
    \/ word = "kThinLocked" /\ thin_owner = inflating[t]
    \/ word = "kHashCode" /\ inflating[t] = None /\ word_hash = new_hash[t]

\* The identity hash code never changes: what any call returned is what the object has,
\* through inflation, which moves it to the monitor, and deflation, which moves it back.
HashStable ==
  \A h \in returned : h = IF word = "kHashCode" THEN word_hash ELSE hash_code

\* A monitor is not deflated under a thread that uses it, blocks on it or waits on it:
\* num_waiters_ covers those that are suspended, and the others hold deflation up.
DeflatedUnused ==
  [][word = "kFatLocked" /\ word' # "kFatLocked" => \A t \in Threads : ~UsesMonitor(t)]_vars

\* The wait and wake sets hold threads that are in Wait, each of them once: a thread that
\* leaves Wait by itself is taken out of whichever set a notification has put it in.
WaitSetsExact ==
  wait_set \o wake_set \in Seq(in_wait) /\ IsInjective(wait_set \o wake_set)

\* A thread that has been notified returns from Wait, although each release of the
\* monitor signals only one thread, and others time out or are interrupted: again and
\* again, all threads in Wait are ones that nobody has notified.
NotifiedReturn == []<>(in_wait \subseteq Range(wait_set))

Entries == [t \in Threads |-> IF t \in in_wait THEN 0 ELSE depth[t]]

SavedEntries == [t \in Threads |-> IF t \in in_wait THEN depth[t] ELSE 0]

Promise == INSTANCE ReentrantLock WITH entries <- Entries, saved <- SavedEntries

\* To the program the lock of an object is one ReentrantLock, whatever its form: threads
\* enter only while nobody is inside, through the lock word or through a monitor that
\* another thread inflates or the collector deflates meanwhile, and a thread that waits
\* lets others in at once and comes back only when they have left.
LockPromiseKept == Promise!PromiseSpec

=============================================================================
