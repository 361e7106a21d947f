------------------------- MODULE FutexReaderWriterMutex ------------------------
(* ReaderWriterMutex of runtime/base/mutex.cc and mutex-inl.h over a futex.  q is   *)
(* the set of threads the kernel has asleep on state_.                             *)
EXTENDS Integers, FiniteSets

CONSTANTS Threads, NoThread

ASSUME RWAssumption == IsFiniteSet(Threads) /\ NoThread \notin Threads

VARIABLES
  state,            \* -1 a writer, 0 free, n readers
  num_contenders,
  exclusive_owner,
  q,
  mode,             \* how a thread locks or has locked
  cur,              \* cur_state of a thread that contends
  pc

rwVars == <<state, num_contenders, exclusive_owner, q, mode, cur, pc>>

Modes == {"shared", "exclusive", "timed", "downgraded"}

PCs == {"idle", "lock", "contend", "sleep", "asleep", "shared", "own",
        "exclusive", "unlock", "check", "wake"}

RWInit ==
  /\ state = 0 /\ num_contenders = 0 /\ exclusive_owner = NoThread
  /\ q = {}
  /\ mode = [t \in Threads |-> "shared"]
  /\ cur = [t \in Threads |-> 0]
  /\ pc = [t \in Threads |-> "idle"]

Goto(t, p) == pc' = [pc EXCEPT ![t] = p]

-------------------------------------------------------------------------------
\* SharedLock, ExclusiveLock and ExclusiveLockWithTimeout begin.
Lock(t, m) ==
  /\ pc[t] = "idle"
  /\ mode' = [mode EXCEPT ![t] = m]
  /\ Goto(t, "lock")
  /\ UNCHANGED <<state, num_contenders, exclusive_owner, q, cur>>

\* Slip: a writer gets in next to readers.
NoWriter(m) == state >= 0

\* Whether the state admits one more holder.
Free(m) == IF m = "shared" THEN state >= 0 ELSE state = 0

\* The CAS; a failed one is tried again from the load.
Acquire(t, m) ==
  /\ Free(m)
  /\ \/ m = "shared" /\ state' = state + 1 /\ Goto(t, "shared")
     \/ m # "shared" /\ state' = -1 /\ Goto(t, "own")
  /\ UNCHANGED <<num_contenders, exclusive_owner, q, cur>>

LockFree(t) == pc[t] = "lock" /\ Acquire(t, mode[t]) /\ UNCHANGED mode

\* SharedTryLock and ExclusiveTryLock, which give up at once.
TryLock(t, m) ==
  /\ pc[t] = "idle" /\ m # "timed" /\ Acquire(t, m)
  /\ mode' = [mode EXCEPT ![t] = m]

\* FinishRWExclusiveLock.
FinishRWExclusiveLock(t) ==
  /\ pc[t] = "own"
  /\ exclusive_owner' = t
  /\ Goto(t, "exclusive")
  /\ UNCHANGED <<state, num_contenders, q, mode, cur>>

\* The load finds the lock taken, and WaitBrieflyFor does not help.
Contend(t) ==
  /\ pc[t] = "lock" /\ ~Free(mode[t])
  /\ cur' = [cur EXCEPT ![t] = state]
  /\ Goto(t, "contend")
  /\ UNCHANGED <<state, num_contenders, exclusive_owner, q, mode>>

IncrementContenders(t) ==
  /\ pc[t] = "contend"
  /\ num_contenders' = num_contenders + 1
  /\ Goto(t, "sleep")
  /\ UNCHANGED <<state, exclusive_owner, q, mode, cur>>

\* FUTEX_WAIT: sleeps if state_ still is cur_state, or EAGAIN.
SleepIfUnchanged(t) == IF state = cur[t] THEN q \cup {t} ELSE q

FutexWait(t) ==
  /\ pc[t] = "sleep"
  /\ q' = SleepIfUnchanged(t)
  /\ Goto(t, "asleep")
  /\ UNCHANGED <<state, num_contenders, exclusive_owner, mode, cur>>

\* EINTR.
InterruptSleep(t) ==
  /\ t \in q
  /\ q' = q \ {t}
  /\ UNCHANGED <<state, num_contenders, exclusive_owner, mode, cur, pc>>

\* Awake: no longer a contender, and tries again.
DecrementContenders(t) ==
  /\ pc[t] = "asleep" /\ t \notin q
  /\ num_contenders' = num_contenders - 1
  /\ Goto(t, "lock")
  /\ UNCHANGED <<state, exclusive_owner, q, mode, cur>>

\* ExclusiveLockWithTimeout gives up, before it sleeps or at ETIMEDOUT.
TimeOut(t) ==
  /\ mode[t] = "timed"
  /\ \/ /\ pc[t] = "lock" /\ ~Free("timed")
        /\ UNCHANGED <<num_contenders, q>>
     \/ /\ pc[t] = "asleep"
        /\ num_contenders' = num_contenders - 1
        /\ q' = q \ {t}
  /\ Goto(t, "idle")
  /\ UNCHANGED <<state, exclusive_owner, mode, cur>>

\* Slip: only the last reader but one wakes the contenders.
WakeAtOne == state' = 1

LastReaderGone == state' = 0

SharedUnlock(t) ==
  /\ pc[t] = "shared"
  /\ state' = state - 1
  /\ mode' = [mode EXCEPT ![t] = "shared"]
  /\ Goto(t, IF LastReaderGone THEN "check" ELSE "idle")
  /\ UNCHANGED <<num_contenders, exclusive_owner, q, cur>>

\* ExclusiveUnlock up to the store to exclusive_owner_.
ExclusiveUnlock(t) ==
  /\ pc[t] = "exclusive"
  /\ exclusive_owner' = NoThread
  /\ Goto(t, "unlock")
  /\ UNCHANGED <<state, num_contenders, q, mode, cur>>

Release(t) ==
  /\ pc[t] = "unlock"
  /\ state' = 0
  /\ Goto(t, "check")
  /\ UNCHANGED <<num_contenders, exclusive_owner, q, mode, cur>>

\* Slip: a downgrade that tells nobody.
DowngradeSilently(t) ==
  /\ pc[t] = "exclusive"
  /\ exclusive_owner' = NoThread
  /\ state' = 1
  /\ mode' = [mode EXCEPT ![t] = "downgraded"]
  /\ Goto(t, "shared")
  /\ UNCHANGED <<num_contenders, q, cur>>

\* The writer becomes the single reader, and goes on holding the lock.
Downgrade(t) ==
  /\ pc[t] = "exclusive"
  /\ exclusive_owner' = NoThread
  /\ state' = 1
  /\ mode' = [mode EXCEPT ![t] = "downgraded"]
  /\ Goto(t, "check")
  /\ UNCHANGED <<num_contenders, q, cur>>

AfterWake(t) == IF mode[t] = "downgraded" THEN "shared" ELSE "idle"

\* The load of num_contenders_ after the state has changed.
CheckContenders(t) ==
  /\ pc[t] = "check"
  /\ Goto(t, IF num_contenders > 0 THEN "wake" ELSE AfterWake(t))
  /\ UNCHANGED <<state, num_contenders, exclusive_owner, q, mode, cur>>

\* FUTEX_WAKE of all.
Wake(t) ==
  /\ pc[t] = "wake"
  /\ q' = {}
  /\ Goto(t, AfterWake(t))
  /\ UNCHANGED <<state, num_contenders, exclusive_owner, mode, cur>>

WakeupToRespondToEmptyCheckpoint ==
  /\ num_contenders > 0
  /\ q' = {}
  /\ UNCHANGED <<state, num_contenders, exclusive_owner, mode, cur, pc>>

-------------------------------------------------------------------------------
Call(t) ==
  \/ \E m \in Modes \ {"downgraded"} : Lock(t, m) \/ TryLock(t, m)
  \/ Downgrade(t)

\* What a thread does without being asked: it also unlocks in the end.
Proceed(t) ==
  \/ LockFree(t) \/ FinishRWExclusiveLock(t)
  \/ Contend(t) \/ IncrementContenders(t) \/ FutexWait(t) \/ DecrementContenders(t)
  \/ SharedUnlock(t) \/ ExclusiveUnlock(t) \/ Release(t)
  \/ CheckContenders(t) \/ Wake(t)

RWNext ==
  \/ \E t \in Threads : Call(t) \/ Proceed(t) \/ TimeOut(t) \/ InterruptSleep(t)
  \/ WakeupToRespondToEmptyCheckpoint

RWSpec == RWInit /\ [][RWNext]_rwVars

-------------------------------------------------------------------------------
RWTypeOK ==
  /\ state \in Int /\ state >= -1 /\ num_contenders \in Nat
  /\ exclusive_owner \in Threads \cup {NoThread}
  /\ q \subseteq Threads
  /\ mode \in [Threads -> Modes] /\ cur \in [Threads -> Int]
  /\ pc \in [Threads -> PCs]

Writes(t) == pc[t] \in {"own", "exclusive", "unlock"}

Reads(t) == pc[t] = "shared" \/ (pc[t] \in {"check", "wake"} /\ mode[t] = "downgraded")

Readers == {t \in Threads : Reads(t)}

\* A writer excludes readers and other writers, also across Downgrade and try-locks,
\* and state_ says who is inside: -1 for a writer, or the number of readers.
ReadersExcludeWriters ==
  /\ \A s, t \in Threads : Writes(s) => ~Reads(t) /\ (Writes(t) => s = t)
  /\ state = -1 <=> \E t \in Threads : Writes(t)
  /\ state # -1 => state = Cardinality(Readers)
  /\ \A t \in Threads : exclusive_owner = t <=> pc[t] = "exclusive"

Counted == {t \in Threads : pc[t] \in {"sleep", "asleep"}}

\* num_contenders_ counts everybody who sleeps or may, so a thread that frees the
\* lock and then reads zero has nobody to wake.
ContendersCounted ==
  /\ q \subseteq {t \in Threads : pc[t] = "asleep"}
  /\ num_contenders = Cardinality(Counted)

\* A thread sleeps only while the lock is taken in a way that keeps it out, or
\* somebody is about to wake all sleepers: a writer that downgrades lets the readers
\* in, and neither the load of num_contenders_ nor a change of state_ in between loses
\* a sleeper.
NobodySleepsOutside ==
  \A t \in q : ~Free(mode[t]) \/ \E u \in Threads : pc[u] \in {"check", "wake"}

\* What a contender expects keeps it out, and who has downgraded reads.
PlaceInv ==
  \A t \in Threads :
    /\ pc[t] \in {"contend", "sleep"} =>
         IF mode[t] = "shared" THEN cur[t] = -1 ELSE cur[t] # 0
    /\ mode[t] = "downgraded" => pc[t] \in {"check", "wake", "shared"}

\* The inductive invariant.
RWInv ==
  /\ RWTypeOK
  /\ PlaceInv
  /\ ReadersExcludeWriters
  /\ ContendersCounted
  /\ NobodySleepsOutside

\* Everybody who locks gets the lock, or gives up on a timed attempt, once the others
\* stop taking it.
LockersGetIn ==
  \A t \in Threads : pc[t] = "lock" ~> pc[t] \in {"shared", "own", "idle"}

=============================================================================
