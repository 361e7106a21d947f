------------------------------ MODULE MonitorProofs ----------------------------
(*****************************************************************************)
(* The invariant of Monitor, and what follows from it, for every finite set   *)
(* of threads and every limit of the count of a thin lock.                    *)
(*****************************************************************************)
EXTENDS MonitorControl, FiniteSetTheorems

\* The time the solver has for a step.
USE SMTT(30)

\* Only locking, blocking and waiting on a monitor change who waits or blocks.
LEMMA Uncounted ==
  ASSUME MInv, NEW t \in Threads,
         \/ CallStep(t) \/ InflateStep(t) \/ SuspendStep(t) \/ MoveStep(t)
         \/ ThinStep(t) \/ HashStep(t) \/ InstallStep(t)
  PROVE  in_wait' = in_wait /\ Blocked' = Blocked /\ num_waiters' = num_waiters
<1> DEFINE Same == in_wait' = in_wait /\ Blocked' = Blocked /\ num_waiters' = num_waiters
<1>0. /\ pc \in [Threads -> PCs]
      /\ ret \in [Threads -> {"java", "enter", "try", "wait", "hash"}]
  BY DEF MInv, MonitorInv, MonitorTypeOK
<1> USE <1>0 DEF Goto, monitorVars, waitVars, Blocked
<1>1. ASSUME CallStep(t) PROVE Same
  BY <1>1, CallEffect
<1>2. ASSUME InflateStep(t) PROVE Same
  BY <1>2, InflateMoves
<1>3. ASSUME SuspendStep(t) PROVE Same
  BY <1>3, SuspendEffect DEF SuspendPC
<1>4. ASSUME MoveStep(t) PROVE Same
  BY <1>4, MoveEffect DEF SignalPC, WaitPC
<1>5. ASSUME ThinStep(t) PROVE Same
  BY <1>5 DEF ThinStep, EnterUnlocked, Enters, Entered, StoreCount, StoreExit
<1>6. ASSUME HashStep(t) PROVE Same
  BY <1>6 DEF HashStep, HashUnlocked, HashFat, HashHashed, ReturnHash
<1>7. ASSUME InstallStep(t) PROVE Same
  BY <1>7 DEF InstallStep, Install, InstallFails, AfterInstall, Inflated, InflateFor
<1> HIDE DEF Same
<1>8. QED
  <2>1. Same
    BY <1>1, <1>2, <1>3, <1>4, <1>5, <1>6, <1>7
  <2>2. QED
    BY <2>1 DEF Same

\* Sets of threads are finite, and change by one thread at a time.
LEMMA SizeStep ==
  ASSUME NEW S, S \subseteq Threads, NEW t \in Threads
  PROVE  /\ Cardinality(S) \in Nat
         /\ Cardinality(S) = 0 => S = {}
         /\ t \notin S => Cardinality(S \cup {t}) = Cardinality(S) + 1
         /\ Cardinality(S \ {t}) = Cardinality(S) - (IF t \in S THEN 1 ELSE 0)
<1>1. IsFiniteSet(S)
  BY MonitorAssumption, FS_Subset
<1>2. Cardinality(S) \in Nat /\ (Cardinality(S) = 0 <=> S = {})
  BY <1>1, FS_CardinalityType, FS_EmptySet
<1>3. t \notin S => Cardinality(S \cup {t}) = Cardinality(S) + 1
  BY <1>1, FS_AddElement
<1>4. Cardinality(S \ {t}) = Cardinality(S) - (IF t \in S THEN 1 ELSE 0)
  BY <1>1, <1>2, FS_RemoveElement
<1>5. QED
  BY <1>2, <1>3, <1>4

\* What num_waiters_ and the suspension of all threads are for.
LEMMA DeflateUnused == MInv /\ Deflate => \A t \in Threads : ~UsesMonitor(t)
<1> SUFFICES ASSUME MInv, Deflate, NEW t \in Threads PROVE ~UsesMonitor(t)
  OBVIOUS
<1>1. in_wait \subseteq Threads /\ Blocked \subseteq Threads
  BY DEF MInv, MonitorInv, MonitorTypeOK, Blocked
<1>2. /\ Cardinality(in_wait) \in Nat /\ (Cardinality(in_wait) = 0 => in_wait = {})
      /\ Cardinality(Blocked) \in Nat /\ (Cardinality(Blocked) = 0 => Blocked = {})
  BY <1>1, SizeStep, Zenon
<1>3. in_wait = {} /\ Blocked = {}
  BY <1>2 DEF MInv, MonitorInv, WaitersCounted, Deflate
<1>4. QED
  BY <1>3 DEF MInv, MonitorInv, ControlInv, Deflate, Suspended, UsesMonitor, Blocked, WaitPC, SignalPC

\* Every step keeps the lock's record of the thread inside and of its entries.
LEMMA EntriesKept == MInv /\ [Next]_vars => EntriesRecorded'
<1> SUFFICES ASSUME MInv, MonitorTypeOK, ControlInv, LockInv, EntriesRecorded, [Next]_vars,
                    kThinLockMaxCount \in Nat, None \notin Threads \cup Hashes,
                    depth \in [Threads -> Nat], prev_lock_count \in [Threads -> Nat],
                    lock_count \in Nat, in_wait \subseteq Threads,
                    thin_count \in 0..kThinLockMaxCount, owner \in Threads \cup {None},
                    thin_owner \in Threads \cup {None}, pc \in [Threads -> PCs]
             PROVE  EntriesRecorded'
  BY MonitorAssumption DEF MInv, MonitorInv, MonitorTypeOK
<1> USE DEF EntriesRecorded, Inside, Goto, wordVars, lockVars, monitorVars, waitVars,
            waitOthers, historyVars
<1>1. CASE QuietStep
  BY <1>1, QuietEffect
<1>2. CASE Deflate
  BY <1>2 DEF Deflate, LockInv, UsesMonitor, SignalPC, WaitPC, DeflatedWord
<1>3. ASSUME NEW t \in Threads, HashStep(t) PROVE EntriesRecorded'
  BY <1>3 DEF HashStep, HashUnlocked, HashFat, HashHashed, ReturnHash
<1>4. ASSUME NEW t \in Threads, BlockStep(t) PROVE EntriesRecorded'
  BY <1>4 DEF BlockStep, LockContended, LockSuspended, CountWaiter
<1>5. ASSUME NEW t \in Threads, CallStep(t) PROVE EntriesRecorded'
  BY <1>5, CallEffect
<1>6. ASSUME NEW t \in Threads, ThinStep(t) PROVE EntriesRecorded'
  BY <1>6 DEF ThinStep, EnterUnlocked, StoreCount, StoreExit, ControlInv, WaitPC, SignalPC,
     SuspendPC, LockInv, UsesMonitor, Enters, Entered, MayRun, NewCount
<1>7. ASSUME NEW t \in Threads, InflateStep(t) PROVE EntriesRecorded'
  BY <1>7, InflateMoves
<1>8. ASSUME NEW t \in Threads, SuspendStep(t) PROVE EntriesRecorded'
  BY <1>8, SuspendEffect DEF SuspendPC
<1>9. ASSUME NEW t \in Threads, InstallStep(t) PROVE EntriesRecorded'
  BY <1>9 DEF InstallStep, Install, InstallFails, AfterInstall, Inflated, InflateFor
<1>10. ASSUME NEW t \in Threads, LockStep(t) PROVE EntriesRecorded'
  <2>1. CASE TryLock(t)
    BY <2>1 DEF TryLock, ControlInv, WaitPC, SignalPC, SuspendPC, LockInv, UsesMonitor, Owned,
       Entered
  <2>2. CASE LockRunnable(t)
    BY <2>2 DEF LockRunnable, ControlInv, WaitPC, SignalPC, SuspendPC, LockInv, UsesMonitor,
       Owned
  <2> HIDE DEF EntriesRecorded
  <2>3. QED
    BY <1>10, <2>1, <2>2 DEF LockStep
<1>11. ASSUME NEW t \in Threads, ExitFat(t) PROVE EntriesRecorded'
  BY <1>11 DEF ExitFat, MayRun
<1>12. ASSUME NEW t \in Threads, WaitFat(t) PROVE EntriesRecorded'
  BY <1>12 DEF WaitFat, ControlInv, WaitPC, SignalPC, SuspendPC
<1>13. ASSUME NEW t \in Threads, MoveStep(t) PROVE EntriesRecorded'
  BY <1>13, MoveEffect DEF SignalPC, WaitPC
<1> HIDE DEF EntriesRecorded
<1>14. QED
  BY Steps, <1>1, <1>2, <1>3, <1>4, <1>5, <1>6, <1>7, <1>8, <1>9, <1>10, <1>11, <1>12, <1>13

\* Every step keeps the lock word and the monitor in agreement.
LEMMA LockKept == MInv /\ [Next]_vars => LockInv'
<1> SUFFICES ASSUME MInv, MonitorTypeOK, ControlInv, EntriesRecorded, LockInv, [Next]_vars,
                    kThinLockMaxCount \in Nat, None \notin Threads \cup Hashes,
                    pc \in [Threads -> PCs], inflating \in [Threads -> Threads \cup {None}],
                    ret \in [Threads -> {"java", "enter", "try", "wait", "hash"}],
                    owner \in Threads \cup {None}, thin_owner \in Threads \cup {None}
             PROVE  LockInv'
  BY MonitorAssumption DEF MInv, MonitorInv, MonitorTypeOK
<1> USE DEF LockInv, UsesMonitor, SignalPC, WaitPC, Goto, wordVars, lockVars, monitorVars
<1>1. CASE QuietStep
  BY <1>1, QuietEffect
<1>2. CASE Deflate
  BY <1>2, DeflateUnused DEF Deflate, DeflatedWord
<1>3. ASSUME NEW t \in Threads, HashStep(t) PROVE LockInv'
  BY <1>3 DEF HashStep, HashUnlocked, HashFat, HashHashed, ReturnHash
<1>4. ASSUME NEW t \in Threads, BlockStep(t) PROVE LockInv'
  BY <1>4 DEF BlockStep, LockContended, LockSuspended, CountWaiter
<1>5. ASSUME NEW t \in Threads, CallStep(t) PROVE LockInv'
  BY <1>5, CallEffect
<1>6. ASSUME NEW t \in Threads, ThinStep(t) PROVE LockInv'
  BY <1>6 DEF ThinStep, EnterUnlocked, StoreCount, StoreExit, ControlInv, SuspendPC, Enters,
     Entered, MayRun, NewCount
<1>7. ASSUME NEW t \in Threads, InflateStep(t) PROVE LockInv'
  BY <1>7, InflateEffect
<1>8. ASSUME NEW t \in Threads, SuspendStep(t) PROVE LockInv'
  BY <1>8, SuspendEffect DEF SuspendPC
<1>9. ASSUME NEW t \in Threads, InstallStep(t) PROVE LockInv'
  BY <1>9 DEF InstallStep, Install, InstallFails, AfterInstall, Inflated, InflateFor
<1>10. ASSUME NEW t \in Threads, LockStep(t) PROVE LockInv'
  BY <1>10 DEF LockStep, TryLock, LockRunnable, Owned, Entered
<1>11. ASSUME NEW t \in Threads, ExitFat(t) PROVE LockInv'
  BY <1>11 DEF ExitFat, MayRun
<1>12. ASSUME NEW t \in Threads, WaitFat(t) PROVE LockInv'
  BY <1>12 DEF WaitFat, EntriesRecorded, Inside, ControlInv, SuspendPC
<1>13. ASSUME NEW t \in Threads, MoveStep(t) PROVE LockInv'
  BY <1>13, MoveEffect
<1> HIDE DEF LockInv
<1>14. QED
  BY Steps, <1>1, <1>2, <1>3, <1>4, <1>5, <1>6, <1>7, <1>8, <1>9, <1>10, <1>11, <1>12, <1>13

\* Becoming the owner takes back what the thread has added to num_waiters_.
LEMMA OwnerUncounted ==
  ASSUME MInv, NEW t \in Threads, LockStep(t)
  PROVE  WaitersCounted'
<1> DEFINE w == IF t \in in_wait THEN 1 ELSE 0
           b == IF t \in Blocked THEN 1 ELSE 0
<1>1. in_wait \subseteq Threads /\ Blocked \subseteq Threads /\ pc \in [Threads -> PCs]
  BY DEF MInv, MonitorInv, MonitorTypeOK, Blocked
<1>2. /\ Cardinality(in_wait) \in Nat /\ Cardinality(in_wait \ {t}) = Cardinality(in_wait) - w
      /\ Cardinality(Blocked) \in Nat /\ Cardinality(Blocked \ {t}) = Cardinality(Blocked) - b
  BY <1>1, SizeStep, Zenon
<1>3. num_waiters \in Int /\ num_waiters = Cardinality(in_wait) + Cardinality(Blocked)
  BY <1>2 DEF MInv, MonitorInv, WaitersCounted
<1>4. CASE TryLock(t) /\ owner = t
  <2>1. in_wait' = in_wait /\ Blocked' = Blocked /\ num_waiters' = num_waiters
    BY <1>1, <1>4 DEF TryLock, Entered, Goto, Blocked
  <2>2. QED
    BY <1>3, <2>1 DEF WaitersCounted
<1>5. CASE LockRunnable(t) \/ (TryLock(t) /\ owner # t)
  <2>1. /\ in_wait' = in_wait \ {t} /\ Blocked' = Blocked \ {t}
        /\ num_waiters' = num_waiters - b - w
    <3>1. CASE TryLock(t) /\ owner # t
      BY <1>1, <1>3, <3>1 DEF TryLock, Owned, Goto, Blocked
    <3>2. CASE LockRunnable(t)
      BY <1>1, <1>3, <3>2 DEF LockRunnable, Owned, Goto, Blocked
    <3>3. QED
      BY <1>5, <3>1, <3>2
  <2>2. QED
    BY <1>2, <1>3, <2>1 DEF WaitersCounted
<1>6. QED
  BY <1>4, <1>5 DEF LockStep

\* num_waiters_ stays the number of threads that wait or block.
LEMMA WaitersKept == MInv /\ [Next]_vars => WaitersCounted'
<1> SUFFICES ASSUME MInv, ControlInv, WaitersCounted, [Next]_vars PROVE WaitersCounted'
  BY DEF MInv, MonitorInv
<1> DEFINE Same == in_wait' = in_wait /\ Blocked' = Blocked /\ num_waiters' = num_waiters
<1>0. /\ in_wait \subseteq Threads /\ Blocked \subseteq Threads /\ pc \in [Threads -> PCs]
  BY DEF MInv, MonitorInv, MonitorTypeOK, Blocked
<1> USE DEF Goto, monitorVars, waitVars
<1>1. CASE Same
  BY <1>1 DEF WaitersCounted
<1>2. CASE Deflate \/ QuietStep
  BY <1>1, <1>2, QuietEffect DEF Deflate, Blocked
<1>3. ASSUME NEW t \in Threads, LockStep(t) PROVE WaitersCounted'
  BY <1>3, OwnerUncounted
<1>4. ASSUME NEW t \in Threads, BlockStep(t), ~Same PROVE WaitersCounted'
  <2>1. /\ t \notin Blocked /\ Blocked' = Blocked \cup {t} /\ in_wait' = in_wait
        /\ num_waiters' = num_waiters + 1
    BY <1>0, <1>4 DEF BlockStep, LockContended, LockSuspended, CountWaiter, Blocked
  <2>2. /\ Cardinality(in_wait) \in Nat /\ Cardinality(Blocked) \in Nat
        /\ Cardinality(Blocked \cup {t}) = Cardinality(Blocked) + 1
    BY <1>0, <2>1, SizeStep, Zenon
  <2>3. QED
    BY <2>1, <2>2 DEF WaitersCounted
<1>5. ASSUME NEW t \in Threads, ExitFat(t) \/ WaitFat(t), ~Same PROVE WaitersCounted'
  <2>1. /\ t \notin in_wait /\ in_wait' = in_wait \cup {t} /\ Blocked' = Blocked
        /\ num_waiters' = num_waiters + 1
    BY <1>0, <1>5 DEF ExitFat, WaitFat, ControlInv, WaitPC, SignalPC, Blocked
  <2>2. /\ Cardinality(in_wait) \in Nat /\ Cardinality(Blocked) \in Nat
        /\ Cardinality(in_wait \cup {t}) = Cardinality(in_wait) + 1
    BY <1>0, <2>1, SizeStep, Zenon
  <2>3. QED
    BY <2>1, <2>2 DEF WaitersCounted
<1>6. QED
  BY Steps, <1>1, <1>2, <1>3, <1>4, <1>5, Uncounted

\* Initially nobody has called anything.
LEMMA InitMInv == Init => MInv
<1> SUFFICES ASSUME Init PROVE MInv
  OBVIOUS
<1>1. MonitorTypeOK
  BY MonitorAssumption DEF Init, MonitorTypeOK, LockStates, PCs
<1>2. EntriesRecorded /\ ControlInv /\ SuspendInv /\ LockInv /\ InstallSafe /\ HashStable
  BY MonitorAssumption DEF Init, EntriesRecorded, Inside, ControlInv, SuspendInv, LockInv,
     UsesMonitor, WaitPC, SignalPC, SuspendPC, InstallSafe, HashStable
<1>3. WaitersCounted
  <2>1. in_wait = {} /\ Blocked = {} /\ num_waiters = 0
    BY DEF Init, Blocked
  <2>2. Cardinality({}) = 0
    BY FS_EmptySet
  <2>3. QED
    BY <2>1, <2>2 DEF WaitersCounted
<1>4. QED
  BY <1>1, <1>2, <1>3 DEF MInv, MonitorInv

\* The inductive invariant holds in every reachable state.
LEMMA MInvAlways == Spec => []MInv
<1>1. MInv /\ [Next]_vars => MInv'
  BY TypeKept, ControlKept, SuspendKept, LockKept, EntriesKept, WaitersKept, InstallKept,
     HashKept DEF MInv, MonitorInv
<1>2. QED
  BY <1>1, InitMInv, PTL DEF Spec

\* However threads enter, leave, wait, hash, inflate and deflate, at most one is inside, and
\* the lock word or the monitor (monitor.cc, lock_word.h) records it and its entries;
\* num_waiters_ is the number of those that wait or block.
THEOREM MonitorInvariance == Spec => []MonitorInv
BY MInvAlways, PTL DEF MInv

\* Inflate (monitor.cc) never finds a lock word that it does not expect, because the owner
\* stays suspended from before the word is examined until the monitor is installed.
THEOREM InstallsSafely == Spec => []InstallSafe
BY MInvAlways, PTL DEF MInv

\* IdentityHashCode (mirror/object.cc) always returns the same value for an object.
THEOREM HashCodesStable == Spec => []HashStable
BY MInvAlways, PTL DEF MInv

\* Deflate (monitor.cc) never frees a monitor that a thread uses, blocks on or waits on.
THEOREM NoDeflationInUse == Spec => DeflatedUnused
<1> DEFINE Unused == word = "kFatLocked" /\ word' # "kFatLocked"
                     => \A t \in Threads : ~UsesMonitor(t)
<1>1. MInv /\ [Next]_vars => [Unused]_vars
  <2> SUFFICES ASSUME MInv, [Next]_vars PROVE Unused
    OBVIOUS
  <2> USE DEF wordVars
  <2>1. CASE Deflate
    BY <2>1, DeflateUnused
  <2>2. ASSUME NEW t \in Threads, CallStep(t) \/ InflateStep(t) \/ SuspendStep(t) PROVE Unused
    BY <2>2, CallEffect, InflateEffect, SuspendEffect, Zenon
  <2>3. ASSUME NEW t \in Threads,
               LockStep(t) \/ BlockStep(t) \/ ExitFat(t) \/ WaitFat(t) \/ MoveStep(t)
        PROVE  Unused
    BY <2>3, MonitorEffect, Zenon
  <2>4. ASSUME NEW t \in Threads, ThinStep(t) PROVE Unused
    BY <2>4, Zenon DEF ThinStep, EnterUnlocked, StoreCount, StoreExit, MInv, MonitorInv, ControlInv
  <2>5. ASSUME NEW t \in Threads, InstallStep(t) \/ HashStep(t) PROVE Unused
    BY <2>5, Zenon DEF InstallStep, Install, InstallFails, HashStep, HashUnlocked, HashFat, HashHashed
  <2>6. CASE QuietStep
    BY <2>6, QuietEffect
  <2>7. QED
    BY Steps, <2>1, <2>2, <2>3, <2>4, <2>5, <2>6
<1>2. QED
  BY <1>1, MInvAlways, PTL DEF Spec, DeflatedUnused

\* While nobody is recorded in the lock word or in the monitor, nobody is inside.
LEMMA NobodyInside ==
  ASSUME MInv, word # "kThinLocked", owner = None
  PROVE  Promise!Free
BY MonitorAssumption DEF MInv, MonitorInv, EntriesRecorded, Inside, MonitorTypeOK, Promise!Free,
   Entries

\* A step of one thread changes only its own entries.
LEMMA OwnEntries ==
  ASSUME NEW t \in Threads,
         \A u \in Threads \ {t} : depth'[u] = depth[u] /\ (u \in in_wait' <=> u \in in_wait)
  PROVE  /\ Entries' = [Entries EXCEPT ![t] = Entries'[t]]
         /\ SavedEntries' = [SavedEntries EXCEPT ![t] = SavedEntries'[t]]
<1>1. \A u \in Threads \ {t} : Entries'[u] = Entries[u] /\ SavedEntries'[u] = SavedEntries[u]
  BY DEF Entries, SavedEntries
<1>2. /\ Entries = [u \in Threads |-> Entries[u]] /\ Entries' = [u \in Threads |-> Entries'[u]]
      /\ SavedEntries = [u \in Threads |-> SavedEntries[u]]
      /\ SavedEntries' = [u \in Threads |-> SavedEntries'[u]]
  BY DEF Entries, SavedEntries
<1>3. QED
  BY <1>1, <1>2

\* What each step is to ReentrantLock: the stores to the lock word and to the owner and the
\* count of the monitor are its steps, and inflation, deflation and all the rest are none.
LEMMA PromiseStep ==
  MInv /\ [Next]_vars => Promise!PromiseNext \/ UNCHANGED <<Entries, SavedEntries>>
<1> DEFINE Same == UNCHANGED <<Entries, SavedEntries>>
<1> SUFFICES ASSUME MInv, ControlInv, LockInv, EntriesRecorded, [Next]_vars,
                    None \notin Threads \cup Hashes, depth \in [Threads -> Nat],
                    in_wait \subseteq Threads, owner \in Threads \cup {None},
                    thin_owner \in Threads \cup {None}, lock_count \in Nat,
                    thin_count \in 0..kThinLockMaxCount, kThinLockMaxCount \in Nat
             PROVE  Promise!PromiseNext \/ Same
  BY MonitorAssumption DEF MInv, MonitorInv, MonitorTypeOK
<1>0. ASSUME UNCHANGED <<depth, in_wait>> PROVE Same
  BY <1>0, Zenon DEF Entries, SavedEntries
<1> USE DEF historyVars
<1>1. CASE QuietStep \/ Deflate
  BY <1>0, <1>1, QuietEffect, Zenon DEF Deflate, waitVars
<1>2. ASSUME NEW t \in Threads,
             CallStep(t) \/ InflateStep(t) \/ SuspendStep(t) \/ MoveStep(t)
      PROVE  Same
  BY <1>0, <1>2, CallEffect, InflateEffect, SuspendEffect, MoveEffect, Zenon
<1>3. ASSUME NEW t \in Threads, InstallStep(t) \/ HashStep(t) \/ BlockStep(t) PROVE Same
  BY <1>0, <1>3, Zenon DEF InstallStep, Install, InstallFails, HashStep, HashUnlocked, HashFat,
     HashHashed, ReturnHash, BlockStep, LockContended, LockSuspended, waitVars
<1>4. ASSUME NEW t \in Threads, t \notin in_wait, in_wait' = in_wait,
             depth' = [depth EXCEPT ![t] = @ + 1], Promise!Free \/ depth[t] > 0
      PROVE  Promise!Enter(t) \/ Promise!EnterAgain(t)
  <2>1. Entries' = [Entries EXCEPT ![t] = Entries'[t]]
    BY <1>4, OwnEntries
  <2>2. SavedEntries' = SavedEntries /\ SavedEntries[t] = 0
    BY <1>4 DEF SavedEntries
  <2>3. Entries[t] = depth[t] /\ Entries'[t] = depth[t] + 1
    BY <1>4 DEF Entries
  <2>4. Entries[t] = 0 => Entries'[t] = 1
    BY <2>3
  <2>5. CASE Promise!Free
    BY <2>1, <2>2, <2>4, <2>5, Zenon DEF Promise!Enter, Promise!Free
  <2>6. CASE depth[t] > 0
    BY <2>1, <2>2, <2>3, <2>6, Zenon DEF Promise!EnterAgain
  <2>7. QED
    BY <1>4, <2>5, <2>6, Zenon
<1>5. ASSUME NEW t \in Threads, t \notin in_wait, in_wait' = in_wait,
             depth' = [depth EXCEPT ![t] = @ - 1], depth[t] > 0
      PROVE  Promise!Leave(t)
  <2>1. Entries' = [Entries EXCEPT ![t] = Entries'[t]]
    BY <1>5, OwnEntries
  <2>2. SavedEntries' = SavedEntries
    BY <1>5 DEF SavedEntries
  <2>3. Entries[t] = depth[t] /\ Entries'[t] = depth[t] - 1
    BY <1>5 DEF Entries
  <2>4. QED
    BY <1>5, <2>1, <2>2, <2>3, Zenon DEF Promise!Leave
<1>6. ASSUME NEW t \in Threads, ThinStep(t)
      PROVE  Promise!Enter(t) \/ Promise!EnterAgain(t) \/ Promise!Leave(t)
  <2>1. t \notin in_wait /\ in_wait' = in_wait
    BY <1>6, Zenon DEF ThinStep, EnterUnlocked, StoreCount, StoreExit, Enters, ControlInv, WaitPC,
       SignalPC, waitVars
  <2>2. CASE EnterUnlocked(t)
    <3>1. owner = None /\ word # "kThinLocked"
      BY <2>2, Zenon DEF EnterUnlocked, EntriesRecorded, Inside
    <3>2. QED
      BY <1>4, <2>1, <2>2, <3>1, NobodyInside, Zenon DEF EnterUnlocked, Entered
  <2>3. CASE StoreCount(t)
    <3>1. depth[t] > 0
      BY <2>3, Zenon DEF StoreCount, ControlInv, EntriesRecorded, Inside
    <3>2. QED
      BY <1>4, <2>1, <2>3, <3>1, Zenon DEF StoreCount, Entered
  <2>4. CASE StoreExit(t)
    <3>1. depth[t] > 0
      BY <2>4, Zenon DEF StoreExit, ControlInv, EntriesRecorded, Inside
    <3>2. QED
      BY <1>5, <2>1, <2>4, <3>1, Zenon DEF StoreExit
  <2>5. QED
    BY <1>6, <2>2, <2>3, <2>4, Zenon DEF ThinStep
<1>7. ASSUME NEW t \in Threads, LockStep(t)
      PROVE  Promise!Enter(t) \/ Promise!EnterAgain(t) \/ Promise!Return(t)
  <2>1. CASE owner = t
    <3>1. t \notin in_wait /\ depth[t] > 0 /\ pc[t] # "locked"
      BY <2>1, Zenon DEF EntriesRecorded, Inside, LockInv
    <3>2. in_wait' = in_wait /\ depth' = [depth EXCEPT ![t] = @ + 1]
      BY <1>7, <2>1, <3>1, Zenon DEF LockStep, TryLock, LockRunnable, Entered
    <3>3. QED
      BY <1>4, <3>1, <3>2, Zenon
  <2>2. CASE owner # t
    <3>1. owner = None /\ word = "kFatLocked"
      BY <1>7, <2>2 DEF LockStep, TryLock, LockRunnable, LockInv, UsesMonitor
    <3>2. Promise!Free
      BY <3>1, NobodyInside
    <3>3. \E n \in {0, 1} : Owned(t, n)
      BY <1>7, <2>2, Zenon DEF LockStep, TryLock, LockRunnable
    <3>4. CASE t \in in_wait
      <4>1. in_wait' = in_wait \ {t} /\ depth' = depth /\ depth[t] > 0
        BY <3>3, <3>4 DEF Owned, ControlInv, MInv, MonitorInv, MonitorTypeOK
      <4>2. Promise!Return(t)
        <5>1. /\ Entries' = [Entries EXCEPT ![t] = Entries'[t]]
              /\ SavedEntries' = [SavedEntries EXCEPT ![t] = SavedEntries'[t]]
          BY <4>1, OwnEntries
        <5>2. SavedEntries[t] = depth[t] /\ Entries'[t] = depth[t] /\ SavedEntries'[t] = 0
          BY <3>4, <4>1 DEF Entries, SavedEntries
        <5>3. QED
          BY <3>2, <4>1, <5>1, <5>2, Zenon DEF Promise!Return
      <4>3. QED
        BY <4>2
    <3>5. CASE t \notin in_wait
      <4>1. depth' = [depth EXCEPT ![t] = @ + 1] /\ in_wait' = in_wait
        BY <3>3, <3>5, Zenon DEF Owned
      <4>2. QED
        BY <1>4, <3>2, <3>5, <4>1, Zenon
    <3>6. QED
      BY <3>4, <3>5
  <2>3. QED
    BY <2>1, <2>2
<1>8. ASSUME NEW t \in Threads, ExitFat(t) PROVE Promise!Leave(t)
  <2>1. t \notin in_wait /\ depth[t] > 0
    BY <1>8, Zenon DEF ExitFat, EntriesRecorded, Inside
  <2>2. QED
    BY <1>5, <1>8, <2>1, Zenon DEF ExitFat, waitVars
<1>9. ASSUME NEW t \in Threads, WaitFat(t) PROVE Promise!Wait(t)
  <2>1. t \notin in_wait /\ depth[t] > 0
    BY <1>9, Zenon DEF WaitFat, ControlInv, WaitPC, SignalPC
  <2>2. in_wait' = in_wait \cup {t} /\ depth' = depth
    BY <1>9, Zenon DEF WaitFat
  <2>3. QED
    <3>1. /\ Entries' = [Entries EXCEPT ![t] = Entries'[t]]
          /\ SavedEntries' = [SavedEntries EXCEPT ![t] = SavedEntries'[t]]
      BY <2>2, OwnEntries
    <3>2. Entries[t] = depth[t] /\ Entries'[t] = 0 /\ SavedEntries'[t] = depth[t]
      BY <2>1, <2>2 DEF Entries, SavedEntries
    <3>3. QED
      BY <2>1, <3>1, <3>2, Zenon DEF Promise!Wait
<1> HIDE DEF Same
<1>10. QED
  BY Steps, <1>1, <1>2, <1>3, <1>6, <1>7, <1>8, <1>9, Zenon DEF Promise!PromiseNext

\* The lock of an object (monitor.cc) does what ReentrantLock promises, through inflation,
\* deflation and Wait, for any number of threads and any limit of the thin count.
THEOREM MonitorImplementsLock == Spec => LockPromiseKept
<1>1. Init => Promise!PromiseInit
  BY DEF Init, Promise!PromiseInit, Entries, SavedEntries
<1>2. MInv /\ [Next]_vars => [Promise!PromiseNext]_(Promise!promiseVars)
  BY PromiseStep DEF Promise!promiseVars
<1>3. QED
  BY <1>1, <1>2, MInvAlways, PTL DEF Spec, LockPromiseKept, Promise!PromiseSpec

===============================================================================
