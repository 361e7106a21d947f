----------------------------- MODULE MonitorControl ----------------------------
(*****************************************************************************)
(* The steps of Monitor by what they do to its invariant, and the parts of it *)
(* that take no counting: control, suspension, inflation and hash codes.      *)
(*****************************************************************************)
EXTENDS Monitor, TLAPS

\* The time the solver has for a step.
USE SMTT(30)

\* A call begins, or goes on without changing anything but pc.
CallStep(t) ==
  \/ \E trylock \in BOOLEAN : MonitorEnter(t, trylock)
  \/ EnterFat(t)
  \/ ExitThin(t)
  \/ Wait(t)
  \/ IdentityHashCode(t)
  \/ EnterAgain(t) /\ NewCount <= kThinLockMaxCount
  \/ EnterContended(t) /\ pc[t] = "try"

\* The thin lock is taken, counted or released.
ThinStep(t) == EnterUnlocked(t) \/ StoreCount(t) \/ StoreExit(t)

\* Finds that the lock has to be inflated.
InflateStep(t) ==
  \/ EnterAgain(t) /\ ~(NewCount <= kThinLockMaxCount)
  \/ EnterContended(t) /\ pc[t] # "try"
  \/ EnterHashed(t)
  \/ WaitThin(t)
  \/ HashThin(t)

\* Suspends the owner of the thin lock, examines the word, or resumes the owner.
SuspendStep(t) == SuspendOwner(t) \/ SuspendFails(t) \/ CheckOwner(t) \/ ResumeOwner(t)

\* Publishes a monitor, or finds that another thread has.
InstallStep(t) == Install(t) \/ InstallFails(t)

\* Becomes the owner of the monitor.
LockStep(t) == TryLock(t) \/ LockRunnable(t)

\* Finds the monitor locked, and blocks.
BlockStep(t) == LockContended(t) \/ LockSuspended(t)

\* Signals a waiter and releases the mutex of the monitor, or moves through Wait.
MoveStep(t) ==
  \/ SignalNobody(t)
  \/ SignalNext(t)
  \/ SignalMutex(t)
  \/ SignalCond(t)
  \/ WaitMutex(t)
  \/ WaitCheck(t)
  \/ Awake(t)
  \/ WaitOut(t)

\* Returns a hash code.
HashStep(t) == HashUnlocked(t) \/ HashFat(t) \/ HashHashed(t)

\* Leaves alone everything that the invariant is about.
QuietStep ==
  \/ UNCHANGED vars
  \/ \E t \in Threads : \/ TimeOut(t) \/ Notify(t) \/ NotifyAll(t)
                         \/ \E u \in Threads : Interrupt(t, u)

\* The steps by what they do to the invariant.
LEMMA Steps ==
  [Next]_vars =>
    \/ Deflate \/ QuietStep
    \/ \E t \in Threads :
         \/ CallStep(t) \/ ThinStep(t) \/ InflateStep(t) \/ SuspendStep(t) \/ InstallStep(t)
         \/ LockStep(t) \/ BlockStep(t) \/ ExitFat(t) \/ WaitFat(t) \/ MoveStep(t) \/ HashStep(t)
BY DEF Next, Call, Exit, Proceed, Chance, CallStep, ThinStep, InflateStep, SuspendStep,
       InstallStep, LockStep, BlockStep, MoveStep, HashStep, QuietStep

\* The inductive invariant.
MInv == MonitorInv /\ InstallSafe /\ HashStable

\* To decide to inflate is to remember for whom, with which hash code and where to go on.
LEMMA InflateEffect ==
  ASSUME MInv, NEW t \in Threads, InflateStep(t)
  PROVE  /\ pc[t] \in {"enter", "try", "wait", "hash"} /\ suspenders[t] = {}
         /\ inflating' = [inflating EXCEPT ![t] = thin_owner]
         /\ new_hash' \in [Threads -> Hashes \cup {None}]
         /\ new_hash' = [new_hash EXCEPT ![t] = new_hash'[t]]
         /\ pc' = [pc EXCEPT ![t] = IF thin_owner \in {t, None} THEN "install" ELSE "inf_suspend"]
         /\ ret' = [ret EXCEPT ![t] = pc[t]]
         /\ IF thin_owner = None THEN word = "kHashCode" /\ new_hash'[t] = word_hash
                                 ELSE word = "kThinLocked"
         /\ UNCHANGED <<wordVars, monitorVars, prev_lock_count, in_wait, suspenders, historyVars>>
<1> USE MonitorAssumption DEF InflateThinLocked, InflateFor, Goto, MayRun, Enters, wordVars,
                              monitorVars, lockVars, waitVars, historyVars
<1>0. MonitorTypeOK /\ LockInv /\ SuspendInv
  BY DEF MInv, MonitorInv
<1>1. CASE EnterAgain(t) /\ ~(NewCount <= kThinLockMaxCount)
  BY <1>0, <1>1 DEF EnterAgain, MonitorTypeOK, LockInv
<1>2. CASE EnterContended(t) /\ pc[t] # "try"
  BY <1>0, <1>2 DEF EnterContended, MonitorTypeOK, LockInv
<1>3. CASE EnterHashed(t)
  BY <1>0, <1>3, Zenon DEF EnterHashed, MonitorTypeOK, LockInv
<1>4. CASE WaitThin(t) \/ HashThin(t)
  <2>1. suspenders[t] = {}
    BY <1>0, <1>4, Zenon DEF WaitThin, HashThin, SuspendInv, Suspended, SignalPC
  <2>2. QED
    BY <1>0, <1>4, <2>1 DEF WaitThin, HashThin, MonitorTypeOK, LockInv
<1>5. QED
  BY <1>1, <1>2, <1>3, <1>4 DEF InflateStep

\* The part of that which most of the invariant is about.
LEMMA InflateMoves ==
  ASSUME MInv, NEW t \in Threads, InflateStep(t)
  PROVE  /\ pc[t] \in {"enter", "try", "wait", "hash"} /\ suspenders[t] = {}
         /\ inflating' = [inflating EXCEPT ![t] = thin_owner]
         /\ pc' = [pc EXCEPT ![t] = IF thin_owner \in {t, None} THEN "install" ELSE "inf_suspend"]
         /\ ret' = [ret EXCEPT ![t] = pc[t]]
         /\ UNCHANGED <<wordVars, monitorVars, prev_lock_count, in_wait, suspenders, historyVars>>
BY InflateEffect

\* What a step that only moves pc leads to.
LEMMA CallEffect ==
  ASSUME MInv, NEW t \in Threads, CallStep(t)
  PROVE  /\ pc[t] \in {"java", "enter", "try"} /\ suspenders[t] = {}
         /\ pc' = [pc EXCEPT ![t] = pc'[t]]
         /\ \/ pc'[t] \in {"java", "enter", "try", "hash"}
            \/ pc'[t] = "wait" /\ depth[t] > 0
            \/ pc'[t] \in {"lock", "trylock"} /\ word = "kFatLocked"
            \/ pc'[t] = "exit" /\ word = "kThinLocked" /\ thin_owner = t
            \/ /\ pc'[t] = "again" /\ word = "kThinLocked" /\ thin_owner = t
               /\ thin_count < kThinLockMaxCount
         /\ UNCHANGED <<wordVars, monitorVars, prev_lock_count, in_wait, inflateVars, historyVars>>
<1>0. pc \in [Threads -> PCs]
  BY DEF MInv, MonitorInv, MonitorTypeOK
<1> USE <1>0 DEF Goto, MayRun, Enters, waitVars
<1>1. CASE (\E trylock \in BOOLEAN : MonitorEnter(t, trylock)) \/ EnterFat(t) \/ ExitThin(t)
  BY <1>1 DEF MonitorEnter, EnterFat, ExitThin
<1>2. CASE Wait(t) \/ IdentityHashCode(t) \/ (EnterContended(t) /\ pc[t] = "try")
  BY <1>2 DEF Wait, IdentityHashCode, EnterContended
<1>3. CASE EnterAgain(t) /\ NewCount <= kThinLockMaxCount
  BY <1>3, MonitorAssumption DEF EnterAgain, NewCount, MInv, MonitorInv, MonitorTypeOK
<1>4. QED
  BY <1>1, <1>2, <1>3 DEF CallStep

\* Otherwise nothing happens, or a notification, a timeout or an interrupt moves threads
\* between the sets of waiters, which the invariant leaves out.
LEMMA QuietEffect ==
  QuietStep => UNCHANGED <<wordVars, lockVars, num_waiters, hash_code, prev_lock_count, in_wait,
                           inflateVars, pc, historyVars>>
BY DEF QuietStep, TimeOut, Interrupt, Notify, NotifyAll, monitorVars, waitVars, vars

\* Signalling and waiting change who holds the mutex of the monitor and no more.
LEMMA MoveEffect ==
  ASSUME MInv, NEW t \in Threads, MoveStep(t)
  PROVE  /\ pc[t] \in SignalPC \cup WaitPC
         /\ pc' = [pc EXCEPT ![t] = pc'[t]]
         /\ pc'[t] \in SignalPC \cup {"w_check", "w_asleep", "w_out", "lock", "java"}
         /\ pc'[t] \notin SignalPC => (t \in in_wait <=> pc'[t] # "java")
         /\ pc'[t] = "lock" => suspenders[t] = {}
         /\ IF pc'[t] \in {"signal", "signal_mutex"}
              THEN pc[t] \in {"signal", "signal_mutex", "w_mutex"} /\ UNCHANGED monitor_lock
              ELSE monitor_lock' = IF pc[t] \in {"signal", "signal_mutex", "w_mutex"}
                                     THEN None ELSE monitor_lock
         /\ UNCHANGED <<wordVars, owner, lock_count, num_waiters, hash_code, prev_lock_count,
                        in_wait, inflateVars, historyVars>>
<1>0. ControlInv /\ pc \in [Threads -> PCs]
  BY DEF MInv, MonitorInv, MonitorTypeOK
<1> USE <1>0 DEF Goto, MayRun, SignalPC, WaitPC, monitorVars, lockVars, waitVars
<1>1. CASE SignalNobody(t) \/ SignalCond(t)
  BY <1>1 DEF SignalNobody, SignalCond, AfterSignal
<1>2. CASE SignalNext(t) \/ SignalMutex(t)
  BY <1>2 DEF SignalNext, SignalMutex
<1>3. CASE WaitMutex(t) \/ WaitCheck(t)
  BY <1>3 DEF WaitMutex, WaitCheck, ControlInv
<1>4. CASE Awake(t) \/ WaitOut(t)
  BY <1>4 DEF Awake, WaitOut, ControlInv
<1>5. QED
  BY <1>1, <1>2, <1>3, <1>4 DEF MoveStep

\* Around the suspension of the owner the lock stays as it is, and a monitor is to be
\* installed only if the thread that is suspended still has the lock.
LEMMA SuspendEffect ==
  ASSUME MInv, NEW t \in Threads, SuspendStep(t)
  PROVE  /\ pc[t] \in {"inf_suspend", "inf_suspended", "inf_resume"}
         /\ pc' = [pc EXCEPT ![t] = pc'[t]]
         /\ pc'[t] \in SuspendPC \cup {"java", "enter", "try", "wait", "hash"}
         /\ pc'[t] = "install" => StillOwner(t) /\ UNCHANGED <<inflating, new_hash>>
         /\ pc'[t] # "install" => \A u \in Threads \ {t} : /\ inflating'[u] = inflating[u]
                                                           /\ new_hash'[u] = new_hash[u]
         /\ UNCHANGED <<wordVars, monitorVars, prev_lock_count, in_wait, historyVars>>
<1>0. MonitorTypeOK
  BY DEF MInv, MonitorInv
<1> USE <1>0 DEF MonitorTypeOK, SuspendPC, Goto, waitVars, inflateVars
<1>1. CASE SuspendOwner(t) \/ CheckOwner(t)
  BY <1>1 DEF SuspendOwner, CheckOwner
<1>2. CASE SuspendFails(t) \/ ResumeOwner(t)
  BY <1>2 DEF SuspendFails, ResumeOwner, Inflated, InflateFor
<1>3. QED
  BY <1>1, <1>2 DEF SuspendStep

\* In a monitor the lock word, the hash code and inflation are left alone.
LEMMA MonitorEffect ==
  ASSUME MInv, NEW t \in Threads,
         LockStep(t) \/ BlockStep(t) \/ ExitFat(t) \/ WaitFat(t) \/ MoveStep(t)
  PROVE  /\ pc'[t] # "install" /\ pc' = [pc EXCEPT ![t] = pc'[t]]
         /\ UNCHANGED <<wordVars, hash_code, inflateVars, returned>>
<1>0. pc \in [Threads -> PCs]
  BY DEF MInv, MonitorInv, MonitorTypeOK
<1> USE <1>0 DEF Goto, historyVars
<1>1. CASE LockStep(t)
  BY <1>1 DEF LockStep, TryLock, LockRunnable, Owned, Entered
<1>2. CASE BlockStep(t) \/ ExitFat(t) \/ WaitFat(t)
  BY <1>2 DEF BlockStep, LockContended, LockSuspended, ExitFat, WaitFat
<1>3. CASE MoveStep(t)
  BY <1>3, MoveEffect DEF SignalPC, WaitPC
<1>4. QED
  BY <1>1, <1>2, <1>3

\* No step takes the lock from a thread for which it is about to be inflated.
LEMMA InstallKept == MInv /\ [Next]_vars => InstallSafe'
<1> SUFFICES ASSUME MInv, MonitorTypeOK, ControlInv, SuspendInv, InstallSafe, [Next]_vars,
                    kThinLockMaxCount \in Nat, None \notin Threads \cup Hashes,
                    pc \in [Threads -> PCs], inflating \in [Threads -> Threads \cup {None}],
                    new_hash \in [Threads -> Hashes \cup {None}],
                    ret \in [Threads -> {"java", "enter", "try", "wait", "hash"}]
             PROVE  InstallSafe'
  BY MonitorAssumption DEF MInv, MonitorInv, MonitorTypeOK
<1> USE DEF InstallSafe, Goto, wordVars, inflateVars
<1>1. CASE QuietStep
  BY <1>1, QuietEffect
<1>2. CASE Deflate
  BY <1>2 DEF Deflate, SuspendInv, Suspended, SuspendPC, SignalPC, MayRun, DeflatedWord
<1>3. ASSUME NEW t \in Threads, HashStep(t) PROVE InstallSafe'
  BY <1>3 DEF HashStep, HashUnlocked, HashFat, HashHashed, ReturnHash
<1>4. ASSUME NEW t \in Threads, CallStep(t) PROVE InstallSafe'
  BY <1>4, CallEffect
<1>5. ASSUME NEW t \in Threads, ThinStep(t) PROVE InstallSafe'
  BY <1>5 DEF ThinStep, EnterUnlocked, StoreCount, StoreExit, ControlInv, WaitPC, SignalPC,
     SuspendPC, SuspendInv, Suspended, MayRun, Enters, Entered, NewCount
<1>6. ASSUME NEW t \in Threads, InflateStep(t) PROVE InstallSafe'
  BY <1>6, InflateEffect
<1>7. ASSUME NEW t \in Threads, SuspendStep(t) PROVE InstallSafe'
  BY <1>7, SuspendEffect DEF SuspendPC, StillOwner
<1>8. ASSUME NEW t \in Threads, InstallStep(t) PROVE InstallSafe'
  BY <1>8 DEF InstallStep, Install, InstallFails, AfterInstall, Inflated, InflateFor
<1>9. ASSUME NEW t \in Threads,
             LockStep(t) \/ BlockStep(t) \/ ExitFat(t) \/ WaitFat(t) \/ MoveStep(t)
      PROVE  InstallSafe'
  BY <1>9, MonitorEffect
<1> HIDE DEF InstallSafe
<1>10. QED
  BY Steps, <1>1, <1>2, <1>3, <1>4, <1>5, <1>6, <1>7, <1>8, <1>9

\* Every step keeps what the points of the calls imply.
LEMMA ControlKept == MInv /\ [Next]_vars => ControlInv'
<1> SUFFICES ASSUME MInv, MonitorTypeOK, EntriesRecorded, SuspendInv, ControlInv, [Next]_vars,
                    kThinLockMaxCount \in Nat, None \notin Threads \cup Hashes,
                    pc \in [Threads -> PCs], depth \in [Threads -> Nat],
                    prev_lock_count \in [Threads -> Nat], lock_count \in Nat,
                    inflating \in [Threads -> Threads \cup {None}],
                    ret \in [Threads -> {"java", "enter", "try", "wait", "hash"}],
                    in_wait \subseteq Threads, thin_owner \in Threads \cup {None},
                    thin_count \in 0..kThinLockMaxCount
             PROVE  ControlInv'
  BY MonitorAssumption DEF MInv, MonitorInv, MonitorTypeOK
<1> USE DEF ControlInv, WaitPC, SignalPC, SuspendPC, Goto, wordVars, monitorVars, lockVars,
            waitVars, waitOthers, inflateVars, historyVars
<1>1. CASE QuietStep
  BY <1>1, QuietEffect
<1>2. CASE Deflate
  BY <1>2 DEF Deflate, DeflatedWord
<1>3. ASSUME NEW t \in Threads, HashStep(t) PROVE ControlInv'
  BY <1>3 DEF HashStep, HashUnlocked, HashFat, HashHashed, ReturnHash
<1>4. ASSUME NEW t \in Threads, BlockStep(t) PROVE ControlInv'
  BY <1>4 DEF BlockStep, LockContended, LockSuspended, CountWaiter
<1>5. ASSUME NEW t \in Threads, CallStep(t) PROVE ControlInv'
  BY <1>5, CallEffect
<1>6. ASSUME NEW t \in Threads, ThinStep(t) PROVE ControlInv'
  <2>1. CASE EnterUnlocked(t)
    BY <2>1 DEF EnterUnlocked, Enters, Entered, MayRun
  <2>2. CASE StoreCount(t)
    BY <2>2 DEF StoreCount, Entered, NewCount
  <2>3. CASE StoreExit(t)
    BY <2>3 DEF StoreExit
  <2> HIDE DEF ControlInv
  <2>4. QED
    BY <1>6, <2>1, <2>2, <2>3 DEF ThinStep
<1>7. ASSUME NEW t \in Threads, InflateStep(t) PROVE ControlInv'
  BY <1>7, InflateMoves
<1>8. ASSUME NEW t \in Threads, SuspendStep(t) PROVE ControlInv'
  BY <1>8 DEF SuspendStep, SuspendOwner, SuspendFails, CheckOwner, ResumeOwner, Suspended,
     Inflated, InflateFor, StillOwner
<1>9. ASSUME NEW t \in Threads, InstallStep(t) PROVE ControlInv'
  BY <1>9 DEF InstallStep, Install, InstallFails, SuspendInv, Suspended, MayRun, AfterInstall,
     Inflated, InflateFor
<1>10. ASSUME NEW t \in Threads, LockStep(t) PROVE ControlInv'
  BY <1>10 DEF LockStep, TryLock, LockRunnable, EntriesRecorded, Inside, Owned, Entered
<1>11. ASSUME NEW t \in Threads, ExitFat(t) PROVE ControlInv'
  BY <1>11 DEF ExitFat, MayRun
<1>12. ASSUME NEW t \in Threads, WaitFat(t) PROVE ControlInv'
  BY <1>12 DEF WaitFat, EntriesRecorded, Inside
<1>13. ASSUME NEW t \in Threads, MoveStep(t) PROVE ControlInv'
  BY <1>13, MoveEffect
<1> HIDE DEF ControlInv
<1>14. QED
  BY Steps, <1>1, <1>2, <1>3, <1>4, <1>5, <1>6, <1>7, <1>8, <1>9, <1>10, <1>11, <1>12, <1>13

\* Every step keeps the record of who is suspended by whom.
LEMMA SuspendKept == MInv /\ [Next]_vars => SuspendInv'
<1> SUFFICES ASSUME MInv, MonitorTypeOK, ControlInv, SuspendInv, [Next]_vars,
                    kThinLockMaxCount \in Nat, None \notin Threads \cup Hashes,
                    pc \in [Threads -> PCs], suspenders \in [Threads -> SUBSET Threads],
                    inflating \in [Threads -> Threads \cup {None}],
                    ret \in [Threads -> {"java", "enter", "try", "wait", "hash"}],
                    in_wait \subseteq Threads
             PROVE  SuspendInv'
  BY MonitorAssumption DEF MInv, MonitorInv, MonitorTypeOK
<1> USE DEF SuspendInv, Suspended, SuspendPC, SignalPC, MayRun, Goto, waitVars, waitOthers,
            inflateVars
<1>1. CASE QuietStep
  BY <1>1, QuietEffect
<1>2. CASE Deflate
  BY <1>2 DEF Deflate, DeflatedWord
<1>3. ASSUME NEW t \in Threads, HashStep(t) PROVE SuspendInv'
  BY <1>3 DEF HashStep, HashUnlocked, HashFat, HashHashed, ReturnHash
<1>4. ASSUME NEW t \in Threads, BlockStep(t) PROVE SuspendInv'
  BY <1>4 DEF BlockStep, LockContended, LockSuspended, CountWaiter
<1>5. ASSUME NEW t \in Threads, CallStep(t) PROVE SuspendInv'
  BY <1>5, CallEffect
<1>6. ASSUME NEW t \in Threads, ThinStep(t) PROVE SuspendInv'
  BY <1>6 DEF ThinStep, EnterUnlocked, StoreCount, StoreExit, Enters, Entered, NewCount
<1>7. ASSUME NEW t \in Threads, InflateStep(t) PROVE SuspendInv'
  BY <1>7, InflateMoves
<1>8. ASSUME NEW t \in Threads, SuspendStep(t) PROVE SuspendInv'
  BY <1>8 DEF SuspendStep, SuspendOwner, SuspendFails, CheckOwner, ResumeOwner, ControlInv,
     WaitPC, Inflated, InflateFor, StillOwner
<1>9. ASSUME NEW t \in Threads, InstallStep(t) PROVE SuspendInv'
  BY <1>9 DEF InstallStep, Install, InstallFails, AfterInstall, Inflated, InflateFor
<1>10. ASSUME NEW t \in Threads, LockStep(t) PROVE SuspendInv'
  BY <1>10 DEF LockStep, TryLock, LockRunnable, Owned, Entered
<1>11. ASSUME NEW t \in Threads, ExitFat(t) PROVE SuspendInv'
  BY <1>11 DEF ExitFat
<1>12. ASSUME NEW t \in Threads, WaitFat(t) PROVE SuspendInv'
  BY <1>12 DEF WaitFat
<1>13. ASSUME NEW t \in Threads, MoveStep(t) PROVE SuspendInv'
  BY <1>13, MoveEffect DEF ControlInv, WaitPC
<1> HIDE DEF SuspendInv
<1>14. QED
  BY Steps, <1>1, <1>2, <1>3, <1>4, <1>5, <1>6, <1>7, <1>8, <1>9, <1>10, <1>11, <1>12, <1>13

\* Every step keeps the types.
LEMMA TypeKept == MInv /\ [Next]_vars => MonitorTypeOK'
<1> SUFFICES ASSUME MInv, MonitorTypeOK, ControlInv, EntriesRecorded, LockInv, [Next]_vars,
                    kThinLockMaxCount \in Nat, None \notin Threads \cup Hashes
             PROVE  MonitorTypeOK'
  BY MonitorAssumption DEF MInv, MonitorInv
<1> USE DEF MonitorTypeOK, PCs, LockStates, WaitPC, SignalPC, SuspendPC, Goto, wordVars,
            lockVars, monitorVars, waitVars, waitOthers, inflateVars, historyVars
<1>1. CASE QuietStep
  BY <1>1, QuietEffect
<1>2. CASE Deflate
  BY <1>2 DEF Deflate, DeflatedWord
<1>3. ASSUME NEW t \in Threads, HashStep(t) PROVE MonitorTypeOK'
  BY <1>3 DEF HashStep, HashUnlocked, HashFat, HashHashed, LockInv, UsesMonitor, ReturnHash
<1>4. ASSUME NEW t \in Threads, BlockStep(t) PROVE MonitorTypeOK'
  BY <1>4 DEF BlockStep, LockContended, LockSuspended, CountWaiter
<1>5. ASSUME NEW t \in Threads, CallStep(t) PROVE MonitorTypeOK'
  BY <1>5, CallEffect
<1>6. ASSUME NEW t \in Threads, ThinStep(t) PROVE MonitorTypeOK'
  BY <1>6 DEF ThinStep, EnterUnlocked, StoreCount, StoreExit, ControlInv, EntriesRecorded,
     Inside, Enters, Entered, MayRun, NewCount
<1>7. ASSUME NEW t \in Threads, InflateStep(t) PROVE MonitorTypeOK'
  BY <1>7, InflateEffect
<1>8. ASSUME NEW t \in Threads, SuspendStep(t) PROVE MonitorTypeOK'
  BY <1>8 DEF SuspendStep, SuspendOwner, SuspendFails, CheckOwner, ResumeOwner, ControlInv,
     Suspended, Inflated, InflateFor, StillOwner
<1>9. ASSUME NEW t \in Threads, InstallStep(t) PROVE MonitorTypeOK'
  BY <1>9 DEF InstallStep, Install, InstallFails, AfterInstall, Inflated, InflateFor
<1>10. ASSUME NEW t \in Threads, LockStep(t) PROVE MonitorTypeOK'
  <2>1. CASE TryLock(t)
    BY <1>10, <2>1 DEF TryLock, Owned, Entered
  <2>2. CASE LockRunnable(t)
    BY <1>10, <2>2 DEF LockRunnable, Owned
  <2> HIDE DEF MonitorTypeOK
  <2>3. QED
    BY <1>10, <2>1, <2>2 DEF LockStep
<1>11. ASSUME NEW t \in Threads, ExitFat(t) PROVE MonitorTypeOK'
  BY <1>11 DEF ExitFat, EntriesRecorded, Inside, MayRun
<1>12. ASSUME NEW t \in Threads, WaitFat(t) PROVE MonitorTypeOK'
  BY <1>12 DEF WaitFat
<1>13. ASSUME NEW t \in Threads, MoveStep(t) PROVE MonitorTypeOK'
  BY <1>13, MoveEffect
<1> HIDE DEF MonitorTypeOK
<1>14. QED
  BY Steps, <1>1, <1>2, <1>3, <1>4, <1>5, <1>6, <1>7, <1>8, <1>9, <1>10, <1>11, <1>12, <1>13

\* Every step keeps the hash code.
LEMMA HashKept == MInv /\ [Next]_vars => HashStable'
<1> SUFFICES ASSUME MInv, MonitorTypeOK, ControlInv, LockInv, HashStable, [Next]_vars,
                    kThinLockMaxCount \in Nat, None \notin Threads \cup Hashes,
                    pc \in [Threads -> PCs], word \in LockStates, word_hash \in Hashes \cup {None},
                    hash_code \in Hashes \cup {None}, returned \subseteq Hashes,
                    inflating \in [Threads -> Threads \cup {None}]
             PROVE  HashStable'
  BY MonitorAssumption DEF MInv, MonitorInv, MonitorTypeOK
<1> USE DEF HashStable, Goto, wordVars, monitorVars, historyVars
<1>1. CASE QuietStep
  BY <1>1, QuietEffect
<1>2. CASE Deflate
  BY <1>2 DEF Deflate, DeflatedWord
<1>3. ASSUME NEW t \in Threads, HashStep(t) PROVE HashStable'
  BY <1>3 DEF HashStep, HashUnlocked, HashFat, HashHashed, LockInv, UsesMonitor, SignalPC,
     WaitPC, ReturnHash
<1>4. ASSUME NEW t \in Threads, CallStep(t) PROVE HashStable'
  BY <1>4, CallEffect
<1>5. ASSUME NEW t \in Threads, ThinStep(t) PROVE HashStable'
  <2>1. CASE EnterUnlocked(t)
    BY <2>1 DEF EnterUnlocked, Enters, Entered, MayRun
  <2>2. CASE StoreCount(t)
    BY <2>2 DEF StoreCount, ControlInv, WaitPC, SignalPC, SuspendPC, Entered, NewCount
  <2>3. CASE StoreExit(t)
    BY <2>3 DEF StoreExit, ControlInv, WaitPC, SignalPC, SuspendPC
  <2> HIDE DEF HashStable
  <2>4. QED
    BY <1>5, <2>1, <2>2, <2>3 DEF ThinStep
<1>6. ASSUME NEW t \in Threads, InflateStep(t) PROVE HashStable'
  BY <1>6, InflateMoves
<1>7. ASSUME NEW t \in Threads, SuspendStep(t) PROVE HashStable'
  BY <1>7, SuspendEffect DEF SuspendPC
<1>8. ASSUME NEW t \in Threads, InstallStep(t) PROVE HashStable'
  BY <1>8 DEF InstallStep, Install, InstallFails, LockInv, UsesMonitor, SignalPC, WaitPC,
     AfterInstall, Inflated, InflateFor
<1>9. ASSUME NEW t \in Threads,
             LockStep(t) \/ BlockStep(t) \/ ExitFat(t) \/ WaitFat(t) \/ MoveStep(t)
      PROVE  HashStable'
  BY <1>9, MonitorEffect
<1> HIDE DEF HashStable
<1>10. QED
  BY Steps, <1>1, <1>2, <1>3, <1>4, <1>5, <1>6, <1>7, <1>8, <1>9

===============================================================================
