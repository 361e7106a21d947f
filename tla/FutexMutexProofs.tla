--------------------------- MODULE FutexMutexProofs ---------------------------
(* FutexMutex for every finite set of threads: MutexInv is inductive, and mutual *)
(* exclusion and the absence of lost wakeups follow.                             *)
EXTENDS FutexMutex, FiniteSetTheorems, TLAPS

\* The time the solver has for a step.
USE SMTT(30)

\* What adding and removing a thread does to the number of threads in a set.
LEMMA CardinalityStep ==
  ASSUME NEW S, S \subseteq Threads, NEW t \in Threads
  PROVE  /\ Cardinality(S) \in Nat
         /\ t \notin S => Cardinality(S \cup {t}) = Cardinality(S) + 1
         /\ t \in S => Cardinality(S \ {t}) = Cardinality(S) - 1
         /\ t \in S => Cardinality(S) > 0
<1>1. IsFiniteSet(S)
  BY MutexAssumption, FS_Subset
<1>2. IsFiniteSet(S) /\ IsFiniteSet(S \ {t}) /\ Cardinality(S) \in Nat
  BY <1>1, FS_CardinalityType, FS_RemoveElement
<1>3. t \notin S => Cardinality(S \cup {t}) = Cardinality(S) + 1
  BY <1>1, FS_AddElement
<1>4. t \in S => Cardinality(S \ {t}) = Cardinality(S) - 1
  BY <1>1, FS_RemoveElement
<1>5. t \in S => Cardinality(S) # 0
  BY <1>1, FS_EmptySet
<1>6. QED
  BY <1>2, <1>3, <1>4, <1>5

\* The types, for which a counter must not be decremented at zero.
LEMMA TypeStep ==
  MutexTypeOK /\ PlaceInv /\ ContendersCounted /\ LevelsKept /\ MutexNext => MutexTypeOK'
<1> SUFFICES ASSUME MutexTypeOK, PlaceInv, ContendersCounted, LevelsKept, MutexNext
             PROVE  MutexTypeOK'
  OBVIOUS
<1> USE MutexAssumption DEF MutexTypeOK, PCs, Goto, wordVars, ownerVars, condVars
<1>1. CASE WakeupToRespondToEmptyCheckpoint
  BY <1>1 DEF WakeupToRespondToEmptyCheckpoint
<1>2. SUFFICES ASSUME NEW t \in Threads, Call(t) \/ Proceed(t) \/ InterruptSleep(t)
               PROVE  MutexTypeOK'
  BY <1>1 DEF MutexNext
<1>3. CASE ExclusiveLock(t)
  BY <1>3 DEF ExclusiveLock
<1>4. CASE ExclusiveTryLock(t)
  BY <1>4 DEF ExclusiveTryLock, Acquire
<1>5. CASE LockAgain(t)
  BY <1>5 DEF LockAgain, IsExclusiveHeld
<1>6. CASE Wait(t)
  BY <1>6 DEF Wait
<1>7. ASSUME NEW all \in BOOLEAN, Signal(t, all) PROVE MutexTypeOK'
  BY <1>7 DEF Signal, IncrementSequence
<1>8. CASE LockFree(t)
  BY <1>8 DEF LockFree, Acquire
<1>9. CASE Contend(t)
  BY <1>9 DEF Contend
<1>10. CASE IncrementContenders(t)
  BY <1>10 DEF IncrementContenders
<1>11. CASE FutexWait(t)
  BY <1>11 DEF FutexWait, SleepIfUnchanged
<1>12. CASE Recheck(t)
  BY <1>12 DEF Recheck
<1>13. CASE DecrementContenders(t)
  <2>1. t \in Counted /\ Counted \subseteq Threads /\ waiting \subseteq Threads
    BY <1>13 DEF DecrementContenders, Counted
  <2>2. Cardinality(Counted) \in Nat /\ Cardinality(Counted) > 0 /\ Cardinality(waiting) \in Nat
    BY Zenon, <2>1, CardinalityStep
  <2>3. contenders > 0
    BY <2>2 DEF ContendersCounted
  <2>4. QED
    BY <1>13, <2>3 DEF DecrementContenders
<1>14. CASE Own(t)
  BY <1>14 DEF Own
<1>15. CASE ExclusiveUnlock(t)
  BY <1>15 DEF ExclusiveUnlock, LevelsKept, PlaceInv
<1>16. CASE Release(t)
  BY <1>16 DEF Release, HaveContenders, AfterUnlock
<1>17. CASE Wake(t)
  BY <1>17 DEF Wake, AfterUnlock
<1>18. CASE CondWait(t)
  BY <1>18 DEF CondWait
<1>19. CASE CondWoken(t)
  BY <1>19 DEF CondWoken
<1>20. CASE CondEnd(t)
  <2>1. t \in waiting /\ Counted \subseteq Threads /\ waiting \subseteq Threads
    BY <1>20 DEF CondEnd, RestoredCount, Counted, PlaceInv
  <2>2. Cardinality(Counted) \in Nat /\ Cardinality(waiting) > 0 /\ Cardinality(waiting) \in Nat
    BY Zenon, <2>1, CardinalityStep
  <2>3. contenders > 0 /\ num_waiters > 0
    BY <2>2 DEF ContendersCounted
  <2>4. QED
    BY <1>20, <2>3 DEF CondEnd, RestoredCount
<1>21. CASE RequeueWaiters(t)
  BY <1>21 DEF RequeueWaiters, Moves
<1>22. CASE InterruptSleep(t)
  BY <1>22 DEF InterruptSleep
<1>23. QED
  BY <1>2, <1>3, <1>4, <1>5, <1>6, <1>7, <1>8, <1>9, <1>10, <1>11, <1>12, <1>13, <1>14,
     <1>15, <1>16, <1>17, <1>18, <1>19, <1>20, <1>21, <1>22
     DEF Call, Proceed

\* Who stands where.
LEMMA PlaceStep ==
  MutexTypeOK /\ PlaceInv /\ MutualExclusion /\ MutexNext => PlaceInv'
<1> SUFFICES ASSUME MutexTypeOK, PlaceInv, MutualExclusion, MutexNext
             PROVE  PlaceInv'
  OBVIOUS
<1> USE MutexAssumption DEF MutexTypeOK, PlaceInv, MutualExclusion, HasMutex, Goto, wordVars, ownerVars, condVars
<1>1. CASE WakeupToRespondToEmptyCheckpoint
  BY <1>1 DEF WakeupToRespondToEmptyCheckpoint
<1>2. SUFFICES ASSUME NEW t \in Threads, Call(t) \/ Proceed(t) \/ InterruptSleep(t)
               PROVE  PlaceInv'
  BY <1>1 DEF MutexNext
<1>3. CASE ExclusiveLock(t)
  BY <1>3 DEF ExclusiveLock
<1>4. CASE ExclusiveTryLock(t)
  BY <1>4 DEF ExclusiveTryLock, Acquire
<1>5. CASE LockAgain(t)
  BY <1>5 DEF LockAgain, IsExclusiveHeld
<1>6. CASE Wait(t)
  BY <1>6 DEF Wait
<1>7. ASSUME NEW all \in BOOLEAN, Signal(t, all) PROVE PlaceInv'
  BY <1>7 DEF Signal, IncrementSequence
<1>8. CASE LockFree(t)
  BY <1>8 DEF LockFree, Acquire
<1>9. CASE Contend(t)
  BY <1>9 DEF Contend
<1>10. CASE IncrementContenders(t)
  BY <1>10 DEF IncrementContenders
<1>11. CASE FutexWait(t)
  BY <1>11 DEF FutexWait, SleepIfUnchanged
<1>12. CASE Recheck(t)
  BY <1>12 DEF Recheck
<1>13. CASE DecrementContenders(t)
  BY <1>13 DEF DecrementContenders
<1>14. CASE Own(t)
  BY <1>14 DEF Own
<1>15. CASE ExclusiveUnlock(t)
  BY <1>15 DEF ExclusiveUnlock
<1>16. CASE Release(t)
  BY <1>16 DEF Release, HaveContenders, AfterUnlock
<1>17. CASE Wake(t)
  BY <1>17 DEF Wake, AfterUnlock
<1>18. CASE CondWait(t)
  BY <1>18 DEF CondWait
<1>19. CASE CondWoken(t)
  BY <1>19 DEF CondWoken
<1>20. CASE CondEnd(t)
  BY <1>20 DEF CondEnd, RestoredCount
<1>21. CASE RequeueWaiters(t)
  BY <1>21 DEF RequeueWaiters, Moves
<1>22. CASE InterruptSleep(t)
  BY <1>22 DEF InterruptSleep
<1>23. QED
  BY Zenon, <1>2, <1>3, <1>4, <1>5, <1>6, <1>7, <1>8, <1>9, <1>10, <1>11, <1>12, <1>13, <1>14,
     <1>15, <1>16, <1>17, <1>18, <1>19, <1>20, <1>21, <1>22
     DEF Call, Proceed

\* Mutual exclusion.
LEMMA ExclusionStep ==
  MutexTypeOK /\ PlaceInv /\ MutualExclusion /\ MutexNext => MutualExclusion'
<1> SUFFICES ASSUME MutexTypeOK, PlaceInv, MutualExclusion, MutexNext
             PROVE  MutualExclusion'
  OBVIOUS
<1> USE MutexAssumption DEF MutexTypeOK, PlaceInv, MutualExclusion, HasMutex, Goto, wordVars, ownerVars, condVars
<1>1. CASE WakeupToRespondToEmptyCheckpoint
  BY <1>1 DEF WakeupToRespondToEmptyCheckpoint
<1>2. SUFFICES ASSUME NEW t \in Threads, Call(t) \/ Proceed(t) \/ InterruptSleep(t)
               PROVE  MutualExclusion'
  BY <1>1 DEF MutexNext
<1>3. CASE ExclusiveLock(t)
  BY <1>3 DEF ExclusiveLock
<1>4. CASE ExclusiveTryLock(t)
  BY <1>4 DEF ExclusiveTryLock, Acquire
<1>5. CASE LockAgain(t)
  BY <1>5 DEF LockAgain, IsExclusiveHeld
<1>6. CASE Wait(t)
  BY <1>6 DEF Wait
<1>7. ASSUME NEW all \in BOOLEAN, Signal(t, all) PROVE MutualExclusion'
  BY <1>7 DEF Signal, IncrementSequence
<1>8. CASE LockFree(t)
  BY <1>8 DEF LockFree, Acquire
<1>9. CASE Contend(t)
  BY <1>9 DEF Contend
<1>10. CASE IncrementContenders(t)
  BY <1>10 DEF IncrementContenders
<1>11. CASE FutexWait(t)
  BY <1>11 DEF FutexWait, SleepIfUnchanged
<1>12. CASE Recheck(t)
  BY <1>12 DEF Recheck
<1>13. CASE DecrementContenders(t)
  BY <1>13 DEF DecrementContenders
<1>14. CASE Own(t)
  BY <1>14 DEF Own
<1>15. CASE ExclusiveUnlock(t)
  BY <1>15 DEF ExclusiveUnlock
<1>16. CASE Release(t)
  BY <1>16 DEF Release, HaveContenders, AfterUnlock
<1>17. CASE Wake(t)
  BY <1>17 DEF Wake, AfterUnlock
<1>18. CASE CondWait(t)
  BY <1>18 DEF CondWait
<1>19. CASE CondWoken(t)
  BY <1>19 DEF CondWoken
<1>20. CASE CondEnd(t)
  BY <1>20 DEF CondEnd, RestoredCount
<1>21. CASE RequeueWaiters(t)
  BY <1>21 DEF RequeueWaiters, Moves
<1>22. CASE InterruptSleep(t)
  BY <1>22 DEF InterruptSleep
<1>23. QED
  BY Zenon, <1>2, <1>3, <1>4, <1>5, <1>6, <1>7, <1>8, <1>9, <1>10, <1>11, <1>12, <1>13, <1>14,
     <1>15, <1>16, <1>17, <1>18, <1>19, <1>20, <1>21, <1>22
     DEF Call, Proceed

\* The levels, which only the thread that has the mutex changes.
LEMMA LevelsStep ==
  MutexTypeOK /\ PlaceInv /\ MutualExclusion /\ LevelsKept /\ MutexNext => LevelsKept'
<1> SUFFICES ASSUME MutexTypeOK, PlaceInv, MutualExclusion, LevelsKept, MutexNext
             PROVE  LevelsKept'
  OBVIOUS
<1> USE MutexAssumption DEF MutexTypeOK, PlaceInv, MutualExclusion, HasMutex, LevelsKept, Goto,
                            wordVars, ownerVars, condVars
<1>1. CASE WakeupToRespondToEmptyCheckpoint
  BY <1>1 DEF WakeupToRespondToEmptyCheckpoint
<1>2. SUFFICES ASSUME NEW t \in Threads, Call(t) \/ Proceed(t) \/ InterruptSleep(t)
               PROVE  LevelsKept'
  BY <1>1 DEF MutexNext
<1>3. CASE ExclusiveLock(t)
  BY <1>3 DEF ExclusiveLock
<1>4. CASE ExclusiveTryLock(t)
  BY <1>4 DEF ExclusiveTryLock, Acquire
<1>5. CASE LockAgain(t)
  BY <1>5 DEF LockAgain, IsExclusiveHeld
<1>6. CASE Wait(t)
  BY <1>6 DEF Wait
<1>7. ASSUME NEW all \in BOOLEAN, Signal(t, all) PROVE LevelsKept'
  BY <1>7 DEF Signal, IncrementSequence
<1>8. CASE LockFree(t)
  BY <1>8 DEF LockFree, Acquire
<1>9. CASE Contend(t)
  BY <1>9 DEF Contend
<1>10. CASE IncrementContenders(t)
  BY <1>10 DEF IncrementContenders
<1>11. CASE FutexWait(t)
  BY <1>11 DEF FutexWait
<1>12. CASE Recheck(t)
  BY <1>12 DEF Recheck
<1>13. CASE DecrementContenders(t)
  BY <1>13 DEF DecrementContenders
<1>14. CASE Own(t)
  BY <1>14 DEF Own
<1>15. CASE ExclusiveUnlock(t)
  BY <1>15 DEF ExclusiveUnlock
<1>16. CASE Release(t)
  BY <1>16 DEF Release, AfterUnlock
<1>17. CASE Wake(t)
  BY <1>17 DEF Wake, AfterUnlock
<1>18. CASE CondWait(t)
  BY <1>18 DEF CondWait
<1>19. CASE CondWoken(t)
  BY <1>19 DEF CondWoken
<1>20. CASE CondEnd(t)
  BY <1>20 DEF CondEnd, RestoredCount
<1>21. CASE RequeueWaiters(t)
  BY <1>21 DEF RequeueWaiters
<1>22. CASE InterruptSleep(t)
  BY <1>22 DEF InterruptSleep
<1>23. QED
  BY Zenon, <1>2, <1>3, <1>4, <1>5, <1>6, <1>7, <1>8, <1>9, <1>10, <1>11, <1>12, <1>13, <1>14,
     <1>15, <1>16, <1>17, <1>18, <1>19, <1>20, <1>21, <1>22
     DEF Call, Proceed

\* The counts of contenders and of waiters.
LEMMA ContendersStep ==
  MutexTypeOK /\ PlaceInv /\ ContendersCounted /\ MutexNext => ContendersCounted'
<1> SUFFICES ASSUME MutexTypeOK, PlaceInv, ContendersCounted, MutexNext
             PROVE  ContendersCounted'
  OBVIOUS
<1> USE MutexAssumption DEF MutexTypeOK, ContendersCounted, Goto, wordVars, ownerVars, condVars
<1>a. ASSUME Counted' = Counted, UNCHANGED <<contenders, num_waiters, waiting>>
      PROVE  ContendersCounted'
  BY <1>a
<1>1. CASE WakeupToRespondToEmptyCheckpoint
  BY <1>1 DEF WakeupToRespondToEmptyCheckpoint, Counted
<1>2. SUFFICES ASSUME NEW t \in Threads, Call(t) \/ Proceed(t) \/ InterruptSleep(t)
               PROVE  ContendersCounted'
  BY <1>1 DEF MutexNext
<1>3. CASE ExclusiveLock(t)
  BY <1>3, <1>a DEF ExclusiveLock, Counted
<1>4. CASE ExclusiveTryLock(t)
  BY <1>4, <1>a DEF ExclusiveTryLock, Acquire, Counted
<1>5. CASE LockAgain(t)
  BY <1>5, <1>a DEF LockAgain, IsExclusiveHeld, Counted
<1>6. CASE Wait(t)
  <2>1. Counted' = Counted /\ t \notin waiting
    BY <1>6 DEF Wait, Counted, PlaceInv
  <2>2. contenders' = contenders + 1 /\ num_waiters' = num_waiters + 1 /\ waiting' = waiting \cup {t}
    BY <1>6 DEF Wait
  <2>3. Cardinality(waiting') = Cardinality(waiting) + 1 /\ Cardinality(waiting) \in Nat
    BY <2>1, <2>2, CardinalityStep
  <2>4. Counted \subseteq Threads /\ Cardinality(Counted) \in Nat
    BY Zenon, CardinalityStep DEF Counted
  <2>5. QED
    BY <2>1, <2>2, <2>3, <2>4
<1>7. ASSUME NEW all \in BOOLEAN, Signal(t, all) PROVE ContendersCounted'
  BY <1>7, <1>a DEF Signal, IncrementSequence, Counted
<1>8. CASE LockFree(t)
  BY <1>8, <1>a DEF LockFree, Acquire, Counted
<1>9. CASE Contend(t)
  BY <1>9, <1>a DEF Contend, Counted
<1>10. CASE IncrementContenders(t)
  <2>1. t \notin Counted /\ Counted' = Counted \cup {t}
    BY <1>10 DEF IncrementContenders, Counted
  <2>2. contenders' = contenders + 1 /\ UNCHANGED <<num_waiters, waiting>>
    BY <1>10 DEF IncrementContenders
  <2>3. QED
    BY <2>1, <2>2, CardinalityStep DEF Counted
<1>11. CASE FutexWait(t)
  BY <1>11, <1>a DEF FutexWait, SleepIfUnchanged, Counted
<1>12. CASE Recheck(t)
  BY <1>12, <1>a DEF Recheck, Counted
<1>13. CASE DecrementContenders(t)
  <2>1. t \in Counted /\ Counted' = Counted \ {t}
    BY <1>13 DEF DecrementContenders, Counted
  <2>2. contenders' = contenders - 1 /\ UNCHANGED <<num_waiters, waiting>>
    BY <1>13 DEF DecrementContenders
  <2>3. QED
    BY <2>1, <2>2, CardinalityStep DEF Counted
<1>14. CASE Own(t)
  BY <1>14, <1>a DEF Own, Counted
<1>15. CASE ExclusiveUnlock(t)
  BY <1>15, <1>a DEF ExclusiveUnlock, Counted
<1>16. CASE Release(t)
  BY <1>16, <1>a DEF Release, HaveContenders, AfterUnlock, Counted
<1>17. CASE Wake(t)
  BY <1>17, <1>a DEF Wake, AfterUnlock, Counted
<1>18. CASE CondWait(t)
  BY <1>18, <1>a DEF CondWait, Counted
<1>19. CASE CondWoken(t)
  BY <1>19, <1>a DEF CondWoken, Counted
<1>20. CASE CondEnd(t)
  <2>1. Counted' = Counted /\ t \in waiting
    BY <1>20 DEF CondEnd, RestoredCount, Counted, PlaceInv
  <2>2. contenders' = contenders - 1 /\ num_waiters' = num_waiters - 1 /\ waiting' = waiting \ {t}
    BY <1>20 DEF CondEnd, RestoredCount
  <2>3. Cardinality(waiting') = Cardinality(waiting) - 1 /\ Cardinality(waiting) \in Nat
    BY <2>1, <2>2, CardinalityStep
  <2>4. Counted \subseteq Threads /\ Cardinality(Counted) \in Nat
    BY Zenon, CardinalityStep DEF Counted
  <2>5. QED
    BY <2>1, <2>2, <2>3, <2>4
<1>21. CASE RequeueWaiters(t)
  BY <1>21, <1>a DEF RequeueWaiters, Moves, Counted
<1>22. CASE InterruptSleep(t)
  BY <1>22, <1>a DEF InterruptSleep, Counted
<1>23. QED
  BY <1>2, <1>3, <1>4, <1>5, <1>6, <1>7, <1>8, <1>9, <1>10, <1>11, <1>12, <1>13, <1>14,
     <1>15, <1>16, <1>17, <1>18, <1>19, <1>20, <1>21, <1>22
     DEF Call, Proceed

\* No sleeper is left alone: a release finds contenders, and a wakeup a sleeper.
LEMMA SleepersStep ==
  MutexInv /\ MutexNext => NoSleepOnFreeMutex'
<1> SUFFICES ASSUME MutexInv, mutexq' # {}, held' = 0, MutexNext
             PROVE  (\E u \in Threads : Awake(u))'
  BY DEF NoSleepOnFreeMutex
<1> USE MutexAssumption DEF MutexInv, MutexTypeOK, PlaceInv, MutualExclusion, HasMutex, Awake, Goto, wordVars, ownerVars, condVars
<1>1. CASE WakeupToRespondToEmptyCheckpoint
  BY <1>1 DEF WakeupToRespondToEmptyCheckpoint
<1>2. SUFFICES ASSUME NEW t \in Threads, Call(t) \/ Proceed(t) \/ InterruptSleep(t)
               PROVE  (\E u \in Threads : Awake(u))'
  BY <1>1 DEF MutexNext
<1>3. CASE ExclusiveLock(t)
  BY <1>3 DEF ExclusiveLock
<1>4. CASE ExclusiveTryLock(t)
  BY <1>4 DEF ExclusiveTryLock, Acquire
<1>5. CASE LockAgain(t)
  BY <1>5 DEF LockAgain, IsExclusiveHeld
<1>6. CASE Wait(t)
  BY <1>6 DEF Wait
<1>7. ASSUME NEW all \in BOOLEAN, Signal(t, all) PROVE (\E u \in Threads : Awake(u))'
  BY <1>7 DEF Signal, IncrementSequence
<1>8. CASE LockFree(t)
  BY <1>8 DEF LockFree, Acquire
<1>9. CASE Contend(t)
  BY <1>9 DEF Contend
<1>10. CASE IncrementContenders(t)
  BY <1>10 DEF IncrementContenders
<1>11. CASE FutexWait(t)
  BY <1>11 DEF FutexWait, SleepIfUnchanged
<1>12. CASE Recheck(t)
  BY <1>12 DEF Recheck
<1>13. CASE DecrementContenders(t)
  BY <1>13 DEF DecrementContenders
<1>14. CASE Own(t)
  BY <1>14 DEF Own
<1>15. CASE ExclusiveUnlock(t)
  BY <1>15 DEF ExclusiveUnlock
<1>16. CASE Release(t)
  <2>1. PICK w \in mutexq : w \in Counted \/ w \in waiting
    BY <1>16 DEF Release, HaveContenders, AfterUnlock, Counted
  <2>2. /\ Cardinality(Counted) \in Nat /\ Cardinality(waiting) \in Nat
        /\ w \in Counted => Cardinality(Counted) > 0
        /\ w \in waiting => Cardinality(waiting) > 0
    BY Zenon, CardinalityStep DEF Counted
  <2>3. contenders # 0
    BY <2>1, <2>2 DEF ContendersCounted
  <2>4. QED
    BY <1>16, <2>3 DEF Release, HaveContenders, AfterUnlock
<1>17. CASE Wake(t)
  BY <1>17 DEF Wake, AfterUnlock
<1>18. CASE CondWait(t)
  BY <1>18 DEF CondWait, NoSleepOnFreeMutex
<1>19. CASE CondWoken(t)
  BY <1>19 DEF CondWoken
<1>20. CASE CondEnd(t)
  BY <1>20 DEF CondEnd, RestoredCount
<1>21. CASE RequeueWaiters(t)
  BY <1>21 DEF RequeueWaiters, Moves
<1>22. CASE InterruptSleep(t)
  BY <1>22 DEF InterruptSleep
<1>23. QED
  BY Zenon, <1>2, <1>3, <1>4, <1>5, <1>6, <1>7, <1>8, <1>9, <1>10, <1>11, <1>12, <1>13, <1>14,
     <1>15, <1>16, <1>17, <1>18, <1>19, <1>20, <1>21, <1>22
     DEF Call, Proceed

\* MutexInv holds in every reachable state, whatever the number of threads.
THEOREM MutexInvariance == MutexSpec => []MutexInv
<1>1. MutexInit => MutexInv
  <2> SUFFICES ASSUME MutexInit PROVE MutexInv
    OBVIOUS
  <2>1. Counted = {} /\ waiting = {}
    BY DEF MutexInit, Counted
  <2>2. ContendersCounted
    BY <2>1, FS_EmptySet DEF MutexInit, ContendersCounted
  <2>3. QED
    BY <2>2, MutexAssumption
    DEF MutexInit, MutexInv, MutexTypeOK, PCs, PlaceInv, MutualExclusion, HasMutex, LevelsKept,
        NoSleepOnFreeMutex
<1>2. MutexInv /\ [MutexNext]_mutexVars => MutexInv'
  <2>1. MutexInv /\ MutexNext => MutexInv'
    BY TypeStep, PlaceStep, ExclusionStep, ContendersStep, LevelsStep, SleepersStep DEF MutexInv
  <2>2. MutexInv /\ UNCHANGED mutexVars => MutexInv'
    BY DEF mutexVars, wordVars, ownerVars, condVars, MutexInv, MutexTypeOK, PlaceInv,
           MutualExclusion, HasMutex, ContendersCounted, Counted, LevelsKept,
           NoSleepOnFreeMutex, Awake
  <2>3. QED
    BY <2>1, <2>2
<1>3. QED
  BY <1>1, <1>2, PTL DEF MutexSpec

\* At most one thread has the mutex, and state word, exclusive_owner_ and
\* recursion_count_ agree on who and how often.
THEOREM MutexExcludes == MutexSpec => []MutualExclusion
BY MutexInvariance, PTL DEF MutexInv

\* While the mutex is free and somebody sleeps on it, some thread is awake that will
\* wake a sleeper or take the mutex: FUTEX_WAKE calls are never lost.
THEOREM MutexWakes == MutexSpec => []NoSleepOnFreeMutex
BY MutexInvariance, PTL DEF MutexInv

\* A step of one thread changes only its own entries.
LEMMA OwnEntries ==
  ASSUME NEW t \in Threads,
         \A u \in Threads \ {t} : /\ pc'[u] = pc[u] /\ depth'[u] = depth[u]
                                  /\ u \in waiting' <=> u \in waiting
  PROVE  /\ Entries' = [Entries EXCEPT ![t] = Entries'[t]]
         /\ SavedEntries' = [SavedEntries EXCEPT ![t] = SavedEntries'[t]]
<1>1. \A u \in Threads \ {t} : Entries'[u] = Entries[u] /\ SavedEntries'[u] = SavedEntries[u]
  BY DEF Entries, SavedEntries, HasMutex
<1>2. /\ Entries = [u \in Threads |-> Entries[u]] /\ Entries' = [u \in Threads |-> Entries'[u]]
      /\ SavedEntries = [u \in Threads |-> SavedEntries[u]]
      /\ SavedEntries' = [u \in Threads |-> SavedEntries'[u]]
  BY DEF Entries, SavedEntries
<1>3. QED
  BY <1>1, <1>2

\* What each step is to ReentrantLock: the CAS that takes the mutex, the CAS that frees it
\* and a change of the level are its steps, and everything else is none.
LEMMA PromiseStep ==
  MutexInv /\ MutexNext => Promise!PromiseNext \/ UNCHANGED <<Entries, SavedEntries>>
<1> DEFINE Same == UNCHANGED <<Entries, SavedEntries>>
<1> SUFFICES ASSUME MutexTypeOK, PlaceInv, MutualExclusion, LevelsKept, MutexNext
             PROVE  Promise!PromiseNext \/ Same
  BY DEF MutexInv
<1> USE DEF MutexTypeOK, Goto, wordVars, ownerVars, condVars
<1>1. CASE WakeupToRespondToEmptyCheckpoint
  BY <1>1 DEF WakeupToRespondToEmptyCheckpoint, Entries, SavedEntries, HasMutex
<1>2. SUFFICES ASSUME NEW t \in Threads, Call(t) \/ Proceed(t) \/ InterruptSleep(t)
               PROVE  Promise!PromiseNext \/ Same
  BY <1>1 DEF MutexNext
<1>3. ASSUME Acquire(t), pc[t] \in {"idle", "lock"}
      PROVE  Promise!Enter(t) \/ Promise!Return(t)
  <2>1. Promise!Free
    BY <1>3 DEF Acquire, MutualExclusion, Promise!Free, Entries
  <2>2. /\ Entries' = [Entries EXCEPT ![t] = Entries'[t]]
        /\ SavedEntries' = [SavedEntries EXCEPT ![t] = SavedEntries'[t]]
    BY <1>3, OwnEntries DEF Acquire
  <2>3. SavedEntries = [SavedEntries EXCEPT ![t] = SavedEntries[t]]
    BY DEF SavedEntries
  <2>4. CASE t \in waiting
    <3>1. SavedEntries[t] > 0 /\ Entries'[t] = SavedEntries[t] /\ SavedEntries'[t] = 0
      BY <1>3, <2>4 DEF Acquire, PlaceInv, LevelsKept, Entries, SavedEntries, HasMutex
    <3>2. QED
      BY <2>1, <2>2, <3>1, Zenon DEF Promise!Return
  <2>5. CASE t \notin waiting
    <3>1. SavedEntries[t] = 0 /\ Entries'[t] = 1 /\ SavedEntries'[t] = SavedEntries[t]
      BY <1>3, <2>5 DEF Acquire, LevelsKept, Entries, SavedEntries, HasMutex
    <3>2. QED
      BY <2>1, <2>2, <2>3, <3>1, Zenon DEF Promise!Enter
  <2>6. QED
    BY <2>4, <2>5, Zenon
<1>4. ASSUME LockAgain(t) PROVE Promise!EnterAgain(t)
  <2>1. Entries' = [Entries EXCEPT ![t] = Entries'[t]]
    BY <1>4, OwnEntries DEF LockAgain
  <2>2. Entries[t] > 0 /\ Entries'[t] = Entries[t] + 1
    BY <1>4, MutexAssumption
    DEF LockAgain, IsExclusiveHeld, PlaceInv, MutualExclusion, LevelsKept, Entries, HasMutex
  <2>3. SavedEntries' = SavedEntries
    BY <1>4 DEF LockAgain, PlaceInv, SavedEntries, HasMutex
  <2>4. QED
    BY <2>1, <2>2, <2>3, Zenon DEF Promise!EnterAgain
<1>5. ASSUME ExclusiveUnlock(t) PROVE Promise!Leave(t) \/ Same
  <2>1. SavedEntries' = SavedEntries
    BY <1>5 DEF ExclusiveUnlock, PlaceInv, SavedEntries, HasMutex
  <2>2. CASE recursion_count = 1
    BY <1>5, <2>1, <2>2 DEF ExclusiveUnlock, PlaceInv, LevelsKept, Entries, HasMutex
  <2>3. CASE recursion_count > 1
    <3>1. Entries' = [Entries EXCEPT ![t] = Entries'[t]]
      BY <1>5, OwnEntries DEF ExclusiveUnlock
    <3>2. Entries[t] > 0 /\ Entries'[t] = Entries[t] - 1
      BY <1>5, <2>3 DEF ExclusiveUnlock, PlaceInv, LevelsKept, Entries, HasMutex
    <3>3. QED
      BY <2>1, <3>1, <3>2, Zenon DEF Promise!Leave
  <2>4. QED
    BY <1>5, <2>2, <2>3, Zenon DEF ExclusiveUnlock
<1>6. ASSUME Release(t) PROVE Promise!Wait(t) \/ Promise!Leave(t)
  <2>1. /\ Entries' = [Entries EXCEPT ![t] = Entries'[t]]
        /\ SavedEntries' = [SavedEntries EXCEPT ![t] = SavedEntries'[t]]
    BY <1>6, OwnEntries DEF Release
  <2>2. ~HasMutex(t)' /\ Entries'[t] = 0
    BY <1>6 DEF Release, AfterUnlock, HasMutex, Entries
  <2>3. CASE t \in waiting
    <3>1. Entries[t] > 0 /\ SavedEntries'[t] = Entries[t]
      BY <1>6, <2>3, <2>2 DEF Release, PlaceInv, LevelsKept, Entries, SavedEntries, HasMutex
    <3>2. QED
      BY <2>1, <2>2, <3>1, Zenon DEF Promise!Wait
  <2>4. CASE t \notin waiting
    <3>1. Entries[t] = 1 /\ SavedEntries' = SavedEntries
      BY <1>6, <2>4 DEF Release, LevelsKept, Entries, SavedEntries, HasMutex
    <3>2. Entries[t] > 0 /\ Entries[t] - 1 = 0
      BY <3>1
    <3>3. QED
      BY <2>1, <2>2, <3>1, <3>2, Zenon DEF Promise!Leave
  <2>5. QED
    BY <2>3, <2>4, Zenon
<1>7. CASE ExclusiveLock(t)
  BY <1>7 DEF ExclusiveLock, Entries, SavedEntries, HasMutex
<1>8. CASE Wait(t)
  BY <1>8 DEF Wait, LevelsKept, PlaceInv, Entries, SavedEntries, HasMutex
<1>9. CASE Contend(t)
  BY <1>9 DEF Contend, Entries, SavedEntries, HasMutex
<1>10. CASE IncrementContenders(t)
  BY <1>10 DEF IncrementContenders, Entries, SavedEntries, HasMutex
<1>11. CASE FutexWait(t)
  BY <1>11 DEF FutexWait, Entries, SavedEntries, HasMutex
<1>12. CASE Recheck(t)
  BY <1>12 DEF Recheck, Entries, SavedEntries, HasMutex
<1>13. CASE DecrementContenders(t)
  BY <1>13 DEF DecrementContenders, Entries, SavedEntries, HasMutex
<1>14. CASE Own(t)
  BY <1>14 DEF Own, PlaceInv, LevelsKept, Entries, SavedEntries, HasMutex
<1>15. CASE Wake(t)
  BY <1>15 DEF Wake, AfterUnlock, Entries, SavedEntries, HasMutex
<1>16. CASE CondWait(t)
  BY <1>16 DEF CondWait, Entries, SavedEntries, HasMutex
<1>17. CASE CondWoken(t)
  BY <1>17 DEF CondWoken, Entries, SavedEntries, HasMutex
<1>18. CASE CondEnd(t)
  BY <1>18 DEF CondEnd, PlaceInv, LevelsKept, Entries, SavedEntries, HasMutex
<1>19. CASE RequeueWaiters(t)
  BY <1>19 DEF RequeueWaiters, PlaceInv, Entries, SavedEntries, HasMutex
<1>20. CASE InterruptSleep(t)
  BY <1>20 DEF InterruptSleep, Entries, SavedEntries, HasMutex
<1>21. ASSUME NEW all \in BOOLEAN, Signal(t, all) PROVE Same
  BY <1>21 DEF Signal, PlaceInv, Entries, SavedEntries, HasMutex
<1>22. CASE ExclusiveTryLock(t) \/ LockFree(t)
  BY <1>3, <1>22, Zenon DEF ExclusiveTryLock, LockFree, Acquire, Promise!PromiseNext
<1> HIDE DEF Same
<1>23. QED
  BY Zenon, <1>2, <1>4, <1>5, <1>6, <1>7, <1>8, <1>9, <1>10, <1>11, <1>12, <1>13, <1>14, <1>15, <1>16, <1>17, <1>18, <1>19, <1>20, <1>21, <1>22
     DEF Call, Proceed, Promise!PromiseNext

\* A Mutex with its ConditionVariable (base/mutex.cc) does what ReentrantLock promises,
\* for any number of threads: the detailed specification implements the abstract one.
THEOREM MutexImplementsLock == MutexSpec => MutexPromiseKept
<1>1. MutexInit => Promise!PromiseInit
  BY DEF MutexInit, Promise!PromiseInit, Entries, SavedEntries, HasMutex
<1>2. UNCHANGED mutexVars => UNCHANGED <<Entries, SavedEntries>>
  BY DEF mutexVars, ownerVars, condVars, Entries, SavedEntries, HasMutex
<1>3. MutexInv /\ [MutexNext]_mutexVars => [Promise!PromiseNext]_(Promise!promiseVars)
  BY <1>2, PromiseStep DEF Promise!promiseVars
<1>4. QED
  BY <1>1, <1>3, MutexInvariance, PTL DEF MutexSpec, MutexPromiseKept, Promise!PromiseSpec

=============================================================================
