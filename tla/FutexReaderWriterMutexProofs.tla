---------------------- MODULE FutexReaderWriterMutexProofs ---------------------
(* FutexReaderWriterMutex for every finite set of threads: RWInv is inductive, so   *)
(* writers exclude everybody else and no sleeper is forgotten.                    *)
EXTENDS FutexReaderWriterMutex, FiniteSetTheorems, TLAPS

\* The time the solver has for a step.
USE SMTT(30)

\* What adding and removing a thread does to the number of threads in a set.
LEMMA CardinalityStep ==
  ASSUME NEW S, S \subseteq Threads, NEW t \in Threads
  PROVE  /\ Cardinality(S) \in Nat
         /\ t \notin S => Cardinality(S \cup {t}) = Cardinality(S) + 1
         /\ t \in S => Cardinality(S \ {t}) = Cardinality(S) - 1
         /\ t \in S => Cardinality(S) > 0
<1>1. IsFiniteSet(S)
  BY RWAssumption, FS_Subset
<1>2. Cardinality(S) \in Nat
  BY <1>1, FS_CardinalityType
<1>3. t \notin S => Cardinality(S \cup {t}) = Cardinality(S) + 1
  BY <1>1, FS_AddElement
<1>4. t \in S => Cardinality(S \ {t}) = Cardinality(S) - 1
  BY <1>1, FS_RemoveElement
<1>5. t \in S => Cardinality(S) # 0
  BY <1>1, FS_EmptySet
<1>6. QED
  BY <1>2, <1>3, <1>4, <1>5

\* The types, for which a counter must not be decremented at zero.
LEMMA TypeStep ==
  RWTypeOK /\ ReadersExcludeWriters /\ ContendersCounted /\ RWNext => RWTypeOK'
<1> SUFFICES ASSUME RWTypeOK, ReadersExcludeWriters, ContendersCounted, RWNext
             PROVE  RWTypeOK'
  OBVIOUS
<1> USE RWAssumption DEF RWTypeOK, PCs, Modes, Goto
<1>1. CASE WakeupToRespondToEmptyCheckpoint
  BY <1>1 DEF WakeupToRespondToEmptyCheckpoint
<1>2. SUFFICES ASSUME NEW t \in Threads,
                      Call(t) \/ Proceed(t) \/ TimeOut(t) \/ InterruptSleep(t)
               PROVE  RWTypeOK'
  BY <1>1 DEF RWNext
<1>3. ASSUME NEW m \in Modes \ {"downgraded"}, Lock(t, m) PROVE RWTypeOK'
  BY <1>3 DEF Lock
<1>4. ASSUME NEW m \in Modes \ {"downgraded"}, TryLock(t, m) PROVE RWTypeOK'
  BY <1>4 DEF TryLock, Acquire, Free
<1>5. CASE Downgrade(t)
  BY <1>5 DEF Downgrade
<1>6. CASE LockFree(t)
  BY <1>6 DEF LockFree, Acquire, Free
<1>7. CASE FinishRWExclusiveLock(t)
  BY <1>7 DEF FinishRWExclusiveLock
<1>8. CASE Contend(t)
  BY <1>8 DEF Contend, Free
<1>9. CASE IncrementContenders(t)
  BY <1>9 DEF IncrementContenders
<1>10. CASE FutexWait(t)
  BY <1>10 DEF FutexWait, SleepIfUnchanged
<1>11. CASE DecrementContenders(t)
  <2>1. t \in Counted \/ pc[t] # "asleep"
    BY DEF Counted
  <2>2. t \in Counted => num_contenders > 0
    BY Zenon, CardinalityStep DEF Counted, ContendersCounted
  <2>3. QED
    BY <1>11, <2>1, <2>2 DEF DecrementContenders
<1>12. CASE SharedUnlock(t)
  BY <1>12 DEF SharedUnlock, LastReaderGone, ReadersExcludeWriters, Reads
<1>13. CASE ExclusiveUnlock(t)
  BY <1>13 DEF ExclusiveUnlock
<1>14. CASE Release(t)
  BY <1>14 DEF Release
<1>15. CASE CheckContenders(t)
  BY <1>15 DEF CheckContenders, AfterWake
<1>16. CASE Wake(t)
  BY <1>16 DEF Wake, AfterWake
<1>17. CASE TimeOut(t)
  <2>1. t \in Counted \/ pc[t] # "asleep"
    BY DEF Counted
  <2>2. t \in Counted => num_contenders > 0
    BY Zenon, CardinalityStep DEF Counted, ContendersCounted
  <2>3. QED
    BY <1>17, <2>1, <2>2 DEF TimeOut, Free
<1>18. CASE InterruptSleep(t)
  BY <1>18 DEF InterruptSleep
<1>19. QED
  BY <1>2, <1>3, <1>4, <1>5, <1>6, <1>7, <1>8, <1>9, <1>10, <1>11, <1>12,
     <1>13, <1>14, <1>15, <1>16, <1>17, <1>18
     DEF Call, Proceed

\* Where a thread stands and what it expects.
LEMMA PlaceStep ==
  RWTypeOK /\ PlaceInv /\ RWNext => PlaceInv'
<1> SUFFICES ASSUME RWTypeOK, PlaceInv, RWNext
             PROVE  PlaceInv'
  OBVIOUS
<1> USE RWAssumption DEF RWTypeOK, PCs, Modes, Goto, PlaceInv
<1>1. CASE WakeupToRespondToEmptyCheckpoint
  BY <1>1 DEF WakeupToRespondToEmptyCheckpoint
<1>2. SUFFICES ASSUME NEW t \in Threads,
                      Call(t) \/ Proceed(t) \/ TimeOut(t) \/ InterruptSleep(t)
               PROVE  PlaceInv'
  BY <1>1 DEF RWNext
<1>3. ASSUME NEW m \in Modes \ {"downgraded"}, Lock(t, m) PROVE PlaceInv'
  BY <1>3 DEF Lock
<1>4. ASSUME NEW m \in Modes \ {"downgraded"}, TryLock(t, m) PROVE PlaceInv'
  BY <1>4 DEF TryLock, Acquire, Free
<1>5. CASE Downgrade(t)
  BY <1>5 DEF Downgrade
<1>6. CASE LockFree(t)
  BY <1>6 DEF LockFree, Acquire, Free
<1>7. CASE FinishRWExclusiveLock(t)
  BY <1>7 DEF FinishRWExclusiveLock
<1>8. CASE Contend(t)
  BY <1>8 DEF Contend, Free
<1>9. CASE IncrementContenders(t)
  BY <1>9 DEF IncrementContenders
<1>10. CASE FutexWait(t)
  BY <1>10 DEF FutexWait, SleepIfUnchanged
<1>11. CASE DecrementContenders(t)
  BY <1>11 DEF DecrementContenders
<1>12. CASE SharedUnlock(t)
  BY <1>12 DEF SharedUnlock, LastReaderGone
<1>13. CASE ExclusiveUnlock(t)
  BY <1>13 DEF ExclusiveUnlock
<1>14. CASE Release(t)
  BY <1>14 DEF Release
<1>15. CASE CheckContenders(t)
  BY <1>15 DEF CheckContenders, AfterWake
<1>16. CASE Wake(t)
  BY <1>16 DEF Wake, AfterWake
<1>17. CASE TimeOut(t)
  BY <1>17 DEF TimeOut, Free
<1>18. CASE InterruptSleep(t)
  BY <1>18 DEF InterruptSleep
<1>19. QED
  BY <1>2, <1>3, <1>4, <1>5, <1>6, <1>7, <1>8, <1>9, <1>10, <1>11, <1>12,
     <1>13, <1>14, <1>15, <1>16, <1>17, <1>18
     DEF Call, Proceed

\* Exclusion, and the number of readers in state_.
LEMMA ExclusionStep ==
  RWTypeOK /\ PlaceInv /\ ReadersExcludeWriters /\ RWNext => ReadersExcludeWriters'
<1> SUFFICES ASSUME RWTypeOK, PlaceInv, ReadersExcludeWriters, RWNext
             PROVE  ReadersExcludeWriters'
  OBVIOUS
<1> USE RWAssumption DEF RWTypeOK, PCs, Modes, Goto
<1>a. ASSUME UNCHANGED state, Readers' = Readers,
             \A u \in Threads : (Writes(u)' <=> Writes(u)) /\ (Reads(u)' <=> Reads(u)),
             \A u \in Threads : exclusive_owner' = u <=> pc'[u] = "exclusive"
      PROVE  ReadersExcludeWriters'
  BY <1>a DEF ReadersExcludeWriters
<1>1. CASE WakeupToRespondToEmptyCheckpoint
  BY <1>1 DEF WakeupToRespondToEmptyCheckpoint, ReadersExcludeWriters, Writes, Reads, Readers
<1>2. SUFFICES ASSUME NEW t \in Threads,
                      Call(t) \/ Proceed(t) \/ TimeOut(t) \/ InterruptSleep(t)
               PROVE  ReadersExcludeWriters'
  BY <1>1 DEF RWNext
<1>3. ASSUME NEW m \in Modes \ {"downgraded"}, Lock(t, m) PROVE ReadersExcludeWriters'
  BY <1>3, <1>a DEF Lock, Readers, Reads, Writes, PlaceInv, ReadersExcludeWriters
<1>4. ASSUME NEW m \in Modes \ {"downgraded"}, TryLock(t, m) PROVE ReadersExcludeWriters'
  <2>1. CASE m = "shared"
    <3>1. /\ Readers' = Readers \cup {t} /\ t \notin Readers
          /\ state >= 0 /\ state' = state + 1
          /\ \A u \in Threads : ~Writes(u)'
          /\ \A u \in Threads : exclusive_owner' # u /\ pc'[u] # "exclusive"
      BY <1>4, <2>1 DEF TryLock, Acquire, Free, Readers, Reads, Writes, PlaceInv, ReadersExcludeWriters
    <3>2. Readers \subseteq Threads /\ Cardinality(Readers') = Cardinality(Readers) + 1
      BY <3>1, CardinalityStep DEF Readers
    <3>3. state' = Cardinality(Readers')
      BY <3>1, <3>2 DEF ReadersExcludeWriters
    <3>4. QED
      BY <3>1, <3>3 DEF ReadersExcludeWriters
  <2>2. CASE m # "shared"
    <3>1. /\ state = 0 /\ state' = -1
          /\ \A u \in Threads : u \notin Readers /\ ~Writes(u)
      <4>1. state = 0 /\ state' = -1
        BY <1>4, <2>2 DEF TryLock, Acquire, Free
      <4>2. \A u \in Threads : u \in Readers => Cardinality(Readers) > 0
        BY Zenon, CardinalityStep DEF Readers
      <4>3. QED
        BY <4>1, <4>2 DEF ReadersExcludeWriters
    <3>2. \A u \in Threads : ~Reads(u)' /\ (Writes(u)' <=> u = t)
      BY <1>4, <2>2, <3>1 DEF TryLock, Acquire, Free, Readers, Reads, Writes, PlaceInv
    <3>3. \A u \in Threads : exclusive_owner' = u <=> pc'[u] = "exclusive"
      BY <1>4, <2>2 DEF TryLock, Acquire, Free, ReadersExcludeWriters
    <3>4. QED
      BY <3>1, <3>2, <3>3 DEF ReadersExcludeWriters
  <2>3. QED
    BY <2>1, <2>2
<1>5. CASE Downgrade(t)
  <2>1. /\ \A u \in Threads : ~Writes(u)' /\ (Reads(u)' <=> u = t)
        /\ \A u \in Threads : exclusive_owner' # u /\ pc'[u] # "exclusive"
    BY <1>5 DEF Downgrade, Reads, Writes, ReadersExcludeWriters
  <2>2. state' = 1 /\ Readers' = {t}
    BY <1>5, <2>1 DEF Downgrade, Readers
  <2>3. Cardinality(Readers') = 1
    BY Zenon, <2>2, FS_Singleton
  <2>4. QED
    BY <2>1, <2>2, <2>3 DEF ReadersExcludeWriters
<1>6. CASE LockFree(t)
  <2>1. CASE mode[t] = "shared"
    <3>1. /\ Readers' = Readers \cup {t} /\ t \notin Readers
          /\ state >= 0 /\ state' = state + 1
          /\ \A u \in Threads : ~Writes(u)'
          /\ \A u \in Threads : exclusive_owner' # u /\ pc'[u] # "exclusive"
      BY <1>6, <2>1 DEF LockFree, Acquire, Free, Readers, Reads, Writes, PlaceInv, ReadersExcludeWriters
    <3>2. Readers \subseteq Threads /\ Cardinality(Readers') = Cardinality(Readers) + 1
      BY <3>1, CardinalityStep DEF Readers
    <3>3. state' = Cardinality(Readers')
      BY <3>1, <3>2 DEF ReadersExcludeWriters
    <3>4. QED
      BY <3>1, <3>3 DEF ReadersExcludeWriters
  <2>2. CASE mode[t] # "shared"
    <3>1. /\ state = 0 /\ state' = -1
          /\ \A u \in Threads : u \notin Readers /\ ~Writes(u)
      <4>1. state = 0 /\ state' = -1
        BY <1>6, <2>2 DEF LockFree, Acquire, Free
      <4>2. \A u \in Threads : u \in Readers => Cardinality(Readers) > 0
        BY Zenon, CardinalityStep DEF Readers
      <4>3. QED
        BY <4>1, <4>2 DEF ReadersExcludeWriters
    <3>2. \A u \in Threads : ~Reads(u)' /\ (Writes(u)' <=> u = t)
      BY <1>6, <2>2, <3>1 DEF LockFree, Acquire, Free, Readers, Reads, Writes, PlaceInv
    <3>3. \A u \in Threads : exclusive_owner' = u <=> pc'[u] = "exclusive"
      BY <1>6, <2>2 DEF LockFree, Acquire, Free, ReadersExcludeWriters
    <3>4. QED
      BY <3>1, <3>2, <3>3 DEF ReadersExcludeWriters
  <2>3. QED
    BY <2>1, <2>2
<1>7. CASE FinishRWExclusiveLock(t)
  BY <1>7, <1>a DEF FinishRWExclusiveLock, Readers, Reads, Writes, PlaceInv, ReadersExcludeWriters
<1>8. CASE Contend(t)
  BY <1>8, <1>a DEF Contend, Free, Readers, Reads, Writes, PlaceInv, ReadersExcludeWriters
<1>9. CASE IncrementContenders(t)
  BY <1>9, <1>a DEF IncrementContenders, Readers, Reads, Writes, PlaceInv, ReadersExcludeWriters
<1>10. CASE FutexWait(t)
  BY <1>10, <1>a DEF FutexWait, SleepIfUnchanged, Readers, Reads, Writes, PlaceInv, ReadersExcludeWriters
<1>11. CASE DecrementContenders(t)
  BY <1>11, <1>a DEF DecrementContenders, Readers, Reads, Writes, PlaceInv, ReadersExcludeWriters
<1>12. CASE SharedUnlock(t)
  <2>1. /\ Readers' = Readers \ {t} /\ t \in Readers
        /\ \A u \in Threads : ~Writes(u) /\ ~Writes(u)'
        /\ \A u \in Threads : exclusive_owner' # u /\ pc'[u] # "exclusive"
    BY <1>12 DEF SharedUnlock, LastReaderGone, Readers, Reads, Writes, PlaceInv, ReadersExcludeWriters
  <2>2. Cardinality(Readers') = Cardinality(Readers) - 1 /\ Cardinality(Readers) > 0
    BY <2>1, CardinalityStep DEF Readers
  <2>3. state' = Cardinality(Readers') /\ state' # -1
    BY <1>12, <2>1, <2>2 DEF SharedUnlock, ReadersExcludeWriters
  <2>4. QED
    BY <2>1, <2>3 DEF ReadersExcludeWriters
<1>13. CASE ExclusiveUnlock(t)
  BY <1>13, <1>a DEF ExclusiveUnlock, Readers, Reads, Writes, PlaceInv, ReadersExcludeWriters
<1>14. CASE Release(t)
  <2>1. /\ \A u \in Threads : ~Writes(u)' /\ ~Reads(u)'
        /\ \A u \in Threads : exclusive_owner' # u /\ pc'[u] # "exclusive"
    BY <1>14 DEF Release, Reads, Writes, PlaceInv, ReadersExcludeWriters
  <2>2. state' = 0 /\ Cardinality(Readers') = 0
    BY <1>14, <2>1, FS_EmptySet DEF Release, Readers
  <2>3. QED
    BY <2>1, <2>2 DEF ReadersExcludeWriters
<1>15. CASE CheckContenders(t)
  BY <1>15, <1>a DEF CheckContenders, AfterWake, Readers, Reads, Writes, PlaceInv, ReadersExcludeWriters
<1>16. CASE Wake(t)
  BY <1>16, <1>a DEF Wake, AfterWake, Readers, Reads, Writes, PlaceInv, ReadersExcludeWriters
<1>17. CASE TimeOut(t)
  BY <1>17, <1>a DEF TimeOut, Free, Readers, Reads, Writes, PlaceInv, ReadersExcludeWriters
<1>18. CASE InterruptSleep(t)
  BY <1>18, <1>a DEF InterruptSleep, Readers, Reads, Writes, PlaceInv, ReadersExcludeWriters
<1>19. QED
  BY <1>2, <1>3, <1>4, <1>5, <1>6, <1>7, <1>8, <1>9, <1>10, <1>11, <1>12,
     <1>13, <1>14, <1>15, <1>16, <1>17, <1>18
     DEF Call, Proceed

\* The number of contenders.
LEMMA ContendersStep ==
  RWTypeOK /\ ContendersCounted /\ RWNext => ContendersCounted'
<1> SUFFICES ASSUME RWTypeOK, ContendersCounted, RWNext
             PROVE  ContendersCounted'
  OBVIOUS
<1> USE RWAssumption DEF RWTypeOK, PCs, Modes, Goto
<1>a. ASSUME Counted' = Counted, UNCHANGED num_contenders,
             q' \subseteq {u \in Threads : pc'[u] = "asleep"}
      PROVE  ContendersCounted'
  BY <1>a DEF ContendersCounted
<1>1. CASE WakeupToRespondToEmptyCheckpoint
  BY <1>1 DEF WakeupToRespondToEmptyCheckpoint, ContendersCounted, Counted
<1>2. SUFFICES ASSUME NEW t \in Threads,
                      Call(t) \/ Proceed(t) \/ TimeOut(t) \/ InterruptSleep(t)
               PROVE  ContendersCounted'
  BY <1>1 DEF RWNext
<1>3. ASSUME NEW m \in Modes \ {"downgraded"}, Lock(t, m) PROVE ContendersCounted'
  BY <1>3, <1>a DEF Lock, Counted, ContendersCounted
<1>4. ASSUME NEW m \in Modes \ {"downgraded"}, TryLock(t, m) PROVE ContendersCounted'
  BY <1>4, <1>a DEF TryLock, Acquire, Free, Counted, ContendersCounted
<1>5. CASE Downgrade(t)
  BY <1>5, <1>a DEF Downgrade, Counted, ContendersCounted
<1>6. CASE LockFree(t)
  BY <1>6, <1>a DEF LockFree, Acquire, Free, Counted, ContendersCounted
<1>7. CASE FinishRWExclusiveLock(t)
  BY <1>7, <1>a DEF FinishRWExclusiveLock, Counted, ContendersCounted
<1>8. CASE Contend(t)
  BY <1>8, <1>a DEF Contend, Free, Counted, ContendersCounted
<1>9. CASE IncrementContenders(t)
  <2>1. t \notin Counted /\ Counted' = Counted \cup {t} /\ num_contenders' = num_contenders + 1
    BY <1>9 DEF IncrementContenders, Counted
  <2>2. q' \subseteq {u \in Threads : pc'[u] = "asleep"}
    BY <1>9 DEF IncrementContenders, ContendersCounted
  <2>3. Cardinality(Counted') = Cardinality(Counted) + 1
    BY <2>1, CardinalityStep DEF Counted
  <2>4. QED
    BY <2>1, <2>2, <2>3 DEF ContendersCounted
<1>10. CASE FutexWait(t)
  BY <1>10, <1>a DEF FutexWait, SleepIfUnchanged, Counted, ContendersCounted
<1>11. CASE DecrementContenders(t)
  <2>1. t \in Counted /\ Counted' = Counted \ {t} /\ num_contenders' = num_contenders - 1
    BY <1>11 DEF DecrementContenders, Counted
  <2>2. q' \subseteq {u \in Threads : pc'[u] = "asleep"}
    BY <1>11 DEF DecrementContenders, ContendersCounted
  <2>3. Cardinality(Counted') = Cardinality(Counted) - 1
    BY <2>1, CardinalityStep DEF Counted
  <2>4. QED
    BY <2>1, <2>2, <2>3 DEF ContendersCounted
<1>12. CASE SharedUnlock(t)
  BY <1>12, <1>a DEF SharedUnlock, LastReaderGone, Counted, ContendersCounted
<1>13. CASE ExclusiveUnlock(t)
  BY <1>13, <1>a DEF ExclusiveUnlock, Counted, ContendersCounted
<1>14. CASE Release(t)
  BY <1>14, <1>a DEF Release, Counted, ContendersCounted
<1>15. CASE CheckContenders(t)
  BY <1>15, <1>a DEF CheckContenders, AfterWake, Counted, ContendersCounted
<1>16. CASE Wake(t)
  BY <1>16, <1>a DEF Wake, AfterWake, Counted, ContendersCounted
<1>17. CASE TimeOut(t)
  <2>1. CASE pc[t] = "lock"
    BY <1>17, <2>1, <1>a DEF TimeOut, Free, Counted, ContendersCounted
  <2>2. CASE pc[t] = "asleep"
    <3>1. t \in Counted /\ Counted' = Counted \ {t} /\ num_contenders' = num_contenders - 1
      BY <1>17, <2>2 DEF TimeOut, Free, Counted
    <3>2. q' \subseteq {u \in Threads : pc'[u] = "asleep"}
      BY <1>17, <2>2 DEF TimeOut, Free, ContendersCounted
    <3>3. Cardinality(Counted') = Cardinality(Counted) - 1
      BY <3>1, CardinalityStep DEF Counted
    <3>4. QED
      BY <3>1, <3>2, <3>3 DEF ContendersCounted
  <2>3. QED
    BY <1>17, <2>1, <2>2 DEF TimeOut
<1>18. CASE InterruptSleep(t)
  BY <1>18, <1>a DEF InterruptSleep, Counted, ContendersCounted
<1>19. QED
  BY <1>2, <1>3, <1>4, <1>5, <1>6, <1>7, <1>8, <1>9, <1>10, <1>11, <1>12,
     <1>13, <1>14, <1>15, <1>16, <1>17, <1>18
     DEF Call, Proceed

\* No sleeper is forgotten: who frees the lock looks for contenders afterwards.
LEMMA SleepersStep ==
  RWInv /\ RWNext => NobodySleepsOutside'
<1> SUFFICES ASSUME RWInv, RWNext
             PROVE  NobodySleepsOutside'
  OBVIOUS
<1> USE RWAssumption DEF RWTypeOK, PCs, Modes, Goto, RWInv, PlaceInv, Free, NobodySleepsOutside, ContendersCounted
<1>1. CASE WakeupToRespondToEmptyCheckpoint
  BY <1>1 DEF WakeupToRespondToEmptyCheckpoint
<1>2. SUFFICES ASSUME NEW t \in Threads,
                      Call(t) \/ Proceed(t) \/ TimeOut(t) \/ InterruptSleep(t)
               PROVE  NobodySleepsOutside'
  BY <1>1 DEF RWNext
<1>3. ASSUME NEW m \in Modes \ {"downgraded"}, Lock(t, m) PROVE NobodySleepsOutside'
  BY <1>3 DEF Lock
<1>4. ASSUME NEW m \in Modes \ {"downgraded"}, TryLock(t, m) PROVE NobodySleepsOutside'
  BY <1>4 DEF TryLock, Acquire, Free
<1>5. CASE Downgrade(t)
  BY <1>5 DEF Downgrade
<1>6. CASE LockFree(t)
  BY <1>6 DEF LockFree, Acquire, Free
<1>7. CASE FinishRWExclusiveLock(t)
  BY <1>7 DEF FinishRWExclusiveLock
<1>8. CASE Contend(t)
  BY <1>8 DEF Contend, Free
<1>9. CASE IncrementContenders(t)
  BY <1>9 DEF IncrementContenders
<1>10. CASE FutexWait(t)
  BY <1>10 DEF FutexWait, SleepIfUnchanged
<1>11. CASE DecrementContenders(t)
  BY <1>11 DEF DecrementContenders
<1>12. CASE SharedUnlock(t)
  BY <1>12 DEF SharedUnlock, LastReaderGone
<1>13. CASE ExclusiveUnlock(t)
  BY <1>13 DEF ExclusiveUnlock
<1>14. CASE Release(t)
  BY <1>14 DEF Release
<1>15. CASE CheckContenders(t)
  <2>1. CASE num_contenders > 0
    BY <1>15, <2>1 DEF CheckContenders, AfterWake, Free, NobodySleepsOutside, ContendersCounted
  <2>2. CASE num_contenders = 0
    <3>1. Counted \subseteq Threads /\ \A u \in q : u \in Counted /\ u \in Threads
      BY DEF Counted, ContendersCounted
    <3>2. ASSUME NEW u \in q PROVE FALSE
      <4>1. Cardinality(Counted) > 0
        BY Zenon, <3>1, CardinalityStep
      <4>2. QED
        BY <2>2, <4>1
    <3>3. QED
      BY <1>15, <3>2 DEF CheckContenders, AfterWake, NobodySleepsOutside
  <2>3. QED
    BY <2>1, <2>2
<1>16. CASE Wake(t)
  BY <1>16 DEF Wake, AfterWake
<1>17. CASE TimeOut(t)
  BY <1>17 DEF TimeOut, Free
<1>18. CASE InterruptSleep(t)
  BY <1>18 DEF InterruptSleep
<1>19. QED
  BY <1>2, <1>3, <1>4, <1>5, <1>6, <1>7, <1>8, <1>9, <1>10, <1>11, <1>12,
     <1>13, <1>14, <1>15, <1>16, <1>17, <1>18
     DEF Call, Proceed

\* RWInv holds in every reachable state, whatever the number of threads.
THEOREM RWInvariance == RWSpec => []RWInv
<1>1. RWInit => RWInv
  <2> SUFFICES ASSUME RWInit PROVE RWInv
    OBVIOUS
  <2>1. Counted = {} /\ Readers = {}
    BY DEF RWInit, Counted, Readers, Reads
  <2>2. ContendersCounted /\ state = Cardinality(Readers)
    BY <2>1, FS_EmptySet DEF RWInit, ContendersCounted
  <2>3. QED
    BY <2>2, RWAssumption
    DEF RWInit, RWInv, RWTypeOK, PCs, Modes, PlaceInv, ReadersExcludeWriters, Writes, Reads,
        NobodySleepsOutside
<1>2. RWInv /\ [RWNext]_rwVars => RWInv'
  <2>1. RWInv /\ RWNext => RWInv'
    BY TypeStep, PlaceStep, ExclusionStep, ContendersStep, SleepersStep DEF RWInv
  <2>2. RWInv /\ UNCHANGED rwVars => RWInv'
    BY DEF rwVars, RWInv, RWTypeOK, PlaceInv, ReadersExcludeWriters, Writes, Reads, Readers,
           ContendersCounted, Counted, NobodySleepsOutside, Free
  <2>3. QED
    BY <2>1, <2>2
<1>3. QED
  BY <1>1, <1>2, PTL DEF RWSpec

\* A writer excludes readers and other writers, and state_ is -1 or the number of readers,
\* however the lock was taken: by a loop, a try-lock, a timed lock or Downgrade.
THEOREM RWExcludes == RWSpec => []ReadersExcludeWriters
BY RWInvariance, PTL DEF RWInv

\* A thread sleeps on state_ only while it is kept out, or while somebody is about to wake
\* all sleepers.
THEOREM RWWakes == RWSpec => []NobodySleepsOutside
BY RWInvariance, PTL DEF RWInv

=============================================================================
