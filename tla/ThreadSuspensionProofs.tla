------------------------ MODULE ThreadSuspensionProofs ------------------------
(***************************************************************************)
(* The theorems about ThreadSuspension.  The inductive invariant is IInv;  *)
(* the modules this one extends prove that steps preserve most of its      *)
(* layers.  First come the layers that count: suspend_count against the    *)
(* requests outstanding, the counter of SuspendAll against the threads it  *)
(* still has to hear from, and, by the counts, that nobody suspends in a   *)
(* circle.                                                                 *)
(***************************************************************************)
EXTENDS ThreadSuspensionBarriers, FiniteSetTheorems

\* The time the solver has for a step.
USE SMTT(30)

\* Threads are finitely many, and so are the attached ones, ...
LEMMA ListFinite == TypeInv => IsFiniteSet(list) /\ Cardinality(list) \in Nat
  BY ThreadsAssumption, FS_Subset, FS_CardinalityType DEF TypeInv, ControlTypes

\* ... and the requests that one of them can have.
LEMMA RequestsFinite ==
  ASSUME TypeInv, NEW t \in Threads
  PROVE  IsFiniteSet(requests[t])
<1>1. IsFiniteSet(Threads \cup {All})
  BY ThreadsAssumption, FS_AddElement
<1>2. requests[t] \subseteq Threads \cup {All}
  BY DEF TypeInv, WordTypes
<1> QED
  BY <1>1, <1>2, FS_Subset, Zenon

\* A new request raises the number of requests by one.
LEMMA AddRequest ==
  ASSUME TypeInv, NEW t \in Threads, NEW r \in Threads \cup {All},
         r \notin requests[t]
  PROVE  Cardinality(requests[t] \cup {r}) = Cardinality(requests[t]) + 1
  BY RequestsFinite, FS_AddElement, Zenon

\* A request taken back lowers it by one, and the last one leaves none.
LEMMA RemoveRequest ==
  ASSUME TypeInv, NEW t \in Threads, NEW r \in requests[t]
  PROVE  /\ Cardinality(requests[t] \ {r}) = Cardinality(requests[t]) - 1
         /\ Cardinality(requests[t]) = 1 <=> requests[t] \ {r} = {}
<1>3. IsFiniteSet(requests[t])
  BY RequestsFinite
<1>4. /\ IsFiniteSet(requests[t] \ {r})
      /\ Cardinality(requests[t] \ {r}) = Cardinality(requests[t]) - 1
  BY <1>3, FS_RemoveElement, Zenon
<1>5. Cardinality(requests[t]) \in Nat
  BY <1>3, FS_CardinalityType
<1>6. Cardinality(requests[t] \ {r}) = 0 <=> requests[t] \ {r} = {}
  BY <1>4, FS_EmptySet, Zenon
<1> QED
  BY <1>4, <1>5, <1>6

\* IncrementSuspendCount keeps the count of an attached thread right, ...
LEMMA IncrementCounts ==
  ASSUME TypeInv, CountsMatchRequests, NEW t \in Threads, NEW v \in Threads,
         NEW r \in Threads \cup {All}, NEW all, NEW one,
         r \notin requests[v], v \in list', list \subseteq list',
         IncrementSuspendCount(v, r, all, one)
  PROVE  Counts(t)'
<1>1. Counts(t) /\ Counts(v)
  BY DEF CountsMatchRequests, Counts
<1>2. Cardinality(requests[v] \cup {r}) = Cardinality(requests[v]) + 1
  BY AddRequest
<1>3. /\ suspend_count \in [Threads -> Int]
      /\ requests \in [Threads -> SUBSET (Threads \cup {All})]
      /\ flags \in [Threads -> SUBSET ThreadFlag]
  BY DEF TypeInv, WordTypes
<1>4. CASE t = v
  BY <1>1, <1>2, <1>3, <1>4 DEF Counts, IncrementSuspendCount
<1>5. CASE t # v
  BY <1>1, <1>3, <1>5 DEF Counts, IncrementSuspendCount
<1> QED
  BY <1>4, <1>5, Zenon

\* ... and so does DecrementSuspendCount.
LEMMA DecrementCounts ==
  ASSUME TypeInv, CountsMatchRequests, NEW t \in Threads, NEW v \in Threads,
         NEW r \in requests[v], NEW all, NEW one, UNCHANGED list,
         DecrementSuspendCount(v, r, {}) \/
         DecrementSuspendCount(v, r, InactiveBarrierFlag(all, one))
  PROVE  Counts(t)'
<1>1. Counts(t) /\ Counts(v)
  BY DEF CountsMatchRequests, Counts
<1>2. /\ Cardinality(requests[v] \ {r}) = Cardinality(requests[v]) - 1
      /\ Cardinality(requests[v]) = 1 <=> requests[v] \ {r} = {}
  BY RemoveRequest, Zenon
<1>3. /\ suspend_count \in [Threads -> Int]
      /\ requests \in [Threads -> SUBSET (Threads \cup {All})]
      /\ flags \in [Threads -> SUBSET ThreadFlag]
  BY DEF TypeInv, WordTypes
<1>4. PICK cleared : /\ DecrementSuspendCount(v, r, cleared)
                     /\ cleared \subseteq {"kActiveSuspendBarrier"}
  BY DEF InactiveBarrierFlag
<1>5. CASE t = v
  <2>1. requests'[t] = requests[v] \ {r} /\ suspend_count'[t] = suspend_count[v] - 1
    BY <1>3, <1>4, <1>5 DEF DecrementSuspendCount
  <2>2. "kSuspendRequest" \in flags'[t] <=> requests'[t] # {}
    BY <1>1, <1>2, <1>3, <1>4, <1>5, <2>1 DEF Counts, DecrementSuspendCount
  <2> QED
    BY <1>1, <1>2, <1>5, <2>1, <2>2 DEF Counts
<1>6. CASE t # v
  BY <1>1, <1>3, <1>4, <1>6 DEF Counts, DecrementSuspendCount
<1> QED
  BY <1>5, <1>6, Zenon

\* TypeInv is inductive, relative to the frames of SuspendThread and SuspendAll.
LEMMA TypeStep ==
  ASSUME TypeInv, FrameInv, AllRequestsInv, [Next]_vars
  PROVE  TypeInv'
  BY ListFinite, WordTypesStep, FrameTypesStep, ControlTypesStep DEF TypeInv

\* suspend_count_ follows the requests.
LEMMA CountsStep ==
  ASSUME TypeInv, ControlInv, FrameInv, ExitInv, AllRequestsInv,
         CountsMatchRequests, [Next]_vars
  PROVE  CountsMatchRequests'
<1> SUFFICES ASSUME NEW u \in Threads, Counts(u), list \subseteq Threads,
                    flags \in [Threads -> SUBSET ThreadFlag],
                    requests \in [Threads -> SUBSET (Threads \cup {All})]
             PROVE  Counts(u)'
  BY DEF CountsMatchRequests, Counts, TypeInv, WordTypes, ControlTypes
<1>1. CASE WordsKept
  BY <1>1 DEF WordsKept, Counts
<1>2. ASSUME NEW s \in Threads, RequestSuspend(s)
      PROVE  Counts(u)'
  <2>1. Frame(s) /\ Exit(s) /\ Seeking(s) /\ Watching(s) /\ pc[s] = "st_try"
    BY <1>2 DEF FrameInv, ExitInv, RequestSuspend, Seeking, Watching
  <2>2. target[s] \in Threads /\ s \notin requests[target[s]] /\ target[s] \in list
    BY <2>1 DEF Frame, Exit
  <2> QED
    BY <1>2, <2>2, IncrementCounts DEF RequestSuspend
<1>3. ASSUME NEW s \in Threads, GiveUp(s)
      PROVE  Counts(u)'
  <2>1. target[s] \in Threads /\ s \in requests[target[s]]
    BY <1>3 DEF GiveUp, FrameInv, Frame, Waiting
  <2> QED
    BY <1>3, <2>1, DecrementCounts DEF GiveUp
<1>4. ASSUME NEW s \in Threads, Resume(s)
      PROVE  Counts(u)'
  <2>1. PICK v \in list : s \in requests[v] /\ DecrementSuspendCount(v, s, {})
    BY <1>4, Zenon DEF Resume
  <2> QED
    BY <1>4, <2>1, DecrementCounts DEF Resume
<1>5. ASSUME NEW s \in Threads, SuspendAllIncrement(s)
      PROVE  Counts(u)'
  <2>1. PICK v \in todo[s] : IncrementSuspendCount(v, All, s, None)
    BY <1>5, Zenon DEF SuspendAllIncrement
  <2>2. todo[s] \subseteq list \ {s}
    BY <1>5 DEF SuspendAllIncrement, AllRequestsInv, AllLoop
  <2>3. v \in Threads /\ All \notin requests[v]
    BY <1>5, <2>2 DEF SuspendAllIncrement, AllRequestsInv, AllRequested, AllRequests, AllPC
  <2> QED
    BY <1>5, <2>1, <2>2, <2>3, IncrementCounts DEF SuspendAllIncrement
<1>6. ASSUME NEW s \in Threads, ResumeAllDecrement(s)
      PROVE  Counts(u)'
  <2>1. PICK v \in todo[s] : DecrementSuspendCount(v, All, {})
    BY <1>6, Zenon DEF ResumeAllDecrement
  <2>2. todo[s] \subseteq list \ {s}
    BY <1>6 DEF ResumeAllDecrement, AllRequestsInv, AllLoop
  <2>3. v \in Threads /\ All \in requests[v]
    BY <1>6, <2>2 DEF ResumeAllDecrement, AllRequestsInv, AllRequested, AllRequests, AllPC
  <2> QED
    BY <1>6, <2>1, <2>3, DecrementCounts DEF ResumeAllDecrement
<1>7. ASSUME NEW s \in Threads,
             PassActiveSuspendBarriers(s) \/ CheckSuspended(s) \/ SuspendAllCheck(s)
      PROVE  Counts(u)'
  BY <1>7 DEF Counts, PassActiveSuspendBarriers, CheckSuspended, SuspendAllCheck,
              InactiveBarrierFlag
<1>8. ASSUME NEW t \in Threads, Register(t)
      PROVE  Counts(u)'
  <2>1. t \notin list
    BY <1>8 DEF Register, ControlInv, Attached
  <2>2. All \notin requests[t]
    BY <2>1 DEF CountsMatchRequests
  <2>3. CASE IncrementSuspendCount(t, All, None, None)
    BY <1>8, <2>2, <2>3, IncrementCounts DEF Register
  <2>4. CASE UNCHANGED suspend_count /\ UNCHANGED requests /\ UNCHANGED flags
    BY <1>8, <2>4 DEF Register, Counts
  <2> QED
    BY <1>8, <2>3, <2>4 DEF Register
<1>9. ASSUME NEW t \in Threads, Unregister(t)
      PROVE  Counts(u)'
  <2>1. Counts(t)
    BY DEF CountsMatchRequests, Counts
  <2> QED
    BY <1>9, <2>1 DEF Unregister, Counts
<1> QED
  BY <1>1, <1>2, <1>3, <1>4, <1>5, <1>6, <1>7, <1>8, <1>9, WordsKeptStep, Zenon DEF WordStep

\* The threads a SuspendAll waits for are finitely many, ...
LEMMA PendingFinite ==
  ASSUME TypeInv, NEW s \in Threads
  PROVE  IsFiniteSet(Pending(s)) /\ Cardinality(Pending(s)) \in Nat
<1>1. Pending(s) \subseteq Threads
  BY DEF Pending, TypeInv, FrameTypes
<1> QED
  BY <1>1, ThreadsAssumption, FS_Subset, FS_CardinalityType, Zenon

\* ... and one less when one of them passes the barrier.
LEMMA PendingRemove ==
  ASSUME TypeInv, NEW s \in Threads, NEW t \in Pending(s),
         Pending(s)' = Pending(s) \ {t}
  PROVE  /\ Cardinality(Pending(s))' = Cardinality(Pending(s)) - 1
         /\ Cardinality(Pending(s))' \in Nat
<1>1. /\ IsFiniteSet(Pending(s) \ {t})
      /\ Cardinality(Pending(s) \ {t}) = Cardinality(Pending(s)) - 1
  BY PendingFinite, FS_RemoveElement, Zenon
<1>2. Cardinality(Pending(s) \ {t}) \in Nat
  BY <1>1, FS_CardinalityType, Zenon
<1> QED
  BY <1>1, <1>2, Zenon

\* Only SuspendAll, and a thread that passes its barrier, touch its counter and its barriers.
LEMMA AllAlone ==
  ASSUME TypeInv, NEW t \in Threads
  PROVE  StateChange(t) \/ RetryStep(t) \/ PhaseStep(t) \/ Resume(t) \/ TurnStep(t) \/ Attach(t)
           => \/ UNCHANGED suspendall_barrier /\ UNCHANGED pending_threads
              \/ PassActiveSuspendBarriers(t)
<1> DEFINE Alone == UNCHANGED suspendall_barrier /\ UNCHANGED pending_threads
<1>0. /\ UNCHANGED threadVars => UNCHANGED suspendall_barrier
      /\ UNCHANGED allVars => UNCHANGED pending_threads
  BY DEF threadVars, allVars
<1>1. ASSUME NEW v, NEW r, NEW one, IncrementSuspendCount(v, r, None, one)
      PROVE  UNCHANGED suspendall_barrier
  <2>1. suspendall_barrier \in [Threads -> Threads \cup {None}]
    BY DEF TypeInv, WordTypes
  <2> QED
    BY <1>1, <2>1 DEF IncrementSuspendCount
<1>2. ASSUME StateChange(t)
      PROVE  Alone \/ PassActiveSuspendBarriers(t)
  BY <1>0, <1>2, Zenon
  DEF StateChange, TransitionFromRunnableToSuspended, CheckActiveSuspendBarriers, EnterRunnable,
      TransitionFromSuspendedToRunnable, WaitForResume, Resumed
<1>3. ASSUME RetryStep(t) \/ TurnStep(t)
      PROVE  Alone
  BY <1>0, <1>3, Zenon
  DEF RetryStep, BackOff, Sleep, Relock, SuspendTimesOut,
      TurnStep, SuspendAll, SuspendAllBusy, WaitForOtherSuspendAll
<1>4. ASSUME PhaseStep(t) \/ Resume(t)
      PROVE  Alone
  BY <1>0, <1>1, <1>4, Zenon
  DEF PhaseStep, SuspendThreadByThreadId, FindThread, NoSuchThread, RequestSuspend, TargetExited,
      CheckSuspended, SuspendSucceeded, GiveUp, Resume
<1>5. ASSUME Attach(t)
      PROVE  Alone
  BY <1>0, <1>1, <1>5, Zenon DEF Attach, Register, BeginUnregister, Unregister
<1> HIDE DEF Alone
<1> QED
  BY <1>2, <1>3, <1>4, <1>5, Zenon DEF Alone

\* The counter of SuspendAll follows the threads it waits for.
LEMMA SuspendAllStep ==
  ASSUME TypeInv, ControlInv, AllInv, AllRequestsInv, SuspendAllInv, [Next]_vars
  PROVE  SuspendAllInv'
<1> DEFINE Counted(u, w) == LinkedSuspendAll(u, w) /\ SuspendAllCount(u)
<1> SUFFICES ASSUME NEW u \in Threads, NEW w \in Threads, Counted(u, w),
                    None \notin Threads,
                    pc \in [Threads -> PC],
                    requests \in [Threads -> SUBSET (Threads \cup {All})],
                    suspendall_barrier \in [Threads -> Threads \cup {None}],
                    pending_threads \in [Threads -> Int],
                    todo \in [Threads -> SUBSET Threads],
                    current \in [Threads -> Threads \cup {None}]
             PROVE  Counted(u, w)'
  BY ThreadsAssumption DEF SuspendAllInv, TypeInv, WordTypes, FrameTypes, ControlTypes
<1>0. ASSUME UNCHANGED suspendall_barrier, todo'[u] = todo[u]
      PROVE  Pending(u)' = Pending(u)
  BY <1>0 DEF Pending
<1> USE DEF LinkedSuspendAll, SuspendAllCount
<1>1. CASE UNCHANGED vars
  BY <1>0, <1>1 DEF vars, threadVars, allVars
<1>2. CASE AllKept /\ UNCHANGED suspendall_barrier /\ UNCHANGED pending_threads
  BY <1>0, <1>2 DEF AllKept, AllPC
<1>3. ASSUME NEW t \in Threads, PassActiveSuspendBarriers(t)
      PROVE  Counted(u, w)'
  <2>1. LinkedSuspendAll(u, w)'
    BY <1>3 DEF PassActiveSuspendBarriers
  <2>2. CASE suspendall_barrier[t] = u
    <3>1. pc[u] = "sa_wait" /\ pending_threads[u] = Cardinality(Pending(u))
      BY <1>3, <2>2 DEF PassActiveSuspendBarriers, SuspendAllInv, ControlInv, Locked, CountLockPC
    <3>2. todo[u] = {}
      BY <3>1 DEF AllRequestsInv, AllLoop
    <3>3. t \in Pending(u) /\ Pending(u)' = Pending(u) \ {t}
      BY <1>3, <2>2, <3>2 DEF PassActiveSuspendBarriers, Pending
    <3>4. /\ Cardinality(Pending(u))' = Cardinality(Pending(u)) - 1
          /\ Cardinality(Pending(u))' \in Nat
      BY <3>3, PendingRemove, Zenon
    <3>5. pending_threads'[u] = pending_threads[u] - 1 /\ pc' = pc
      BY <1>3, <2>2 DEF PassActiveSuspendBarriers
    <3> QED
      BY <2>1, <3>1, <3>4, <3>5, Zenon
  <2>3. CASE suspendall_barrier[t] # u
    <3>1. Pending(u)' = Pending(u)
      BY <1>3, <2>3 DEF PassActiveSuspendBarriers, Pending
    <3>2. pc[u] # "sa_check"
      BY <1>3 DEF PassActiveSuspendBarriers, ControlInv, Locked, CountLockPC
    <3> QED
      BY <1>3, <2>1, <2>3, <3>1, <3>2 DEF PassActiveSuspendBarriers
  <2> QED
    BY <2>2, <2>3, Zenon
<1>4. ASSUME NEW s \in Threads, AllStep(s)
      PROVE  Counted(u, w)'
  <2>0. pc[s] \in AllPC /\ pc[u] \in AllPC => s = u
    BY DEF AllInv, OneSuspendAll, AllPC
  <2>1. CASE BeginSuspendAll(s)
    <3>1. LinkedSuspendAll(u, w)'
      BY <2>1 DEF BeginSuspendAll, Goto, threadVars
    <3>2. CASE u = s
      <4>1. \A v \in Threads : suspendall_barrier[v] # s
        BY <2>1 DEF BeginSuspendAll, SuspendAllInv
      <4>2. Pending(s)' = list \ {s}
        BY <2>1, <4>1 DEF BeginSuspendAll, Pending, threadVars
      <4>3. s \in list
        BY <2>1 DEF BeginSuspendAll, ControlInv, Attached
      <4>4. /\ IsFiniteSet(list \ {s})
            /\ Cardinality(list \ {s}) = Cardinality(list) - 1
        BY <4>3, ListFinite, FS_RemoveElement, Zenon
      <4>5. Cardinality(list \ {s}) \in Nat
        BY <4>4, FS_CardinalityType, Zenon
      <4> QED
        BY <2>1, <3>1, <3>2, <4>2, <4>4, <4>5 DEF BeginSuspendAll, Goto
    <3>3. CASE u # s
      BY <1>0, <2>1, <3>1, <3>3 DEF BeginSuspendAll, Goto, threadVars
    <3> QED
      BY <3>2, <3>3, Zenon
  <2>2. CASE SuspendAllIncrement(s)
    <3>1. PICK v \in todo[s] : /\ IncrementSuspendCount(v, All, s, None)
                               /\ current' = [current EXCEPT ![s] = v]
      BY <2>2, Zenon DEF SuspendAllIncrement
    <3>2. /\ requests' = [requests EXCEPT ![v] = @ \cup {All}]
          /\ suspendall_barrier' = [suspendall_barrier EXCEPT ![v] = s]
      BY <3>1, Zenon DEF IncrementSuspendCount
    <3>3. /\ pc[s] = "sa_loop" /\ pc' = [pc EXCEPT ![s] = "sa_check"]
          /\ UNCHANGED todo /\ UNCHANGED pending_threads
      BY <2>2 DEF SuspendAllIncrement, Goto
    <3>4. LinkedSuspendAll(u, w)'
      BY <3>2, <3>3
    <3>5. CASE u = s
      <4>1. Pending(s)' = Pending(s)
        BY <3>2, <3>3 DEF Pending
      <4> QED
        BY <3>1, <3>2, <3>3, <3>4, <3>5, <4>1, Zenon
    <3>6. CASE u # s
      BY <2>0, <3>3, <3>4, <3>6 DEF AllPC
    <3> QED
      BY <3>5, <3>6, Zenon
  <2>3. CASE SuspendAllCheck(s)
    <3>1. /\ pc[s] = "sa_check" /\ pc' = [pc EXCEPT ![s] = "sa_loop"]
          /\ todo' = [todo EXCEPT ![s] = @ \ {current[s]}]
          /\ UNCHANGED requests
      BY <2>3 DEF SuspendAllCheck, Goto
    <3>2. /\ current[s] \in todo[s] /\ current[s] \in Threads
          /\ suspendall_barrier[current[s]] = s
          /\ SuspendAllCount(s)
      BY <3>1 DEF AllRequestsInv, AllLoop, SuspendAllInv
    <3>3. CASE u # s
      <4>1. u # None /\ pc'[u] \notin {"sa_loop", "sa_check", "sa_wait"}
        BY <2>0, <3>1, <3>3 DEF AllPC
      <4> QED
        BY <2>3, <3>1, <3>2, <3>3, <4>1 DEF SuspendAllCheck
    <3>4. CASE u = s /\ IsSuspended(current[s])
      <4>1. /\ suspendall_barrier' = [suspendall_barrier EXCEPT ![current[s]] = None]
            /\ pending_threads' = [pending_threads EXCEPT ![s] = @ - 1]
        BY <2>3, <3>4 DEF SuspendAllCheck
      <4>2. current[s] \in Pending(s) /\ Pending(s)' = Pending(s) \ {current[s]}
        BY <3>1, <3>2, <4>1 DEF Pending
      <4>3. /\ Cardinality(Pending(s))' = Cardinality(Pending(s)) - 1
            /\ Cardinality(Pending(s))' \in Nat
        BY <4>2, PendingRemove, Zenon
      <4> QED
        BY <3>1, <3>2, <3>4, <4>1, <4>3, Zenon
    <3>5. CASE u = s /\ ~IsSuspended(current[s])
      <4>1. UNCHANGED suspendall_barrier /\ UNCHANGED pending_threads
        BY <2>3, <3>5 DEF SuspendAllCheck
      <4>2. Pending(s)' = Pending(s)
        BY <3>1, <3>2, <4>1 DEF Pending
      <4> QED
        BY <3>1, <3>2, <3>5, <4>1, <4>2, Zenon
    <3> QED
      BY <3>3, <3>4, <3>5, Zenon
  <2>4. CASE SuspendAllRequested(s) \/ LockMutator(s)
    BY <1>0, <2>0, <2>4 DEF SuspendAllRequested, LockMutator, AllPC, Goto, threadVars, allVars
  <2>5. CASE AllSuspended(s)
    <3>1. Cardinality(Pending(s)) = 0
      BY <2>5 DEF AllSuspended, SuspendAllInv
    <3>2. Pending(s) = {}
      BY <3>1, PendingFinite, FS_EmptySet
    <3>3. suspendall_barrier[w] # s
      BY <3>2 DEF Pending
    <3> QED
      BY <1>0, <2>0, <2>5, <3>3 DEF AllSuspended, AllPC, Goto, threadVars, allVars
  <2>6. CASE ResumeAll(s)
    BY <1>0, <2>6 DEF ResumeAll, Goto, threadVars
  <2>7. CASE ResumeAllDecrement(s)
    <3>1. /\ pc[s] = "ra_loop" /\ UNCHANGED pc /\ UNCHANGED suspendall_barrier
          /\ UNCHANGED pending_threads /\ UNCHANGED current
      BY <2>7 DEF ResumeAllDecrement
    <3> QED
      BY <2>0, <3>1 DEF AllPC
  <2>8. CASE EndResumeAll(s)
    BY <1>0, <2>8 DEF EndResumeAll, Goto
  <2> HIDE DEF Counted
  <2> QED
    BY <1>4, <2>1, <2>2, <2>3, <2>4, <2>5, <2>6, <2>7, <2>8, Zenon DEF AllStep
<1>5. ASSUME NEW t \in Threads, Register(t) \/ Unregister(t)
      PROVE  Counted(u, w)'
  <2>1. \/ UNCHANGED suspendall_barrier /\ UNCHANGED pending_threads
        \/ PassActiveSuspendBarriers(t)
    BY <1>5, AllAlone, Zenon DEF Attach
  <2>2. /\ \/ pc[t] = "unattached" /\ pc' = [pc EXCEPT ![t] = "native"]
           \/ pc[t] = "unregister" /\ pc' = [pc EXCEPT ![t] = "unattached"]
        /\ UNCHANGED <<todo, current>>
    BY <1>5, Zenon DEF Register, Unregister, Goto, allVars
  <2>3. \A v \in Threads : requests[v] \subseteq requests'[v]
    <3>1. \/ UNCHANGED requests
          \/ requests' = [requests EXCEPT ![t] = requests[t] \cup {All}]
      BY <1>5, Zenon DEF Register, Unregister, IncrementSuspendCount
    <3> QED
      BY <3>1
  <2>4. CASE UNCHANGED suspendall_barrier /\ UNCHANGED pending_threads
    <3>1. Pending(u)' = Pending(u)
      BY <1>0, <2>2, <2>4
    <3> QED
      BY <2>2, <2>3, <2>4, <3>1
  <2> HIDE DEF Counted
  <2> QED
    BY <1>3, <2>1, <2>4, Zenon
<1> HIDE DEF Counted
<1>6. ASSUME NEW t \in Threads, \/ StateChange(t) \/ RetryStep(t) \/ PhaseStep(t) \/ Resume(t)
                               \/ TurnStep(t) \/ BeginUnregister(t)
      PROVE  Counted(u, w)'
  <2>1. AllKept
    BY <1>6, AllKeptStep
  <2>2. \/ UNCHANGED suspendall_barrier /\ UNCHANGED pending_threads
        \/ PassActiveSuspendBarriers(t)
    BY <1>6, AllAlone, Zenon DEF Attach
  <2> QED
    BY <1>2, <1>3, <2>1, <2>2, Zenon
<1> QED
  BY <1>1, <1>4, <1>5, <1>6, Steps, Zenon DEF Attach

\* Only RequestSuspend makes a request on behalf of a single thread.
LEMMA RequestsStep ==
  ASSUME TypeInv, [Next]_vars
  PROVE  \/ \E s \in Threads : RequestSuspend(s)
         \/ \A t \in Threads : requests'[t] \subseteq requests[t] \cup {All}
<1> DEFINE NoneAdded == \A t \in Threads : requests'[t] \subseteq requests[t] \cup {All}
<1>0. requests \in [Threads -> SUBSET (Threads \cup {All})]
  BY DEF TypeInv, WordTypes
<1>1. ASSUME UNCHANGED requests
      PROVE  NoneAdded
  BY <1>1, Zenon
<1>2. ASSUME NEW t, NEW r, NEW cleared, DecrementSuspendCount(t, r, cleared)
      PROVE  NoneAdded
  BY <1>0, <1>2 DEF DecrementSuspendCount
<1>3. ASSUME NEW t, NEW all, NEW one, IncrementSuspendCount(t, All, all, one)
      PROVE  NoneAdded
  BY <1>0, <1>3 DEF IncrementSuspendCount
<1> HIDE DEF NoneAdded
<1>4. ASSUME NEW t \in Threads, WordStep(t)
      PROVE  RequestSuspend(t) \/ NoneAdded
  BY <1>1, <1>2, <1>3, <1>4, Zenon
  DEF WordStep, PassActiveSuspendBarriers, CheckSuspended, GiveUp, Resume, SuspendAllIncrement,
      SuspendAllCheck, ResumeAllDecrement, Register, Unregister
<1>5. WordsKept => NoneAdded
  BY <1>1, Zenon DEF WordsKept
<1> QED
  BY <1>4, <1>5, WordsKeptStep, Zenon DEF NoneAdded

\* SuspendThread backs off while its caller has a request, so that no cycle of
\* requests is closed.
LEMMA CycleStep ==
  TypeInv /\ FrameInv /\ CountsMatchRequests /\ NoSuspendCycle /\ [Next]_vars
    => NoSuspendCycle'
<1> SUFFICES ASSUME TypeInv, FrameInv, CountsMatchRequests, NoSuspendCycle,
                    [Next]_vars, NEW C \in (SUBSET Threads) \ {{}}
             PROVE  \E t \in C : requests'[t] \cap C = {}
  BY DEF NoSuspendCycle
<1>1. PICK t \in C : requests[t] \cap C = {}
  BY DEF NoSuspendCycle
<1>2. All \notin Threads
  BY ThreadsAssumption
<1>3. CASE \A v \in Threads : requests'[v] \subseteq requests[v] \cup {All}
  BY <1>1, <1>2, <1>3
<1>4. ASSUME NEW s \in Threads, RequestSuspend(s)
      PROVE  \E v \in C : requests'[v] \cap C = {}
  <2>1. target[s] \in Threads \ {s}
    BY <1>4 DEF RequestSuspend, FrameInv, Frame, Seeking, Watching
  <2>2. /\ requests \in [Threads -> SUBSET (Threads \cup {All})]
        /\ requests' = [requests EXCEPT ![target[s]] = @ \cup {s}]
    BY <1>4 DEF TypeInv, WordTypes, RequestSuspend, IncrementSuspendCount
  <2>3. CASE s \in C
    <3>1. requests[s] = {}
      <4>1. suspend_count[s] = 0 /\ suspend_count[s] = Cardinality(requests[s])
        BY <1>4 DEF RequestSuspend, CountsMatchRequests
      <4>2. IsFiniteSet(requests[s])
        BY RequestsFinite
      <4> QED
        BY <4>1, <4>2, FS_EmptySet
    <3> QED
      BY <2>1, <2>2, <2>3, <3>1
  <2>4. CASE s \notin C
    BY <1>1, <2>1, <2>2, <2>4
  <2> QED
    BY <2>3, <2>4
<1> QED
  BY <1>3, <1>4, RequestsStep

-------------------------------------------------------------------------------
\* The invariant holds initially, ...
LEMMA InitInv == Init => IInv
<1> SUFFICES ASSUME Init
             PROVE  IInv
  OBVIOUS
<1> USE ThreadsAssumption DEF Init
<1>1. TypeInv
  BY DEF TypeInv, WordTypes, FrameTypes, ControlTypes, PC, Return
<1>2. ControlInv
  BY DEF ControlInv, Returns, Attached, Locked, LeavingPC, EnteringPC, RunnablePC,
    ListLockPC, CountLockPC
<1>3. AllInv
  BY DEF AllInv, OneSuspendAll, AllPC
<1>4. FrameInv
  BY DEF FrameInv, Frame, Seeking, Waiting, Watching, LeavingPC, EnteringPC
<1>5. AllRequestsInv
  BY DEF AllRequestsInv, AllLoop, AllRequested, AllPC
<1>6. ExitInv
  BY DEF ExitInv, Exit, Watching, LeavingPC, EnteringPC
<1>7. CountsMatchRequests
  BY FS_EmptySet DEF CountsMatchRequests
<1>8. Suspend1Inv
  BY DEF Suspend1Inv, Suspend1, LinkedSuspend1, Watching, Waiting, LeavingPC,
    EnteringPC
<1>9. SuspendAllInv
  BY DEF SuspendAllInv, LinkedSuspendAll, SuspendAllCount
<1>10. BarrierFlagInv
  BY DEF BarrierFlagInv, BarrierFlag
<1>11. SuspendedInv
  BY DEF SuspendedInv, Suspended
<1>12. WakeupInv
  BY DEF WakeupInv, Wakeup
<1>13. NoSuspendCycle
  BY DEF NoSuspendCycle
<1> QED
  BY <1>1, <1>2, <1>3, <1>4, <1>5, <1>6, <1>7, <1>8, <1>9, <1>10, <1>11, <1>12,
     <1>13 DEF IInv

\* ... and every step of every thread preserves it.
LEMMA StepInv == IInv /\ [Next]_vars => IInv'
  BY TypeStep, ControlStep, AllInvStep, FrameInvStep, AllRequestsStep, ExitInvStep,
     CountsStep, Suspend1InvStep, SuspendAllStep, BarrierFlagStep, SuspendedStep,
     WakeupStep, CycleStep, Zenon
  DEF IInv

\* IInv holds in every reachable state, for any number of threads.
THEOREM Invariance == Spec => []IInv
  BY InitInv, StepInv, PTL DEF Spec

-------------------------------------------------------------------------------
\* In every reachable state the variables have their types: suspend counts and
\* barriers are not negative, and a barrier of SuspendThread is 0 or 1.
THEOREM TypeCorrect == Spec => []TypeOK
<1>1. IInv => TypeOK
  <2> SUFFICES ASSUME IInv
               PROVE  TypeOK
    OBVIOUS
  <2>1. suspend_count \in [Threads -> Nat]
    <3>1. ASSUME NEW t \in Threads
          PROVE  suspend_count[t] \in Nat
      <4>1. IsFiniteSet(requests[t])
        BY RequestsFinite DEF IInv
      <4> QED
        BY <4>1, FS_CardinalityType DEF IInv, CountsMatchRequests
    <3> QED
      BY <3>1 DEF IInv, TypeInv, WordTypes
  <2>2. barrier \in [Threads -> {0, 1}]
    BY DEF IInv, TypeInv, FrameTypes, Suspend1Inv, Suspend1
  <2>3. pending_threads \in [Threads -> Nat]
    BY DEF IInv, TypeInv, FrameTypes, SuspendAllInv, SuspendAllCount
  <2>4. suspend_all_count \in {0, 1}
    BY DEF IInv, AllInv
  <2> QED
    BY <2>1, <2>2, <2>3, <2>4 DEF IInv, TypeInv, WordTypes, FrameTypes, ControlTypes, TypeOK
<1> QED
  BY <1>1, Invariance, PTL

\* suspend_count_ is the number of outstanding requests, kSuspendRequest says
\* whether there is one, and only attached threads have one.
THEOREM CountsCorrect == Spec => []CountsMatchRequests
  BY Invariance, PTL DEF IInv

\* Threads never suspend each other in a circle.
THEOREM NoCycles == Spec => []NoSuspendCycle
  BY Invariance, PTL DEF IInv

\* At most one SuspendAll is under way.
THEOREM OneAtATime == Spec => []OneSuspendAll
  BY Invariance, PTL DEF IInv, AllInv

\* A SuspendAll that waits for mutator_lock_ or has it has suspended every other
\* attached thread.
LEMMA StoppedWorld == IInv => WorldStopped
<1> SUFFICES ASSUME IInv, mutator_owner # None, NEW t \in list \ {mutator_owner}
             PROVE  IsSuspended(t)
  BY DEF WorldStopped
<1> DEFINE s == mutator_owner
<1>1. s \in Threads /\ t \in Threads
  BY DEF IInv, TypeInv, ControlTypes
<1>2. pc[s] = "sa_stopped"
  BY <1>1 DEF IInv, ControlInv, Locked
<1> HIDE DEF s
<1>3. All \in requests[t]
  BY <1>1, <1>2 DEF IInv, AllRequestsInv, AllRequested, AllRequests, AllPC, s
<1>4. "kSuspendRequest" \in flags[t]
  BY <1>1, <1>3 DEF IInv, CountsMatchRequests
<1>5. suspendall_barrier[t] = None
  <2>1. ASSUME NEW u \in Threads, suspendall_barrier[t] = u
        PROVE  FALSE
    <3>1. pc[u] \in {"sa_loop", "sa_check", "sa_wait"}
      BY <1>1, <2>1 DEF IInv, SuspendAllInv, LinkedSuspendAll
    <3> QED
      BY <1>1, <1>2, <3>1 DEF IInv, AllInv, OneSuspendAll
  <2> QED
    BY <1>1, <2>1 DEF IInv, TypeInv, WordTypes
<1>6. All \notin suspend1_barriers[t]
  BY <1>1, ThreadsAssumption DEF IInv, TypeInv, WordTypes
<1>7. state[t] # "kRunnable"
  BY <1>1, <1>3, <1>5, <1>6 DEF IInv, SuspendedInv, Suspended
<1> QED
  BY <1>4, <1>7 DEF IsSuspended

\* Between SuspendAll and ResumeAll every other attached thread is suspended.
THEOREM SuspendAllStopsTheWorld == Spec => []WorldStopped
  BY StoppedWorld, Invariance, PTL

\* A thread whose suspension has been reported stays suspended and attached
\* until the thread that suspended it calls Resume.
THEOREM SuspensionLasts == Spec => []SuspendedUntilResumed
<1>1. IInv => SuspendedUntilResumed
  <2> SUFFICES ASSUME IInv, NEW s \in Threads, NEW t \in Threads,
                      s \in requests[t], target[s] # t
               PROVE  IsSuspended(t) /\ t \in list
    BY DEF SuspendedUntilResumed
  <2>1. "kSuspendRequest" \in flags[t] /\ t \in list
    BY DEF IInv, CountsMatchRequests
  <2>2. s \notin suspend1_barriers[t]
    BY DEF IInv, Suspend1Inv, LinkedSuspend1
  <2>3. state[t] # "kRunnable"
    BY <2>2, ThreadsAssumption DEF IInv, SuspendedInv, Suspended
  <2> QED
    BY <2>1, <2>3 DEF IsSuspended
<1> QED
  BY <1>1, Invariance, PTL

\* No thread decrements a barrier of a suspender that no longer waits for it.
THEOREM BarriersLive == Spec => []NoDanglingBarrier
<1>1. IInv => NoDanglingBarrier
  <2> SUFFICES ASSUME IInv, NEW s \in Threads, NEW t \in Threads
               PROVE  /\ s \in suspend1_barriers[t] =>
                           /\ target[s] = t
                           /\ barrier[s] = 1
                           /\ \/ pc[s] \in {"st_check", "st_wait", "st_timeout"}
                              \/ ret[s] = "st_wait"
                      /\ suspendall_barrier[t] = s =>
                           /\ pc[s] \in {"sa_loop", "sa_check", "sa_wait"}
                           /\ pending_threads[s] > 0
    BY DEF NoDanglingBarrier
  <2>1. ASSUME s \in suspend1_barriers[t]
        PROVE  /\ target[s] = t
               /\ barrier[s] = 1
               /\ \/ pc[s] \in {"st_check", "st_wait", "st_timeout"}
                  \/ ret[s] = "st_wait"
    BY <2>1 DEF IInv, Suspend1Inv, LinkedSuspend1, Waiting
  <2>2. ASSUME suspendall_barrier[t] = s
        PROVE  /\ pc[s] \in {"sa_loop", "sa_check", "sa_wait"}
               /\ pending_threads[s] > 0
    <3>1. pc[s] \in {"sa_loop", "sa_check", "sa_wait"}
      BY <2>2 DEF IInv, SuspendAllInv, LinkedSuspendAll
    <3>2. pending_threads[s] = Cardinality(Pending(s)) /\ pending_threads[s] \in Nat
      BY <3>1 DEF IInv, SuspendAllInv, SuspendAllCount
    <3>3. Pending(s) # {}
      BY <2>2 DEF Pending
    <3>4. IsFiniteSet(Pending(s))
      BY PendingFinite DEF IInv
    <3>5. Cardinality(Pending(s)) # 0
      BY <3>3, <3>4, FS_EmptySet
    <3> QED
      BY <3>1, <3>2, <3>5
  <2> QED
    BY <2>1, <2>2
<1> QED
  BY <1>1, Invariance, PTL

\* Whoever waits for a barrier waits for a thread that knows it has to pass it.
THEOREM BarriersLinked == Spec => []NoForgottenBarrier
<1>1. IInv => NoForgottenBarrier
  <2> SUFFICES ASSUME IInv, NEW s \in Threads
               PROVE  /\ (pc[s] \in {"st_wait", "st_timeout"} /\ barrier[s] # 0) =>
                           /\ s \in suspend1_barriers[target[s]]
                           /\ "kActiveSuspendBarrier" \in flags[target[s]]
                      /\ pc[s] = "sa_wait" =>
                           /\ pending_threads[s] =
                                Cardinality({t \in Threads : suspendall_barrier[t] = s})
                           /\ \A t \in Threads : suspendall_barrier[t] = s =>
                                "kActiveSuspendBarrier" \in flags[t]
    BY DEF NoForgottenBarrier
  <2>1. ASSUME pc[s] \in {"st_wait", "st_timeout"}, barrier[s] # 0
        PROVE  /\ s \in suspend1_barriers[target[s]]
               /\ "kActiveSuspendBarrier" \in flags[target[s]]
    <3>1. Waiting(s) /\ target[s] \in Threads
      BY <2>1 DEF IInv, FrameInv, Frame, Waiting
    <3>2. s \in suspend1_barriers[target[s]]
      BY <2>1, <3>1 DEF IInv, Suspend1Inv, Suspend1
    <3> QED
      BY <3>1, <3>2 DEF IInv, BarrierFlagInv, BarrierFlag
  <2>2. ASSUME pc[s] = "sa_wait"
        PROVE  /\ pending_threads[s] =
                    Cardinality({t \in Threads : suspendall_barrier[t] = s})
               /\ \A t \in Threads : suspendall_barrier[t] = s =>
                    "kActiveSuspendBarrier" \in flags[t]
    <3>1. todo[s] = {}
      BY <2>2 DEF IInv, AllRequestsInv, AllLoop
    <3>2. Pending(s) = {t \in Threads : suspendall_barrier[t] = s}
      BY <3>1 DEF Pending
    <3>3. pending_threads[s] = Cardinality(Pending(s))
      BY <2>2 DEF IInv, SuspendAllInv, SuspendAllCount
    <3>4. \A t \in Threads : suspendall_barrier[t] = s =>
            "kActiveSuspendBarrier" \in flags[t]
      BY ThreadsAssumption DEF IInv, BarrierFlagInv, BarrierFlag
    <3> QED
      BY <3>2, <3>3, <3>4
  <2> QED
    BY <2>1, <2>2
<1> QED
  BY <1>1, Invariance, PTL

\* Outside the critical sections of thread_suspend_count_lock_, whoever waits on
\* resume_cond_ has a reason to.
THEOREM WakeupsArrive == Spec => []NoLostWakeup
<1>1. IInv => NoLostWakeup
  <2> SUFFICES ASSUME IInv, count_lock = None, NEW t \in resume_waiters
               PROVE  \/ pc[t] = "wait_resume" /\ "kSuspendRequest" \in flags[t]
                      \/ pc[t] = "sa_lock" /\ suspend_all_count # 0
    BY DEF NoLostWakeup
  <2>1. \A s \in Threads : pc[s] # "ra_loop"
    BY ThreadsAssumption DEF IInv, ControlInv, Locked, CountLockPC
  <2>2. t \in Threads
    BY DEF IInv, TypeInv, ControlTypes
  <2> QED
    BY <2>1, <2>2 DEF IInv, WakeupInv, Wakeup
<1> QED
  BY <1>1, Invariance, PTL

\* While the world is stopped, no request to suspend a single thread is made:
\* its caller would have to be runnable.
THEOREM StoppedWorldStaysSo == Spec => NoSuspensionWhileStopped
<1>1. IInv /\ [Next]_vars =>
        [mutator_owner # None =>
           \A t \in Threads : requests'[t] \subseteq requests[t] \cup {All}]_vars
  <2> SUFFICES ASSUME IInv, [Next]_vars, mutator_owner # None
               PROVE  \A t \in Threads : requests'[t] \subseteq requests[t] \cup {All}
    OBVIOUS
  <2>1. ASSUME NEW s \in Threads, RequestSuspend(s)
        PROVE  FALSE
    <3>1. pc[s] = "st_try"
      BY <2>1 DEF RequestSuspend
    <3>2. state[s] = "kRunnable" /\ s \in list /\ s # mutator_owner
      BY <3>1 DEF IInv, ControlInv, Attached, Locked, RunnablePC
    <3> QED
      BY <3>2, StoppedWorld DEF WorldStopped, IsSuspended
  <2> QED
    BY <2>1, RequestsStep DEF IInv
<1> QED
  BY <1>1, Invariance, PTL DEF Spec, NoSuspensionWhileStopped

===============================================================================
