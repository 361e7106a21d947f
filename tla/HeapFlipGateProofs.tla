--------------------------- MODULE HeapFlipGateProofs --------------------------
(* HeapFlipGate for every finite set of mutators: GateInv is inductive, so no       *)
(* critical section overlaps a flip and nobody is left asleep.                     *)
EXTENDS HeapFlipGate, FiniteSetTheorems, TLAPS

\* The time the solver has for a step.
USE SMTT(30)

\* What a change of Passed by one thread does to its size.
LEMMA PassedStep ==
  ASSUME NEW S, S \subseteq Threads, NEW t \in Threads
  PROVE  /\ Cardinality(S) \in Nat
         /\ Cardinality(S) = 0 <=> S = {}
         /\ t \notin S => Cardinality(S \cup {t}) = Cardinality(S) + 1
         /\ t \in S => Cardinality(S \ {t}) = Cardinality(S) - 1
<1>1. IsFiniteSet(S)
  BY GateAssumption, FS_Subset
<1>2. QED
  BY Zenon, <1>1, FS_CardinalityType, FS_AddElement, FS_RemoveElement, FS_EmptySet

LEMMA EmptyPassed == Passed \subseteq Threads /\ (Cardinality(Passed) = 0 <=> Passed = {})
<1>1. Passed \subseteq Threads
  BY DEF Passed
<1>2. IsFiniteSet(Passed)
  BY <1>1, GateAssumption, FS_Subset
<1>3. QED
  BY <1>1, <1>2, FS_EmptySet

\* Types and control, for which a count must not be decremented at zero.
LEMMA ControlStep == GateInv /\ Next => GateTypeOK' /\ GateControl'
<1> SUFFICES ASSUME GateTypeOK, GateControl, CountExact, Next PROVE GateTypeOK' /\ GateControl'
  BY DEF GateInv
<1> USE GateAssumption DEF GateTypeOK, GateControl, Goto, gate
<1>1. ASSUME NEW t \in Threads, IncrementDisableThreadFlip(t) PROVE GateTypeOK' /\ GateControl'
  BY <1>1 DEF IncrementDisableThreadFlip
<1>2. ASSUME NEW t \in Threads, DecrementDisableThreadFlip(t) PROVE GateTypeOK' /\ GateControl'
  BY <1>2 DEF DecrementDisableThreadFlip
<1>3. ASSUME NEW t \in Threads, WaitForFlip(t) PROVE GateTypeOK' /\ GateControl'
  BY <1>3 DEF WaitForFlip
<1>4. ASSUME NEW t \in Threads, PassGate(t) PROVE GateTypeOK' /\ GateControl'
  BY <1>4 DEF PassGate
<1>5. ASSUME NEW t \in Threads, ReturnCritical(t) PROVE GateTypeOK' /\ GateControl'
  BY <1>5 DEF ReturnCritical
<1>6. ASSUME NEW t \in Threads, LeaveGate(t) PROVE GateTypeOK' /\ GateControl'
  <2>1. t \in Passed
    BY <1>6 DEF LeaveGate, Passed
  <2>2. disable_thread_flip_count # 0
    BY <2>1, EmptyPassed DEF CountExact
  <2>3. disable_thread_flip_count - 1 \in Nat
    BY <2>2
  <2>4. QED
    BY <1>6, <2>3 DEF LeaveGate
<1>7. CASE ThreadFlipBegin
  BY <1>7 DEF ThreadFlipBegin, AnnounceFlip
<1>8. CASE WaitForCritical
  BY <1>8 DEF WaitForCritical
<1>9. CASE FlipBegun
  BY <1>9 DEF FlipBegun
<1>10. CASE Flip
  BY <1>10 DEF Flip
<1>11. CASE ResumeAll
  BY Zenon, <1>11 DEF ResumeAll
<1>12. CASE ThreadFlipEnd
  BY Zenon, <1>12 DEF ThreadFlipEnd
<1>13. ASSUME NEW t \in Threads \cup {Collector}, SpuriousWakeup(t)
       PROVE  GateTypeOK' /\ GateControl'
  BY <1>13 DEF SpuriousWakeup
<1>14. QED
  BY <1>1, <1>2, <1>3, <1>4, <1>5, <1>6, <1>7, <1>8, <1>9, <1>10, <1>11, <1>12, <1>13
     DEF Next, Mutator, Collect

\* How each step changes Passed, and with it the count.
LEMMA CountStep == GateInv /\ Next => CountExact'
<1> SUFFICES ASSUME GateTypeOK, GateControl, CountExact, Next PROVE CountExact'
  BY DEF GateInv
<1> USE GateAssumption DEF GateTypeOK, GateControl, Goto, gate
<1>a. ASSUME Passed' = Passed, disable_thread_flip_count' = disable_thread_flip_count
      PROVE  CountExact'
  BY <1>a DEF CountExact
<1>1. ASSUME NEW t \in Threads, IncrementDisableThreadFlip(t) PROVE CountExact'
  <2>1. Passed' = Passed
    BY <1>1 DEF IncrementDisableThreadFlip, Passed
  <2>2. QED
    BY <1>1, <1>a, <2>1 DEF IncrementDisableThreadFlip
<1>2. ASSUME NEW t \in Threads, DecrementDisableThreadFlip(t) PROVE CountExact'
  <2>1. Passed' = Passed
    BY <1>2 DEF DecrementDisableThreadFlip, Passed
  <2>2. QED
    BY <1>2, <1>a, <2>1 DEF DecrementDisableThreadFlip
<1>3. ASSUME NEW t \in Threads, PassGate(t) PROVE CountExact'
  <2>1. t \notin Passed /\ Passed' = Passed \cup {t}
    BY <1>3 DEF PassGate, Passed
  <2>2. Cardinality(Passed \cup {t}) = Cardinality(Passed) + 1
    BY <2>1, EmptyPassed, PassedStep
  <2>3. QED
    BY <1>3, <2>1, <2>2 DEF PassGate, CountExact
<1>4. ASSUME NEW t \in Threads, LeaveGate(t) PROVE CountExact'
  <2>1. t \in Passed /\ Passed' = Passed \ {t}
    BY <1>4 DEF LeaveGate, Passed
  <2>2. Cardinality(Passed \ {t}) = Cardinality(Passed) - 1
    BY <2>1, EmptyPassed, PassedStep
  <2>3. QED
    BY <1>4, <2>1, <2>2 DEF LeaveGate, CountExact
<1>5. ASSUME NEW t \in Threads, ReturnCritical(t) PROVE CountExact'
  <2>1. Passed' = Passed
    BY <1>5 DEF ReturnCritical, Passed
  <2>2. QED
    BY <1>5, <1>a, <2>1 DEF ReturnCritical
<1>6. ASSUME NEW t \in Threads, WaitForFlip(t) PROVE CountExact'
  BY <1>6, <1>a DEF WaitForFlip, Passed
<1>7. CASE ThreadFlipBegin \/ Collect
  <2>1. Passed' = Passed
    BY <1>7 DEF ThreadFlipBegin, Collect, WaitForCritical, FlipBegun, Flip, ResumeAll,
                ThreadFlipEnd, Passed
  <2>2. disable_thread_flip_count' = disable_thread_flip_count
    BY <1>7 DEF ThreadFlipBegin, Collect, WaitForCritical, FlipBegun, Flip, ResumeAll,
                ThreadFlipEnd
  <2>3. QED
    BY <1>a, <2>1, <2>2
<1>8. ASSUME NEW t \in Threads \cup {Collector}, SpuriousWakeup(t) PROVE CountExact'
  BY <1>8, <1>a DEF SpuriousWakeup, Passed
<1>9. QED
  BY <1>1, <1>2, <1>3, <1>4, <1>5, <1>6, <1>7, <1>8 DEF Next, Mutator

\* Newcomers wait once the flip is announced; whoever may let a sleeper go wakes it.
LEMMA GateStep == GateInv /\ Next => SleepersHaveReason' /\ FlipExcludesCritical'
<1> SUFFICES ASSUME GateInv, Next PROVE SleepersHaveReason' /\ FlipExcludesCritical'
  OBVIOUS
<1>e. disable_thread_flip_count = 0 <=> Passed = {}
  BY EmptyPassed DEF GateInv, CountExact
<1> USE GateAssumption
    DEF GateInv, GateTypeOK, GateControl, SleepersHaveReason, FlipExcludesCritical, Goto, gate
<1>1. ASSUME NEW t \in Threads, IncrementDisableThreadFlip(t)
      PROVE  SleepersHaveReason' /\ FlipExcludesCritical'
  <2>1. Passed' = Passed
    BY <1>1 DEF IncrementDisableThreadFlip, Passed
  <2>2. QED
    BY <1>1, <2>1 DEF IncrementDisableThreadFlip
<1>2. ASSUME NEW t \in Threads, DecrementDisableThreadFlip(t)
      PROVE  SleepersHaveReason' /\ FlipExcludesCritical'
  <2>1. Passed' = Passed
    BY <1>2 DEF DecrementDisableThreadFlip, Passed
  <2>2. QED
    BY <1>2, <2>1 DEF DecrementDisableThreadFlip
<1>3. ASSUME NEW t \in Threads, PassGate(t)
      PROVE  SleepersHaveReason' /\ FlipExcludesCritical'
  <2>1. Passed' = Passed \cup {t}
    BY <1>3 DEF PassGate, Passed
  <2>2. QED
    BY <1>3, <2>1 DEF PassGate, HeldOff
<1>4. ASSUME NEW t \in Threads, LeaveGate(t)
      PROVE  SleepersHaveReason' /\ FlipExcludesCritical'
  <2>1. t \in Passed /\ Passed' = Passed \ {t}
    BY <1>4 DEF LeaveGate, Passed
  <2>2. disable_thread_flip_count = 1 \/ Passed' # {}
    <3>1. Cardinality(Passed \ {t}) = Cardinality(Passed) - 1
      BY <2>1, EmptyPassed, PassedStep
    <3>2. Passed \ {t} \subseteq Threads
      BY EmptyPassed
    <3>3. Cardinality(Passed \ {t}) = 0 <=> Passed \ {t} = {}
      BY Zenon, <3>2, PassedStep
    <3>4. QED
      BY <2>1, <3>1, <3>3 DEF CountExact
  <2>3. QED
    BY <1>4, <2>1, <2>2 DEF LeaveGate
<1>5. ASSUME NEW t \in Threads, ReturnCritical(t)
      PROVE  SleepersHaveReason' /\ FlipExcludesCritical'
  <2>1. Passed' = Passed
    BY <1>5 DEF ReturnCritical, Passed
  <2>2. QED
    BY <1>5, <2>1 DEF ReturnCritical
<1>6. ASSUME NEW t \in Threads, WaitForFlip(t)
      PROVE  SleepersHaveReason' /\ FlipExcludesCritical'
  BY <1>6 DEF WaitForFlip, HeldOff, Passed
<1>7. CASE ThreadFlipBegin \/ Collect
  <2>1. Passed' = Passed
    BY <1>7 DEF ThreadFlipBegin, Collect, WaitForCritical, FlipBegun, Flip, ResumeAll,
                ThreadFlipEnd, Passed
  <2>2. CASE ThreadFlipBegin
    BY <2>1, <2>2 DEF ThreadFlipBegin, AnnounceFlip
  <2>3. CASE WaitForCritical
    BY <1>e, <2>1, <2>3 DEF WaitForCritical
  <2>4. CASE FlipBegun
    BY <1>e, <2>1, <2>4 DEF FlipBegun
  <2>5. CASE Flip
    BY <2>1, <2>5 DEF Flip
  <2>6. CASE ResumeAll
    BY <2>1, <2>6 DEF ResumeAll
  <2>7. CASE ThreadFlipEnd
    BY <2>1, <2>7 DEF ThreadFlipEnd
  <2>8. QED
    BY <1>7, <2>2, <2>3, <2>4, <2>5, <2>6, <2>7 DEF Collect
<1>8. ASSUME NEW t \in Threads \cup {Collector}, SpuriousWakeup(t)
      PROVE  SleepersHaveReason' /\ FlipExcludesCritical'
  BY <1>8 DEF SpuriousWakeup, Passed
<1>9. QED
  BY <1>1, <1>2, <1>3, <1>4, <1>5, <1>6, <1>7, <1>8 DEF Next, Mutator

\* GateInv holds in every reachable state, whatever the number of mutators and the
\* depth of nesting.
THEOREM GateInvariance == Spec => []GateInv
<1>1. Init => GateInv
  <2> SUFFICES ASSUME Init PROVE GateInv
    OBVIOUS
  <2>1. Passed = {}
    BY GateAssumption DEF Init, Passed
  <2>2. CountExact
    BY <2>1, FS_EmptySet DEF Init, CountExact
  <2>3. pc[Collector] = "idle" /\ \A t \in Threads : pc[t] = "native"
    BY GateAssumption DEF Init
  <2>4. GateTypeOK
    <3>1. nesting \in [Threads -> 0..MaxNesting]
      BY GateAssumption DEF Init
    <3>2. pc \in [Threads \cup {Collector} -> {"native", "inc", "inc_done", "dec", "idle",
                                             "begin", "suspend", "flip", "end"}]
      BY DEF Init
    <3>3. QED
      BY Zenon, <2>3, <3>1, <3>2 DEF Init, GateTypeOK
  <2>5. GateControl
    BY <2>3 DEF Init, GateControl
  <2>6. SleepersHaveReason /\ FlipExcludesCritical
    BY <2>1, <2>3 DEF Init, SleepersHaveReason, FlipExcludesCritical
  <2>7. QED
    BY <2>2, <2>4, <2>5, <2>6 DEF GateInv
<1>2. GateInv /\ [Next]_vars => GateInv'
  <2>1. GateInv /\ Next => GateInv'
    BY ControlStep, CountStep, GateStep DEF GateInv
  <2>2. GateInv /\ UNCHANGED vars => GateInv'
    BY DEF vars, gate, GateInv, GateTypeOK, CountExact, GateControl, SleepersHaveReason,
           FlipExcludesCritical, Passed
  <2>3. QED
    BY <2>1, <2>2
<1>3. QED
  BY <1>1, <1>2, PTL DEF Spec

\* No JNI critical section overlaps a flip, from the end of ThreadFlipBegin to
\* ThreadFlipEnd.
THEOREM NoFlipInCritical == Spec => []FlipExcludesCritical
BY GateInvariance, PTL DEF GateInv

=============================================================================
