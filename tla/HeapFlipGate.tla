------------------------------ MODULE HeapFlipGate -----------------------------
(* Thread flips and JNI critical sections: Heap::ThreadFlipBegin, ThreadFlipEnd,    *)
(* IncrementDisableThreadFlip and DecrementDisableThreadFlip of runtime/gc/heap.cc, *)
(* as FlipThreadRoots and the JNI functions use them.                              *)
(*                                                                               *)
(* What is done under thread_flip_lock_ is one step; Wait ends a step.  SuspendAll  *)
(* is reduced to its effect: nobody becomes runnable, and it returns when nobody is. *)
EXTENDS Integers, FiniteSets

CONSTANTS Threads,       \* mutators
          Collector,
          MaxNesting     \* bound on nested critical sections

ASSUME GateAssumption ==
  /\ IsFiniteSet(Threads) /\ Collector \notin Threads /\ MaxNesting \in Nat

VARIABLES
  thread_flip_running, disable_thread_flip_count,
  nesting,       \* disable_thread_flip_count of each thread
  cond,          \* who sleeps in thread_flip_cond_
  runnable,
  stop,          \* all threads are to be suspended
  pc

gate == <<thread_flip_running, disable_thread_flip_count>>
vars == <<gate, nesting, cond, runnable, stop, pc>>

Init ==
  /\ thread_flip_running = FALSE /\ disable_thread_flip_count = 0
  /\ nesting = [t \in Threads |-> 0]
  /\ cond = {}
  /\ runnable = {}
  /\ stop = FALSE
  /\ pc = [t \in Threads \cup {Collector} |-> IF t = Collector THEN "idle" ELSE "native"]

Goto(t, p) == pc' = [pc EXCEPT ![t] = p]

-------------------------------------------------------------------------------
(* Mutators                                                                      *)

\* GetStringCritical and its like: counts, and if not nested leaves runnable to wait.
IncrementDisableThreadFlip(t) ==
  /\ pc[t] = "native" /\ ~stop /\ nesting[t] < MaxNesting
  /\ nesting' = [nesting EXCEPT ![t] = @ + 1]
  /\ Goto(t, IF nesting[t] > 0 THEN "native" ELSE "inc")
  /\ UNCHANGED <<gate, cond, runnable, stop>>

\* Slip: nobody waits for a flip that has not suspended the threads yet.
HeldOffByStop == thread_flip_running /\ stop

HeldOff == thread_flip_running

WaitForFlip(t) ==
  /\ pc[t] = "inc" /\ t \notin cond /\ HeldOff
  /\ cond' = cond \cup {t}
  /\ UNCHANGED <<gate, nesting, runnable, stop, pc>>

PassGate(t) ==
  /\ pc[t] = "inc" /\ t \notin cond /\ ~HeldOff
  /\ disable_thread_flip_count' = disable_thread_flip_count + 1
  /\ Goto(t, "inc_done")
  /\ UNCHANGED <<thread_flip_running, nesting, cond, runnable, stop>>

\* Runnable again in the JNI function, and then native with the array in hand.
ReturnCritical(t) ==
  /\ pc[t] = "inc_done" /\ ~stop
  /\ Goto(t, "native")
  /\ UNCHANGED <<gate, nesting, cond, runnable, stop>>

\* ReleaseStringCritical and its like: runnable until it returns.
DecrementDisableThreadFlip(t) ==
  /\ pc[t] = "native" /\ ~stop /\ nesting[t] > 0
  /\ nesting' = [nesting EXCEPT ![t] = @ - 1]
  /\ IF nesting[t] = 1
       THEN Goto(t, "dec") /\ runnable' = runnable \cup {t}
       ELSE UNCHANGED <<runnable, pc>>
  /\ UNCHANGED <<gate, cond, stop>>

LeaveGate(t) ==
  /\ pc[t] = "dec"
  /\ disable_thread_flip_count' = disable_thread_flip_count - 1
  /\ cond' = IF disable_thread_flip_count = 1 THEN {} ELSE cond
  /\ runnable' = runnable \ {t}
  /\ Goto(t, "native")
  /\ UNCHANGED <<thread_flip_running, nesting, stop>>

-------------------------------------------------------------------------------
(* The collector in FlipThreadRoots                                              *)

\* Slip: does not announce the flip before it waits.
Unannounced == FALSE

AnnounceFlip == TRUE

ThreadFlipBegin ==
  /\ pc[Collector] = "idle"
  /\ thread_flip_running' = AnnounceFlip
  /\ Goto(Collector, "begin")
  /\ UNCHANGED <<disable_thread_flip_count, nesting, cond, runnable, stop>>

WaitForCritical ==
  /\ pc[Collector] = "begin" /\ Collector \notin cond /\ disable_thread_flip_count > 0
  /\ cond' = cond \cup {Collector}
  /\ UNCHANGED <<gate, nesting, runnable, stop, pc>>

\* SuspendAllInternal follows.
FlipBegun ==
  /\ pc[Collector] = "begin" /\ Collector \notin cond /\ disable_thread_flip_count = 0
  /\ stop' = TRUE
  /\ Goto(Collector, "suspend")
  /\ UNCHANGED <<gate, nesting, cond, runnable>>

Flip ==
  /\ pc[Collector] = "suspend" /\ runnable = {}
  /\ Goto(Collector, "flip")
  /\ UNCHANGED <<gate, nesting, cond, runnable, stop>>

ResumeAll ==
  /\ pc[Collector] = "flip"
  /\ stop' = FALSE
  /\ Goto(Collector, "end")
  /\ UNCHANGED <<gate, nesting, cond, runnable>>

ThreadFlipEnd ==
  /\ pc[Collector] = "end"
  /\ thread_flip_running' = FALSE
  /\ cond' = {}
  /\ Goto(Collector, "idle")
  /\ UNCHANGED <<disable_thread_flip_count, nesting, runnable, stop>>

-------------------------------------------------------------------------------
\* The condition variable may wake anybody without a signal.
SpuriousWakeup(t) ==
  /\ t \in cond
  /\ cond' = cond \ {t}
  /\ UNCHANGED <<gate, nesting, runnable, stop, pc>>

Mutator(t) == WaitForFlip(t) \/ PassGate(t) \/ ReturnCritical(t) \/ LeaveGate(t)

Collect == WaitForCritical \/ FlipBegun \/ Flip \/ ResumeAll \/ ThreadFlipEnd

Next ==
  \/ \E t \in Threads :
       IncrementDisableThreadFlip(t) \/ DecrementDisableThreadFlip(t) \/ Mutator(t)
  \/ ThreadFlipBegin \/ Collect
  \/ \E t \in Threads \cup {Collector} : SpuriousWakeup(t)

Spec == Init /\ [][Next]_vars

\* Threads are scheduled, and no critical section lasts for ever.
FairSpec ==
  /\ Spec
  /\ WF_vars(Collect)
  /\ \A t \in Threads : WF_vars(Mutator(t))
  /\ \A t \in Threads : WF_vars(DecrementDisableThreadFlip(t))
  /\ \A t \in Threads : SF_vars(DecrementDisableThreadFlip(t) /\ nesting[t] = 1)

-------------------------------------------------------------------------------
(* Properties                                                                    *)

GateTypeOK ==
  /\ thread_flip_running \in BOOLEAN
  /\ disable_thread_flip_count \in Nat
  /\ nesting \in [Threads -> 0..MaxNesting]
  /\ cond \subseteq Threads \cup {Collector}
  /\ runnable \subseteq Threads
  /\ stop \in BOOLEAN
  /\ pc \in [Threads \cup {Collector} -> {"native", "inc", "inc_done", "dec", "idle", "begin",
                                         "suspend", "flip", "end"}]
  /\ \A t \in Threads : pc[t] \in {"native", "inc", "inc_done", "dec"}
  /\ pc[Collector] \in {"idle", "begin", "suspend", "flip", "end"}

\* The threads that disable_thread_flip_count_ stands for.
Passed == {t \in Threads : pc[t] \in {"inc_done", "dec"} \/ (pc[t] = "native" /\ nesting[t] > 0)}

\* Each thread in a critical section is counted once, however nested.
CountExact == disable_thread_flip_count = Cardinality(Passed)

GateControl ==
  /\ \A t \in Threads :
       /\ pc[t] \in {"inc", "inc_done"} => nesting[t] > 0
       /\ pc[t] = "dec" => nesting[t] = 0
       /\ t \in runnable <=> pc[t] = "dec"
  /\ thread_flip_running <=> pc[Collector] # "idle"
  /\ stop <=> pc[Collector] \in {"suspend", "flip"}

\* Whoever sleeps in thread_flip_cond_ has a reason to: no broadcast was missed.
SleepersHaveReason ==
  /\ \A t \in Threads \cap cond : pc[t] = "inc" /\ thread_flip_running
  /\ Collector \in cond => pc[Collector] = "begin" /\ Passed # {}

\* From the end of ThreadFlipBegin to ThreadFlipEnd nobody is in a critical section, so no
\* array moves under native code.
FlipExcludesCritical == pc[Collector] \in {"suspend", "flip", "end"} => Passed = {}

\* The gate between flips and critical sections is sound: exact count, exclusion, and no
\* sleeper on either side that nobody will wake.
GateInv ==
  GateTypeOK /\ CountExact /\ GateControl /\ SleepersHaveReason /\ FlipExcludesCritical

\* "so that frequent JNI critical enter/exits won't starve GC": the flip starts although
\* threads enter and leave critical sections without end, because newcomers wait.
FlipNotStarved == pc[Collector] = "begin" ~> pc[Collector] = "suspend"

=============================================================================
