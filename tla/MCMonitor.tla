-------------------------------- MODULE MCMonitor ------------------------------
(* Monitor for TLC, with a bound on the number of operations started.            *)
EXTENDS Monitor

CONSTANTS Waiters,        \* the threads that call wait
          Notifiers,      \* notify and notifyAll
          TryLockers,     \* try to enter
          Hashers,        \* hashCode
          Interrupters,   \* interrupt a waiter
          MaxCalls

VARIABLE calls

mcvars == <<vars, calls>>

MCInit == Init /\ calls = 0

Counted == calls < MaxCalls /\ calls' = calls + 1

MCNext ==
  \/ \E t \in Threads : MonitorEnter(t, FALSE) /\ Counted
  \/ \E t \in TryLockers : MonitorEnter(t, TRUE) /\ Counted
  \/ \E t \in Waiters : Wait(t) /\ Counted
  \/ \E t \in Interrupters, u \in Waiters : Interrupt(t, u) /\ Counted
  \/ \E t \in Notifiers : (Notify(t) \/ NotifyAll(t)) /\ Counted
  \/ \E t \in Hashers : IdentityHashCode(t) /\ Counted
  \/ \E t \in Threads : Exit(t) /\ UNCHANGED calls
  \/ \E t \in Threads : Proceed(t) /\ UNCHANGED calls
  \/ \E t \in Threads : Chance(t) /\ UNCHANGED calls
  \/ Deflate /\ UNCHANGED calls

\* Threads are scheduled, and leave what they entered.
MCSpec ==
  /\ MCInit /\ [][MCNext]_mcvars
  /\ \A t \in Threads : WF_mcvars(Exit(t) /\ UNCHANGED calls)
  /\ \A t \in Threads : WF_mcvars(Proceed(t) /\ UNCHANGED calls)

=============================================================================
