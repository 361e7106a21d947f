--------------------------- MODULE SuspendBarrierWait --------------------------
(* How long ThreadList::WaitForSuspendBarrier (runtime/thread_list.cc) waits: the   *)
(* timeouts it adds up, and how thread dumps and debuggers stretch them.           *)
(*                                                                               *)
(* A clock tick stands for a millisecond, and for the nanosecond of the arithmetic. *)
(* Integers are unsigned with wrap-around at Word, as uint64_t at 2^64.            *)
EXTENDS Integers

CONSTANTS None,
          kSuspendBarrierIters, thread_suspend_timeout, kDumpWait, kTracingWait,
          USER_MULTIPLIER,    \* 1 but in user builds
          Slack,              \* the millisecond the CHECK allows
          MaxPending,         \* threads that may have to pass the barrier
          Word,
          MaxTime             \* bound on the clock when a wait returns early

VARIABLES
  attempt_of_4,
  collect_state,
  timeout,
  barrier, cur_val,
  i,                  \* timeouts so far
  timed_out,          \* what WaitOnceForSuspendBarrier returned
  dump_adjustment,
  sigquit,            \* when the thread dump in progress was requested
  now,                \* since start_time
  pc

parameters == <<attempt_of_4, collect_state>>
vars == <<parameters, timeout, barrier, cur_val, i, timed_out, dump_adjustment, sigquit, now, pc>>

\* avg_wait_multiplier is 3 for threads of low priority, which the first attempt ignores
\* and the last one makes up for.
WaitMultiplier(attempt, avg) ==
  CASE attempt = 1 -> 1
    [] attempt = 4 -> 2 * avg - 1
    [] OTHER -> avg

InitialTimeout(attempt, avg) ==
  (IF attempt = 0 THEN thread_suspend_timeout ELSE thread_suspend_timeout \div 4)
    * USER_MULTIPLIER * WaitMultiplier(attempt, avg)

Init ==
  /\ attempt_of_4 \in 0..4
  /\ \E tid_known \in BOOLEAN : collect_state = (tid_known /\ attempt_of_4 \in {0, 4})
  /\ \E avg \in {1, 3} : timeout = InitialTimeout(attempt_of_4, avg)
  /\ barrier \in 0..MaxPending
  /\ cur_val = 0 /\ i = 0 /\ timed_out = FALSE /\ dump_adjustment = 0
  /\ sigquit = None /\ now = 0
  /\ pc = "load"

\* Loads the barrier; 0 is success.
LoadBarrier(next) ==
  /\ cur_val' = barrier
  /\ pc' = IF barrier = 0 THEN "passed" ELSE next

LoadFirst ==
  /\ pc = "load"
  /\ LoadBarrier("first")
  /\ UNCHANGED <<parameters, timeout, barrier, i, timed_out, dump_adjustment, sigquit, now>>

\* WaitOnceForSuspendBarrier: a futex wait on cur_val, which times out or returns early.
WaitOnce(total) ==
  LET wait == ((total % Word) \div kSuspendBarrierIters)
  IN  \/ timed_out' = TRUE /\ barrier = cur_val /\ now' = now + wait
      \/ /\ timed_out' = FALSE
         /\ \E d \in {0, wait \div 2} : now + d <= MaxTime /\ now' = now + d

FirstWait ==
  /\ pc = "first"
  /\ WaitOnce(timeout)
  /\ i' = IF timed_out' THEN 1 ELSE 0
  /\ pc' = "first_done"
  /\ UNCHANGED <<parameters, timeout, barrier, cur_val, dump_adjustment, sigquit>>

\* The thread waited for may be seen to be stopped for tracing.
AfterFirstWait ==
  /\ pc = "first_done"
  /\ LoadBarrier("wait")
  /\ \/ UNCHANGED timeout
     \/ collect_state /\ barrier # 0 /\ timeout' = kTracingWait
  /\ UNCHANGED <<parameters, barrier, i, timed_out, dump_adjustment, sigquit, now>>

NextWait ==
  /\ pc = "wait"
  /\ WaitOnce(timeout + dump_adjustment)
  /\ i' = IF timed_out' THEN i + 1 ELSE i
  /\ pc' = "check"
  /\ UNCHANGED <<parameters, timeout, barrier, cur_val, dump_adjustment, sigquit>>

\* The adjustment, operator for operator.
DumpAdjustment(unscaled) ==
  ((((unscaled * kSuspendBarrierIters) % Word) \div kSuspendBarrierIters) - i) % Word

AfterNextWait ==
  /\ pc = "check"
  /\ LoadBarrier(IF i < kSuspendBarrierIters THEN "wait" ELSE "timed_out")
  /\ dump_adjustment' =
       IF barrier # 0 /\ sigquit # None /\ i < kSuspendBarrierIters
         THEN DumpAdjustment((kDumpWait + sigquit - now) % Word)
         ELSE dump_adjustment
  /\ UNCHANGED <<parameters, timeout, barrier, i, timed_out, sigquit, now>>

\* Other threads: one passes the barrier, or the signal catcher starts or ends a dump.
PassBarrier ==
  /\ barrier > 0
  /\ barrier' = barrier - 1
  /\ UNCHANGED <<parameters, timeout, cur_val, i, timed_out, dump_adjustment, sigquit, now, pc>>

StartDump ==
  /\ sigquit = None
  /\ sigquit' = now
  /\ UNCHANGED <<parameters, timeout, barrier, cur_val, i, timed_out, dump_adjustment, now, pc>>

EndDump ==
  /\ sigquit # None
  /\ sigquit' = None
  /\ UNCHANGED <<parameters, timeout, barrier, cur_val, i, timed_out, dump_adjustment, now, pc>>

Next ==
  \/ LoadFirst \/ FirstWait \/ AfterFirstWait \/ NextWait \/ AfterNextWait
  \/ PassBarrier \/ StartDump \/ EndDump

Spec == Init /\ [][Next]_vars

-------------------------------------------------------------------------------
\* The CHECK_GE after each timeout of the loop: i timeouts take i shares of the timeout.
\* It does not hold when the timeout was replaced after the first wait has timed out.
TimeoutsAddUp ==
  pc = "check" /\ timed_out => now >= (i * timeout) \div kSuspendBarrierIters - Slack

=============================================================================
