------------------------- MODULE MCThreadCheckpointLive -----------------------
(* ThreadCheckpoint with a bound on the operations that are started.                    *)
EXTENDS ThreadCheckpoint, TLC

CONSTANTS t1, t2, t3

CONSTANT MaxCalls   \* how many operations are started

VARIABLE calls      \* how many have been

boundedVars == <<allCheckpointVars, calls>>

BoundedInit == CheckpointInit /\ calls = 0

BoundedNext ==
  \E t \in Threads : \/ Call(t) /\ calls < MaxCalls /\ calls' = calls + 1
                     \/ Step(t) /\ UNCHANGED calls

\* Every thread is scheduled.  The bound is what lets weak fairness do: an
\* operation may be overtaken by others, but not for ever.
BoundedSpec ==
  /\ BoundedInit
  /\ [][BoundedNext]_boundedVars
  /\ \A t \in Threads : WF_boundedVars(CheckpointProceed(t) /\ UNCHANGED calls)
=============================================================================
