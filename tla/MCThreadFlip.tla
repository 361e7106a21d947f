---------------------------- MODULE MCThreadFlip ----------------------------
(* Instances of ThreadFlip for model checking.                             *)
EXTENDS ThreadFlip, TLC

CONSTANTS t1, t2, t3

CONSTANT MaxCalls   \* how many operations are started

VARIABLE calls      \* how many have been

BoundedInit == FlipInit /\ calls = 0

BoundedNext ==
  \E t \in Threads : \/ FlipCall(t) /\ calls < MaxCalls /\ calls' = calls + 1
                     \/ FlipNextStep(t) /\ UNCHANGED calls

\* Every thread is scheduled, and no operation is overtaken for ever.
BoundedSpec ==
  /\ BoundedInit
  /\ [][BoundedNext]_<<allFlipVars, calls>>
  /\ \A t \in Threads :
       WF_<<allFlipVars, calls>>(FlipProceed(t) /\ UNCHANGED calls)
=============================================================================
