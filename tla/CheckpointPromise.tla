-------------------------- MODULE CheckpointPromise --------------------------
(***************************************************************************)
(* What a checkpoint promises to its caller, whatever threads do           *)
(* meanwhile: when the call is over, the closure has run for every thread  *)
(* it was meant for that is still attached, and it has run for no thread   *)
(* before the call or after it.                                            *)
(***************************************************************************)
CONSTANT Threads

VARIABLES
  attached,  \* the threads of ThreadList::list_
  open,      \* the threads inside a call
  pending    \* pending[r]: for whom the closure of r has yet to run

promiseVars == <<attached, open, pending>>

Attach(t) ==
  /\ t \notin attached
  /\ attached' = attached \cup {t}
  /\ UNCHANGED <<open, pending>>

Detach(t) ==
  /\ t \in attached \ open
  /\ attached' = attached \ {t}
  /\ pending' = [r \in Threads |-> pending[r] \ {t}]
  /\ UNCHANGED open

\* RunCheckpoint is for all threads, RequestSynchronousCheckpoint for one.
Open(r) ==
  /\ r \in attached \ open
  /\ open' = open \cup {r}
  /\ \E S \in {attached} \cup {{t} : t \in attached \ {r}} :
       pending' = [pending EXCEPT ![r] = S]
  /\ UNCHANGED attached

RunFor(r, t) ==
  /\ r \in open
  /\ t \in pending[r]
  /\ pending' = [pending EXCEPT ![r] = @ \ {t}]
  /\ UNCHANGED <<attached, open>>

Close(r) ==
  /\ r \in open
  /\ pending[r] = {}
  /\ open' = open \ {r}
  /\ UNCHANGED <<attached, pending>>

PromiseInit ==
  /\ attached \subseteq Threads
  /\ open = {}
  /\ pending = [r \in Threads |-> {}]

PromiseNext ==
  \E r \in Threads :
    \/ Attach(r)
    \/ Detach(r)
    \/ Open(r)
    \/ Close(r)
    \/ \E t \in Threads : RunFor(r, t)

PromiseSpec == PromiseInit /\ [][PromiseNext]_promiseVars

=============================================================================
