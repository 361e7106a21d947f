----------------------------- MODULE ReentrantLock -----------------------------
(***************************************************************************)
(* What a lock with a wait operation promises, however it is built: only   *)
(* one thread at a time has entered it, any number of times; a thread that *)
(* waits gives up all its entries in one step, and when it returns it has  *)
(* as many as before.  Mutex with its ConditionVariable (FutexMutex) and   *)
(* the lock of an object (Monitor) both keep this promise.                 *)
(***************************************************************************)
EXTENDS Integers

CONSTANT Threads

VARIABLES
  entries,   \* entries[t]: how often t has entered and not left
  saved      \* saved[t]: the entries that t gave up in order to wait

promiseVars == <<entries, saved>>

Free == \A t \in Threads : entries[t] = 0

Enter(t) ==
  /\ Free /\ saved[t] = 0
  /\ entries' = [entries EXCEPT ![t] = 1]
  /\ UNCHANGED saved

EnterAgain(t) ==
  /\ entries[t] > 0
  /\ entries' = [entries EXCEPT ![t] = @ + 1]
  /\ UNCHANGED saved

Leave(t) ==
  /\ entries[t] > 0
  /\ entries' = [entries EXCEPT ![t] = @ - 1]
  /\ UNCHANGED saved

Wait(t) ==
  /\ entries[t] > 0
  /\ entries' = [entries EXCEPT ![t] = 0]
  /\ saved' = [saved EXCEPT ![t] = entries[t]]

\* Notified or not: a wait may be cut short.
Return(t) ==
  /\ Free /\ saved[t] > 0
  /\ entries' = [entries EXCEPT ![t] = saved[t]]
  /\ saved' = [saved EXCEPT ![t] = 0]

PromiseInit ==
  /\ entries = [t \in Threads |-> 0]
  /\ saved = [t \in Threads |-> 0]

PromiseNext ==
  \E t \in Threads : Enter(t) \/ EnterAgain(t) \/ Leave(t) \/ Wait(t) \/ Return(t)

PromiseSpec == PromiseInit /\ [][PromiseNext]_promiseVars

=============================================================================
