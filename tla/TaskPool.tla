------------------------------- MODULE TaskPool -------------------------------
(***************************************************************************)
(* What a thread pool promises to its callers: a function that was added   *)
(* runs once; Wait() returns only when every function that had been added  *)
(* when it was called has finished; and the pool is not gone before all    *)
(* its functions have finished.                                            *)
(***************************************************************************)
CONSTANTS Tasks, Waiters

VARIABLES
  task,    \* what has happened to each function
  owed,    \* the functions a call of Wait() may not return before
  inWait,  \* the waiters that are inside Wait()
  gone     \* the pool is destroyed

poolVars == <<task, owed, inWait, gone>>

PoolInit ==
  /\ task = [t \in Tasks |-> "new"]
  /\ owed = [x \in Waiters |-> {}]
  /\ inWait = {}
  /\ gone = FALSE

Move(t, from, to) ==
  /\ task[t] = from
  /\ task' = [task EXCEPT ![t] = to]
  /\ UNCHANGED <<owed, inWait, gone>>

Add(t) == ~gone /\ Move(t, "new", "added")
Start(t) == ~gone /\ Move(t, "added", "running")
Complete(t) == ~gone /\ Move(t, "running", "done")

CallWait(x) ==
  /\ ~gone
  /\ x \notin inWait
  /\ inWait' = inWait \cup {x}
  /\ owed' = [owed EXCEPT ![x] = {t \in Tasks : task[t] \in {"added", "running"}}]
  /\ UNCHANGED <<task, gone>>

ReturnFromWait(x) ==
  /\ x \in inWait
  /\ \A t \in owed[x] : task[t] = "done"
  /\ inWait' = inWait \ {x}
  /\ owed' = [owed EXCEPT ![x] = {}]
  /\ UNCHANGED <<task, gone>>

(* WaitWithTimeout() returns false.                                        *)
GiveUpWait(x) ==
  /\ x \in inWait
  /\ inWait' = inWait \ {x}
  /\ owed' = [owed EXCEPT ![x] = {}]
  /\ UNCHANGED <<task, gone>>

Destroy ==
  /\ ~gone
  /\ \A t \in Tasks : task[t] \in {"new", "done"}
  /\ gone' = TRUE
  /\ UNCHANGED <<task, owed, inWait>>

PoolNext ==
  \/ \E t \in Tasks : Add(t) \/ Start(t) \/ Complete(t)
  \/ \E x \in Waiters : CallWait(x) \/ ReturnFromWait(x) \/ GiveUpWait(x)
  \/ Destroy

(* A function that was added is run to its end.                            *)
PoolFairness ==
  \A t \in Tasks : WF_poolVars(Start(t)) /\ WF_poolVars(Complete(t))

SafetySpec == PoolInit /\ [][PoolNext]_poolVars

PoolSpec == SafetySpec /\ PoolFairness
=============================================================================
