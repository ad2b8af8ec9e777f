------------------------------ MODULE TaskServer ------------------------------
(***************************************************************************)
(* A task of util/thread/task.h behind the RPC methods of                  *)
(* util/thread/task_server.h.  Every Start call runs the task if nobody    *)
(* else is running it, enters the run into History, and leaves a detached  *)
(* thread behind that waits for the result and enters it, too.  All calls  *)
(* share one Task object: the flag locked_, the flag running_ and the one  *)
(* future future_.                                                         *)
(***************************************************************************)
EXTENDS Naturals, FiniteSets

CONSTANTS
  Calls,      \* the Start calls; a call that starts the task is also a run
  None,       \* an invalid future_
  MaxHistory  \* 10 in the code

ASSUME TaskServerAssumption == None \notin Calls /\ MaxHistory \in Nat \ {0}

VARIABLES
  locked,   \* locked_
  running,  \* running_
  future,   \* the run whose result future_ gives, or None
  result,   \* what the function of a run does: "none", "running", "true", "false"
  pc,       \* where a call, and then its detached thread, is
  held,     \* the run whose state future_.get() of a call has in hand
  got,      \* what wait() returned to the detached thread
  start,    \* the start time of a run in History
  clock,    \* History::Now()
  hist,     \* history()[task_id]: a function of the start times
  crashed   \* an exception left a detached thread: the process is gone

flagVars == <<locked, running, future>>
histVars == <<start, clock, hist>>
vars == <<locked, running, future, result, pc, held, got, start, clock, hist, crashed>>

PCs == {"call", "refused", "locked", "marked", "started",
        "wait", "waited", "unmarked", "get", "taken", "update", "done"}

(* What every variable may hold.                                           *)
TypeOK ==
  /\ locked \in BOOLEAN /\ running \in BOOLEAN /\ crashed \in BOOLEAN
  /\ future \in Calls \cup {None}
  /\ result \in [Calls -> {"none", "running", "true", "false"}]
  /\ pc \in [Calls -> PCs]
  /\ held \in [Calls -> Calls \cup {None}]
  /\ got \in [Calls -> {"none", "true", "false"}]
  /\ start \in [Calls -> Nat]
  /\ clock \in Nat
  /\ DOMAIN hist \subseteq 1 .. clock
  /\ \A s \in DOMAIN hist : hist[s] \in [finish : Nat, success : {"true", "false"}]

Init ==
  /\ locked = FALSE /\ running = FALSE
  /\ future = None
  /\ result = [c \in Calls |-> "none"]
  /\ pc = [c \in Calls |-> "call"]
  /\ held = [c \in Calls |-> None]
  /\ got = [c \in Calls |-> "none"]
  /\ start = [c \in Calls |-> 0]
  /\ clock = 0
  /\ hist = [s \in {} |-> [finish |-> 0, success |-> "false"]]
  /\ crashed = FALSE

Goto(c, from, to) == ~crashed /\ pc[c] = from /\ pc' = [pc EXCEPT ![c] = to]

-----------------------------------------------------------------------------
(* Task::run(launch::async).                                               *)

TestAndSet(c) ==
  /\ Goto(c, "call", IF locked THEN "refused" ELSE "locked")
  /\ locked' = TRUE
  /\ UNCHANGED <<running, future, result, held, got, histVars, crashed>>

MarkRunning(c) ==
  /\ Goto(c, "locked", "marked")
  /\ running' = TRUE
  /\ UNCHANGED <<locked, future, result, held, got, histVars, crashed>>

StartAsync(c) ==
  /\ Goto(c, "marked", "started")
  /\ future' = c
  /\ result' = [result EXCEPT ![c] = "running"]
  /\ UNCHANGED <<locked, running, held, got, histVars, crashed>>

FunctionReturns(c) ==
  /\ ~crashed
  /\ result[c] = "running"
  /\ \E r \in {"true", "false"} : result' = [result EXCEPT ![c] = r]
  /\ UNCHANGED <<flagVars, pc, held, got, histVars, crashed>>

-----------------------------------------------------------------------------
(* History::Update(): the entry is written, then the oldest one dropped if *)
(* there are too many.                                                     *)

Oldest(h) == CHOOSE s \in DOMAIN h : \A u \in DOMAIN h : s <= u

Updated(s, entry) == [u \in DOMAIN hist \cup {s} |-> IF u = s THEN entry ELSE hist[u]]

(* The entry that was just written is dropped, not the oldest.             *)
Update_DropNew(s, entry) ==
  LET h == Updated(s, entry)
  IN  hist' = IF Cardinality(DOMAIN h) > MaxHistory
                THEN [u \in DOMAIN h \ {s} |-> h[u]] ELSE h

Update(s, entry) ==
  LET h == Updated(s, entry)
  IN  hist' = IF Cardinality(DOMAIN h) > MaxHistory
                THEN [u \in DOMAIN h \ {Oldest(h)} |-> h[u]] ELSE h

(* The rest of Start: note the time, enter the run, detach the thread.     *)
LogStart(c) ==
  /\ Goto(c, "started", "wait")
  /\ clock' = clock + 1
  /\ start' = [start EXCEPT ![c] = clock + 1]
  /\ Update(clock + 1, [finish |-> 0, success |-> "false"])
  /\ UNCHANGED <<flagVars, result, held, got, crashed>>

-----------------------------------------------------------------------------
(* Task::wait() in the detached thread.  A future without a shared state   *)
(* throws, and nobody catches.                                             *)

Finished(c) == result[c] \in {"true", "false"}

(* The lock is given back without a look at the future.                    *)
AwaitFuture_NoWait(c) ==
  /\ Goto(c, "wait", "waited")
  /\ UNCHANGED <<flagVars, result, held, got, histVars, crashed>>

AwaitFuture(c) ==
  /\ future # None
  /\ Finished(future)
  /\ Goto(c, "wait", "waited")
  /\ UNCHANGED <<flagVars, result, held, got, histVars, crashed>>

ClearRunning(c) ==
  /\ Goto(c, "waited", "unmarked")
  /\ running' = FALSE
  /\ UNCHANGED <<locked, future, result, held, got, histVars, crashed>>

ClearLock(c) ==
  /\ Goto(c, "unmarked", "get")
  /\ locked' = FALSE
  /\ UNCHANGED <<running, future, result, held, got, histVars, crashed>>

(* future_.get() finds the state of a run: by now future_ may belong to    *)
(* the next one.                                                           *)
TakeState(c) ==
  /\ future # None
  /\ Goto(c, "get", "taken")
  /\ held' = [held EXCEPT ![c] = future]
  /\ UNCHANGED <<flagVars, result, got, histVars, crashed>>

(* running_ is cleared last, after the lock.                               *)
GetResult_ClearRunning(c) ==
  /\ Goto(c, "taken", "update")
  /\ Finished(held[c])
  /\ got' = [got EXCEPT ![c] = result[held[c]]]
  /\ future' = None
  /\ running' = FALSE
  /\ UNCHANGED <<locked, result, held, histVars, crashed>>

(* It waits for the result and leaves future_ without a state: if run()    *)
(* has assigned to future_ meanwhile, without that of the new run.  (The   *)
(* state in hand may be freed by then; it is read as it was.)              *)
GetResult(c) ==
  /\ Goto(c, "taken", "update")
  /\ Finished(held[c])
  /\ got' = [got EXCEPT ![c] = result[held[c]]]
  /\ future' = None
  /\ UNCHANGED <<locked, running, result, held, histVars, crashed>>

NoState(c) ==
  /\ ~crashed
  /\ pc[c] \in {"wait", "get"}
  /\ future = None
  /\ crashed' = TRUE
  /\ UNCHANGED <<flagVars, result, pc, held, got, histVars>>

(* The default argument Now() may be evaluated before wait() or after it.  *)
LogFinish(c) ==
  /\ Goto(c, "update", "done")
  /\ clock' = clock + 1
  /\ \E t \in start[c] .. clock + 1 : Update(start[c], [finish |-> t, success |-> got[c]])
  /\ UNCHANGED <<flagVars, result, held, got, start, crashed>>

CallStep(c) ==
  \/ TestAndSet(c) \/ MarkRunning(c) \/ StartAsync(c) \/ FunctionReturns(c)
  \/ LogStart(c) \/ AwaitFuture(c) \/ ClearRunning(c) \/ ClearLock(c)
  \/ TakeState(c) \/ GetResult(c) \/ NoState(c) \/ LogFinish(c)

Terminated ==
  /\ crashed \/ \A c \in Calls : pc[c] \in {"refused", "done"}
  /\ UNCHANGED vars

Next == (\E c \in Calls : CallStep(c)) \/ Terminated

Spec == Init /\ [][Next]_vars

-----------------------------------------------------------------------------
Running == {c \in Calls : result[c] = "running"}

(* The task is never run twice in parallel: run() refuses.                 *)
OneRunAtATime == Cardinality(Running) <= 1

(* Status tells the truth about a running task: the detached thread of one *)
(* run does not clear running_ under the next run.                         *)
StatusSeesRun == Running # {} => running

(* History holds the last MaxHistory runs, although the end of a run may   *)
(* be entered long after later runs have begun.                            *)
HistoryKeepsLast ==
  LET starts == {start[c] : c \in Calls} \ {0}
  IN  \A s \in starts :
        s \in DOMAIN hist <=> Cardinality({u \in starts : u > s}) < MaxHistory

(* The history holds the last runs of a task, whatever the order in which  *)
(* their detached threads enter the ends (task_server.h).                  *)
TaskHistory == TypeOK /\ HistoryKeepsLast

(* wait() returns the status of the run that the caller waits for.  It     *)
(* does not: the lock is given back before the result is read.             *)
WaitReturnsOwnResult ==
  \A c \in Calls : pc[c] \in {"update", "done"} => got[c] = result[c]
=============================================================================
