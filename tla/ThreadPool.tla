------------------------------ MODULE ThreadPool ------------------------------
(***************************************************************************)
(* util/thread/thread_pool.h: workers that take functions from a           *)
(* SharedQueue, the atomic counter size_ of functions queued or running,   *)
(* and the mutex and condition variable of Wait().  The workers are the    *)
(* consumers of the queue; a function is a task, added by a caller's       *)
(* thread or by another function while that one runs.                      *)
(***************************************************************************)
EXTENDS SharedQueue, FiniteSetTheorems

CONSTANTS
  Tasks,         \* the functions, each added at most once
  Outside,       \* the callers' threads, as a parent of tasks
  Parent,        \* who adds a task: Outside, or the function that does
  TryTasks,      \* the tasks added with TryAdd(), the others with Add()
  Waiters,       \* the threads that call Wait() or WaitWithTimeout()
  TimedWaiters,  \* those of them that call WaitWithTimeout()
  MaxWaits,      \* bound: calls of Wait() per waiter
  Spurious       \* the threads whose waits may return without a notification

ASSUME ThreadPoolAssumption ==
  /\ Outside \notin Tasks
  /\ Parent \in [Tasks -> Tasks \cup {Outside}]
  /\ TryTasks \subseteq Tasks
  /\ TimedWaiters \subseteq Waiters
  /\ MaxWaits \in Nat
  /\ Spurious \subseteq Consumers \cup Waiters

VARIABLES
  size,    \* size_
  status,  \* how far each task has come
  pc,      \* where each worker is in WorkHorse() / Run() / FuncHandler()
  batch,   \* the functions of Run()'s batch that are not finished
  waiter,  \* where each waiter is in Wait()
  due,     \* history: the tasks a waiter found added when it called Wait()
  waits,   \* calls of Wait() so far
  pool     \* "alive", "finishing" (in ~ThreadPool()), "gone"

taskVars == <<size, status>>
workerVars == <<pc, batch>>
waiterVars == <<waiter, due, waits>>
vars == <<q, producers_finished, cond, flushed, size, status, pc, batch,
          waiter, due, waits, pool>>

(* "counted": Add() has incremented size_, push() is next.  "trying": the  *)
(* same for TryAdd().  "refused": try_push() returned false, the decrement *)
(* is next.  "rejected": TryAdd() returned false.                          *)
TaskStates == {"new", "counted", "trying", "refused", "rejected",
               "queued", "running", "done"}

(* The states of a task in which size_ counts it.                          *)
InSize == {"counted", "trying", "refused", "queued", "running"}

(* What every variable may hold; size_ is never negative, as size()        *)
(* asserts.                                                                *)
TypeOK ==
  /\ QueueTypeOK(Tasks)
  /\ size \in Nat
  /\ status \in [Tasks -> TaskStates]
  /\ pc \in [Consumers -> {"consume", "run", "running", "test", "notify", "empty", "exited"}]
  /\ batch \in [Consumers -> Seq(Tasks)]
  /\ waiter \in [Waiters -> {"idle", "test", "asleep"}]
  /\ due \in [Waiters -> SUBSET Tasks]
  /\ waits \in [Waiters -> 0 .. MaxWaits]
  /\ pool \in {"alive", "finishing", "gone"}

Init ==
  /\ QueueInit
  /\ size = 0
  /\ status = [t \in Tasks |-> "new"]
  /\ pc = [w \in Consumers |-> "consume"]
  /\ batch = [w \in Consumers |-> <<>>]
  /\ waiter = [x \in Waiters |-> "idle"]
  /\ due = [x \in Waiters |-> {}]
  /\ waits = [x \in Waiters |-> 0]
  /\ pool = "alive"

-----------------------------------------------------------------------------
(* Add() and TryAdd().                                                     *)

SetStatus(t, from, to) == status[t] = from /\ status' = [status EXCEPT ![t] = to]

(* A caller's thread may call while the pool is alive, a function while it *)
(* runs.                                                                   *)
MayCall(t) ==
  IF Parent[t] = Outside THEN pool = "alive" ELSE status[Parent[t]] = "running"

AddCount(t) ==
  /\ MayCall(t)
  /\ SetStatus(t, "new", IF t \in TryTasks THEN "trying" ELSE "counted")
  /\ size' = size + 1
  /\ UNCHANGED <<queueVars, workerVars, waiterVars, pool>>

AddPush(t) ==
  /\ SetStatus(t, "counted", "queued")
  /\ Push(t)
  /\ UNCHANGED <<size, workerVars, waiterVars, pool>>

TryAddPush(t) ==
  /\ SetStatus(t, "trying", "queued")
  /\ TryPush(t)
  /\ UNCHANGED <<size, workerVars, waiterVars, pool>>

TryAddFails(t) ==
  /\ SetStatus(t, "trying", "refused")
  /\ TryPushFails
  /\ UNCHANGED <<queueVars, size, workerVars, waiterVars, pool>>

(* The decrement is forgotten when the queue is full.                      *)
TryAddUncount_None(t) ==
  /\ SetStatus(t, "refused", "rejected")
  /\ UNCHANGED <<queueVars, size, workerVars, waiterVars, pool>>

(* The decrement of a failed TryAdd() notifies nobody.                     *)
TryAddUncount(t) ==
  /\ SetStatus(t, "refused", "rejected")
  /\ size' = size - 1
  /\ UNCHANGED <<queueVars, workerVars, waiterVars, pool>>

AddStep(t) ==
  AddPush(t) \/ TryAddPush(t) \/ TryAddFails(t) \/ TryAddUncount(t)

-----------------------------------------------------------------------------
(* A worker: WorkHorse() loops over Run().                                 *)

Goto(w, from, to) == pc[w] = from /\ pc' = [pc EXCEPT ![w] = to]

Block(w) ==
  /\ pc[w] = "consume"
  /\ ConsumeBlock(w)
  /\ UNCHANGED <<taskVars, workerVars, waiterVars, pool>>

Take(w) ==
  /\ Goto(w, "consume", IF NextBatch = <<>> THEN "empty" ELSE "run")
  /\ batch' = [batch EXCEPT ![w] = NextBatch]
  /\ ConsumeTake(w)
  /\ UNCHANGED <<taskVars, waiterVars, pool>>

(* A worker leaves as soon as the producers are finished.                  *)
TestFinished_Eager(w) ==
  /\ pc[w] \in {"consume", "empty"}
  /\ cond[w] # "waiting"
  /\ pc' = [pc EXCEPT ![w] = IF producers_finished THEN "exited" ELSE "consume"]
  /\ UNCHANGED <<queueVars, taskVars, batch, waiterVars, pool>>

TestFinished(w) ==
  /\ Goto(w, "empty", IF producers_finished THEN "exited" ELSE "consume")
  /\ UNCHANGED <<queueVars, taskVars, batch, waiterVars, pool>>

RunTask(w) ==
  /\ Goto(w, "run", "running")
  /\ SetStatus(Head(batch[w]), "queued", "running")
  /\ UNCHANGED <<queueVars, size, batch, waiterVars, pool>>

(* f() returns, which it does not in the middle of an Add(), and size_ is  *)
(* decremented.                                                            *)
TaskReturns(w) ==
  LET t == Head(batch[w])
  IN  /\ Goto(w, "running", "test")
      /\ \A u \in Tasks :
           Parent[u] = t => status[u] \notin {"counted", "trying", "refused"}
      /\ SetStatus(t, "running", "done")
      /\ size' = size - 1
      /\ UNCHANGED <<queueVars, batch, waiterVars, pool>>

(* After FuncHandler(): the next function of the batch, or the next batch. *)
AfterTask(w) == IF Len(batch[w]) > 1 THEN "run" ELSE "consume"

(* size_ is read again: between the decrement and this test others add.    *)
TestEmpty(w) ==
  /\ Goto(w, "test", IF size = 0 THEN "notify" ELSE AfterTask(w))
  /\ batch' = [batch EXCEPT ![w] = IF size = 0 THEN @ ELSE Tail(@)]
  /\ UNCHANGED <<queueVars, taskVars, waiterVars, pool>>

(* Only one of the waiters is notified.                                    *)
NotifyWaiters_One(w) ==
  /\ Goto(w, "notify", AfterTask(w))
  /\ batch' = [batch EXCEPT ![w] = Tail(@)]
  /\ \/ (\A x \in Waiters : waiter[x] # "asleep") /\ UNCHANGED waiter
     \/ \E x \in Waiters : waiter[x] = "asleep" /\ waiter' = [waiter EXCEPT ![x] = "test"]
  /\ UNCHANGED <<queueVars, taskVars, due, waits, pool>>

NotifyWaiters(w) ==
  /\ Goto(w, "notify", AfterTask(w))
  /\ batch' = [batch EXCEPT ![w] = Tail(@)]
  /\ waiter' = [x \in Waiters |-> IF waiter[x] = "asleep" THEN "test" ELSE waiter[x]]
  /\ UNCHANGED <<queueVars, taskVars, due, waits, pool>>

Wakeup(w) ==
  /\ w \in Spurious
  /\ SpuriousWakeup(w)
  /\ UNCHANGED <<taskVars, workerVars, waiterVars, pool>>

WorkerStep(w) ==
  \/ Block(w) \/ Take(w) \/ TestFinished(w) \/ RunTask(w)
  \/ TaskReturns(w) \/ TestEmpty(w) \/ NotifyWaiters(w)

-----------------------------------------------------------------------------
(* Wait() and WaitWithTimeout().                                           *)

Added == {t \in Tasks : status[t] \in {"counted", "queued", "running"}}

WaitCall(x) ==
  /\ pool = "alive"
  /\ waiter[x] = "idle"
  /\ waits[x] < MaxWaits
  /\ waiter' = [waiter EXCEPT ![x] = "test"]
  /\ due' = [due EXCEPT ![x] = Added]
  /\ waits' = [waits EXCEPT ![x] = @ + 1]
  /\ UNCHANGED <<queueVars, taskVars, workerVars, pool>>

WaitReturns(x) ==
  /\ waiter' = [waiter EXCEPT ![x] = "idle"]
  /\ due' = [due EXCEPT ![x] = {}]
  /\ UNCHANGED <<queueVars, taskVars, workerVars, waits, pool>>

(* The predicate is tested and the thread put to sleep with mutex_ held,   *)
(* so no notification falls between the two.                               *)
WaitTest(x) ==
  /\ waiter[x] = "test"
  /\ \/ size = 0 /\ WaitReturns(x)
     \/ /\ size # 0
        /\ waiter' = [waiter EXCEPT ![x] = "asleep"]
        /\ UNCHANGED <<queueVars, taskVars, workerVars, due, waits, pool>>

WaitTimeout(x) ==
  /\ x \in TimedWaiters
  /\ waiter[x] = "asleep"
  /\ WaitReturns(x)

WaiterWakeup(x) ==
  /\ x \in Spurious
  /\ waiter[x] = "asleep"
  /\ waiter' = [waiter EXCEPT ![x] = "test"]
  /\ UNCHANGED <<queueVars, taskVars, workerVars, due, waits, pool>>

-----------------------------------------------------------------------------
(* ~ThreadPool(): Finish() tells the queue and joins the workers.  The     *)
(* program destroys a pool that no thread is calling any more.             *)

DestroyPool ==
  /\ pool = "alive"
  /\ \A x \in Waiters : waiter[x] = "idle"
  /\ \A t \in Tasks : Parent[t] = Outside => status[t] \notin {"counted", "trying", "refused"}
  /\ NotifyProducersFinished
  /\ pool' = "finishing"
  /\ UNCHANGED <<taskVars, workerVars, waiterVars>>

PoolDestroyed ==
  /\ pool = "finishing"
  /\ \A w \in Consumers : pc[w] = "exited"
  /\ pool' = "gone"
  /\ UNCHANGED <<queueVars, taskVars, workerVars, waiterVars>>

(* The timeout thread of the queue, for a pool over a queue that has one.  *)
TimeoutRound ==
  /\ pool # "gone"
  /\ TimeoutConsume
  /\ UNCHANGED <<taskVars, workerVars, waiterVars, pool>>

Terminated == pool = "gone" /\ UNCHANGED vars

Next ==
  \/ \E t \in Tasks : AddCount(t) \/ AddStep(t)
  \/ \E w \in Consumers : WorkerStep(w) \/ Wakeup(w)
  \/ \E x \in Waiters : WaitCall(x) \/ WaitTest(x) \/ WaitTimeout(x) \/ WaiterWakeup(x)
  \/ DestroyPool \/ PoolDestroyed
  \/ TimeoutRound
  \/ Terminated

Spec == Init /\ [][Next]_vars

(* Every thread that can run eventually does, and a function returns.  No  *)
(* caller is obliged to add, to wait or to destroy the pool.               *)
Fairness ==
  /\ \A t \in Tasks : WF_vars(AddStep(t))
  /\ \A w \in Consumers : WF_vars(WorkerStep(w))
  /\ \A x \in Waiters : WF_vars(WaitTest(x))
  /\ WF_vars(PoolDestroyed) /\ WF_vars(TimeoutRound)

FairSpec == Spec /\ Fairness

-----------------------------------------------------------------------------
(* size_ counts exactly the calls in progress and the functions queued or  *)
(* running, although Add(), TryAdd() and FuncHandler() change it outside   *)
(* of every lock.                                                          *)
SizeCounts == size = Cardinality({t \in Tasks : status[t] \in InSize})

(* size_ counts the functions that were added and have not returned, at    *)
(* every step of Add(), TryAdd() and the workers, and no variable leaves   *)
(* its range (thread_pool.h).                                              *)
PoolCounts == TypeOK /\ SizeCounts

(* What the pool promises.  A task counts as added from the increment of   *)
(* Add(), or from the push of TryAdd() on.                                 *)
TaskOf(s) ==
  CASE s \in {"new", "trying", "refused", "rejected"} -> "new"
    [] s \in {"counted", "queued"} -> "added"
    [] s = "running" -> "running"
    [] s = "done" -> "done"

Promise == INSTANCE TaskPool WITH
  task <- [t \in Tasks |-> TaskOf(status[t])],
  owed <- due,
  inWait <- {x \in Waiters : waiter[x] # "idle"},
  gone <- pool = "gone"

(* The pool implements its promise: each function runs once and to its     *)
(* end, Wait() outlasts the functions it found, and so does the pool.      *)
ImplementsTaskPool == Promise!PoolSpec

(* Wait() and WaitWithTimeout() return: the notification that the last     *)
(* function sends is not lost between size_, mutex_ and cond_.             *)
WaitEnds ==
  \A x \in Waiters : (waiter[x] # "idle") ~> (waiter[x] = "idle")

(* ~ThreadPool() returns, even when functions add functions meanwhile.     *)
DestroyEnds == (pool = "finishing") ~> (pool = "gone")
-----------------------------------------------------------------------------
(* Proofs, for every set of workers, waiters and functions, every batch    *)
(* size and capacity, with or without the timeout thread.                  *)

Counted == {t \in Tasks : status[t] \in InSize}

(* A worker that is in the loop over a batch has a function of it left.    *)
BatchInv ==
  \A w \in Consumers : pc[w] \in {"run", "running", "test", "notify"} => batch[w] # <<>>

CountInv == TypeOK /\ IsFiniteSet(Counted) /\ size = Cardinality(Counted) /\ BatchInv

(* What a change of the status of one task does to the set that size_ is   *)
(* the size of.                                                            *)
LEMMA StatusFacts ==
  ASSUME NEW t \in Tasks, NEW from \in TaskStates, NEW to \in TaskStates,
         status \in [Tasks -> TaskStates], IsFiniteSet(Counted), SetStatus(t, from, to)
  PROVE  /\ status' \in [Tasks -> TaskStates]
         /\ IsFiniteSet(Counted')
         /\ Cardinality(Counted) \in Nat /\ Cardinality(Counted') \in Nat
         /\ (from \in InSize <=> to \in InSize) => Cardinality(Counted') = Cardinality(Counted)
         /\ from \notin InSize /\ to \in InSize =>
              Cardinality(Counted') = Cardinality(Counted) + 1
         /\ from \in InSize /\ to \notin InSize =>
              Cardinality(Counted') = Cardinality(Counted) - 1
  <1>1. status' = [status EXCEPT ![t] = to] /\ status[t] = from
    BY DEF SetStatus
  <1>2. status' \in [Tasks -> TaskStates]
    BY <1>1
  <1>3. CASE from \in InSize <=> to \in InSize
    <2>1. Counted' = Counted
      BY <1>1, <1>3 DEF Counted
    <2> QED
      BY <1>2, <1>3, <2>1, FS_CardinalityType
  <1>4. CASE from \notin InSize /\ to \in InSize
    <2>1. Counted' = Counted \cup {t} /\ t \notin Counted
      BY <1>1, <1>4 DEF Counted
    <2> QED
      BY <1>2, <1>4, <2>1, FS_AddElement, FS_CardinalityType
  <1>5. CASE from \in InSize /\ to \notin InSize
    <2>1. Counted' = Counted \ {t} /\ t \in Counted
      BY <1>1, <1>5 DEF Counted
    <2> QED
      BY <1>2, <1>5, <2>1, FS_RemoveElement, FS_CardinalityType
  <1> QED
    BY <1>3, <1>4, <1>5

(* size_ counts the functions, in spite of all interleavings of Add(),     *)
(* TryAdd() and FuncHandler(), and Head(batch) is a function whenever a    *)
(* worker runs one.                                                        *)
THEOREM CountInvariant == Spec => []CountInv
  <1> USE SharedQueueAssumption, ThreadPoolAssumption
      DEF SharedQueueAssumption, ThreadPoolAssumption
  <1>1. Init => CountInv
    <2> SUFFICES ASSUME Init PROVE CountInv
      OBVIOUS
    <2>1. Counted = {}
      BY DEF Init, Counted, InSize
    <2>2. IsFiniteSet(Counted) /\ size = Cardinality(Counted) /\ size \in Nat
      BY <2>1, FS_EmptySet DEF Init
    <2>3. QueueTypeOK(Tasks)
      <3>1. q \in Seq(Tasks)
        BY DEF Init, QueueInit
      <3>2. producers_finished \in BOOLEAN /\ flushed \in BOOLEAN
        BY DEF Init, QueueInit
      <3>3. cond \in [Consumers -> CondStates]
        BY DEF Init, QueueInit, CondStates
      <3> QED
        BY <3>1, <3>2, <3>3 DEF QueueTypeOK
    <2>4. /\ status \in [Tasks -> TaskStates]
          /\ pc \in [Consumers -> {"consume", "run", "running", "test", "notify", "empty", "exited"}]
          /\ waiter \in [Waiters -> {"idle", "test", "asleep"}]
          /\ pool \in {"alive", "finishing", "gone"}
      BY DEF Init, TaskStates
    <2>5. batch \in [Consumers -> Seq(Tasks)] /\ due \in [Waiters -> SUBSET Tasks]
      BY DEF Init
    <2>6. waits \in [Waiters -> 0 .. MaxWaits]
      BY DEF Init
    <2>7. BatchInv
      BY DEF Init, BatchInv
    <2> QED
      BY <2>2, <2>3, <2>4, <2>5, <2>6, <2>7 DEF CountInv, TypeOK
  <1>2. CountInv /\ [Next]_vars => CountInv'
    <2> SUFFICES ASSUME CountInv, [Next]_vars PROVE CountInv'
      OBVIOUS
    <2>0. TypeOK /\ IsFiniteSet(Counted) /\ size = Cardinality(Counted) /\ BatchInv
      BY DEF CountInv
    <2>1. ASSUME UNCHANGED <<size, status>>
          PROVE  IsFiniteSet(Counted') /\ size' = Cardinality(Counted')
      BY <2>0, <2>1 DEF Counted
    <2>2. CASE UNCHANGED vars
      BY <2>0, <2>1, <2>2 DEF vars, TypeOK, QueueTypeOK, BatchInv, CountInv
    <2>3. ASSUME NEW t \in Tasks, AddCount(t) PROVE CountInv'
      <3>1. /\ SetStatus(t, "new", IF t \in TryTasks THEN "trying" ELSE "counted")
            /\ size' = size + 1
            /\ UNCHANGED <<queueVars, workerVars, waiterVars, pool>>
        BY <2>3 DEF AddCount
      <3>2. /\ status' \in [Tasks -> TaskStates] /\ IsFiniteSet(Counted')
            /\ size' = Cardinality(Counted') /\ size' \in Nat
        BY <2>0, <3>1, StatusFacts DEF TypeOK, TaskStates, InSize
      <3> QED
        BY <2>0, <3>1, <3>2 DEF TypeOK, QueueTypeOK, BatchInv, CountInv, queueVars, workerVars, waiterVars
    <2>4. ASSUME NEW t \in Tasks, AddStep(t) PROVE CountInv'
      <3>1. ASSUME Push(t), NEW from \in {"counted", "trying"}, SetStatus(t, from, "queued"),
                   UNCHANGED <<size, workerVars, waiterVars, pool>>
            PROVE  CountInv'
        <4>1. /\ status' \in [Tasks -> TaskStates] /\ IsFiniteSet(Counted')
              /\ size' = Cardinality(Counted')
          BY <2>0, <3>1, StatusFacts DEF TypeOK, TaskStates, InSize
        <4>2. q' \in Seq(Tasks) /\ UNCHANGED <<producers_finished, flushed>>
          BY <2>0, <3>1 DEF Push, TypeOK, QueueTypeOK
        <4>3. cond' \in [Consumers -> CondStates]
          BY <2>0, <3>1, NotifyFacts DEF Push, TypeOK, QueueTypeOK
        <4> QED
          BY <2>0, <3>1, <4>1, <4>2, <4>3 DEF TypeOK, QueueTypeOK, BatchInv, CountInv, workerVars, waiterVars
      <3>2. CASE AddPush(t)
        BY <3>1, <3>2 DEF AddPush
      <3>3. CASE TryAddPush(t)
        BY <3>1, <3>3 DEF TryAddPush, TryPush
      <3>4. CASE TryAddFails(t)
        <4>1. /\ status' \in [Tasks -> TaskStates] /\ IsFiniteSet(Counted')
              /\ size' = Cardinality(Counted')
          BY <2>0, <3>4, StatusFacts DEF TryAddFails, TypeOK, TaskStates, InSize
        <4> QED
          BY <2>0, <3>4, <4>1 DEF TryAddFails, TypeOK, QueueTypeOK, BatchInv, CountInv, queueVars, workerVars, waiterVars
      <3>5. CASE TryAddUncount(t)
        <4>1. /\ status' \in [Tasks -> TaskStates] /\ IsFiniteSet(Counted')
              /\ size' = Cardinality(Counted') /\ size' \in Nat
          BY <2>0, <3>5, StatusFacts DEF TryAddUncount, TypeOK, TaskStates, InSize
        <4> QED
          BY <2>0, <3>5, <4>1 DEF TryAddUncount, TypeOK, QueueTypeOK, BatchInv, CountInv, queueVars, workerVars, waiterVars
      <3> QED
        BY <2>4, <3>2, <3>3, <3>4, <3>5 DEF AddStep
    <2>5. ASSUME NEW w \in Consumers, WorkerStep(w) PROVE CountInv'
      <3>0. batch[w] \in Seq(Tasks)
        BY <2>0 DEF TypeOK
      <3>1. CASE Block(w)
        BY <2>0, <2>1, <3>1 DEF Block, ConsumeBlock, CondStates, TypeOK, QueueTypeOK, BatchInv,
             CountInv, taskVars, workerVars, waiterVars
      <3>2. CASE Take(w)
        <4>1. /\ NextBatch \in Seq(Tasks) /\ q' \in Seq(Tasks)
              /\ cond' \in [Consumers -> CondStates] /\ flushed' \in BOOLEAN
              /\ UNCHANGED producers_finished
          BY <2>0, <3>2, TakeSizeFacts DEF Take, ConsumeTake, TypeOK, QueueTypeOK, CondStates
        <4>2. /\ pc' = [pc EXCEPT ![w] = IF NextBatch = <<>> THEN "empty" ELSE "run"]
              /\ batch' = [batch EXCEPT ![w] = NextBatch]
              /\ UNCHANGED <<size, status, waiter, due, waits, pool>>
          BY <3>2 DEF Take, Goto, taskVars, waiterVars
        <4>3. BatchInv' /\ pc' \in [Consumers -> {"consume", "run", "running", "test", "notify", "empty", "exited"}]
              /\ batch' \in [Consumers -> Seq(Tasks)]
          BY <2>0, <4>1, <4>2 DEF BatchInv, TypeOK
        <4> QED
          BY <2>0, <2>1, <4>1, <4>2, <4>3 DEF TypeOK, QueueTypeOK, CountInv
      <3>3. CASE TestFinished(w)
        BY <2>0, <2>1, <3>3 DEF TestFinished, Goto, TypeOK, QueueTypeOK, BatchInv,
             CountInv, queueVars, taskVars, waiterVars
      <3>4. CASE RunTask(w)
        <4>1. Head(batch[w]) \in Tasks
          BY <2>0, <3>0, <3>4 DEF RunTask, Goto, BatchInv
        <4>2. /\ status' \in [Tasks -> TaskStates] /\ IsFiniteSet(Counted')
              /\ size' = Cardinality(Counted')
          BY <2>0, <3>4, <4>1, StatusFacts DEF RunTask, TypeOK, TaskStates, InSize
        <4> QED
          BY <2>0, <3>4, <4>2 DEF RunTask, Goto, TypeOK, QueueTypeOK, BatchInv, CountInv, queueVars, waiterVars
      <3>5. CASE TaskReturns(w)
        <4>1. Head(batch[w]) \in Tasks
          BY <2>0, <3>0, <3>5 DEF TaskReturns, Goto, BatchInv
        <4>2. /\ status' \in [Tasks -> TaskStates] /\ IsFiniteSet(Counted')
              /\ size' = Cardinality(Counted') /\ size' \in Nat
          BY <2>0, <3>5, <4>1, StatusFacts DEF TaskReturns, TypeOK, TaskStates, InSize
        <4> QED
          BY <2>0, <3>5, <4>2 DEF TaskReturns, Goto, TypeOK, QueueTypeOK, BatchInv, CountInv, queueVars, waiterVars
      <3>6. ASSUME pc[w] \in {"test", "notify"}, pc' = [pc EXCEPT ![w] = AfterTask(w)],
                   batch' = [batch EXCEPT ![w] = Tail(@)]
            PROVE  /\ BatchInv' /\ batch' \in [Consumers -> Seq(Tasks)]
                   /\ pc' \in [Consumers -> {"consume", "run", "running", "test", "notify", "empty", "exited"}]
        <4>1. /\ batch[w] # <<>> /\ Tail(batch[w]) \in Seq(Tasks)
              /\ Len(Tail(batch[w])) = Len(batch[w]) - 1 /\ Len(batch[w]) \in Nat
          BY <2>0, <3>0, <3>6 DEF BatchInv
        <4>2. AfterTask(w) = "run" => Tail(batch[w]) # <<>>
          <5>1. Tail(batch[w]) = <<>> <=> ~(Len(batch[w]) > 1)
            BY <3>0, <4>1, TailFacts, Zenon
          <5> QED
            BY <5>1, Zenon DEF AfterTask
        <4> QED
          BY <2>0, <3>6, <4>1, <4>2 DEF BatchInv, TypeOK, AfterTask
      <3>7. CASE TestEmpty(w)
        <4>1. CASE size = 0
          <5>1. pc' = [pc EXCEPT ![w] = "notify"] /\ batch' = batch /\ pc[w] = "test"
            BY <2>0, <3>7, <4>1 DEF TestEmpty, Goto, TypeOK
          <5> QED
            BY <2>0, <2>1, <3>7, <5>1 DEF TestEmpty, TypeOK, QueueTypeOK, BatchInv, CountInv,
                 queueVars, taskVars, waiterVars
        <4>2. CASE size # 0
          BY <2>0, <2>1, <3>6, <3>7, <4>2 DEF TestEmpty, Goto, TypeOK, QueueTypeOK, CountInv,
               queueVars, taskVars, waiterVars
        <4> QED
          BY <4>1, <4>2
      <3>8. CASE NotifyWaiters(w)
        <4>1. waiter' \in [Waiters -> {"idle", "test", "asleep"}]
          BY <2>0, <3>8 DEF NotifyWaiters, TypeOK
        <4> QED
          BY <2>0, <2>1, <3>6, <3>8, <4>1 DEF NotifyWaiters, Goto, TypeOK, QueueTypeOK, CountInv,
               queueVars, taskVars
      <3> QED
        BY <2>5, <3>1, <3>2, <3>3, <3>4, <3>5, <3>7, <3>8 DEF WorkerStep
    <2>6. ASSUME NEW w \in Consumers, Wakeup(w) PROVE CountInv'
      BY <2>0, <2>1, <2>6 DEF Wakeup, SpuriousWakeup, CondStates, TypeOK, QueueTypeOK, BatchInv,
           CountInv, taskVars, workerVars, waiterVars
    <2>7. ASSUME NEW x \in Waiters, WaitCall(x) \/ WaitTest(x) \/ WaitTimeout(x) \/ WaiterWakeup(x)
          PROVE  CountInv'
      <3>1. /\ waiter' \in [Waiters -> {"idle", "test", "asleep"}]
            /\ UNCHANGED <<queueVars, taskVars, workerVars, pool>>
        BY <2>0, <2>7 DEF WaitCall, WaitTest, WaitTimeout, WaiterWakeup, WaitReturns, TypeOK
      <3>3. due' \in [Waiters -> SUBSET Tasks]
        <4>1. Added \subseteq Tasks
          BY DEF Added
        <4>2. due' = due \/ due' = [due EXCEPT ![x] = {}] \/ due' = [due EXCEPT ![x] = Added]
          BY <2>7 DEF WaitCall, WaitTest, WaitTimeout, WaiterWakeup, WaitReturns
        <4> QED
          BY <2>0, <4>1, <4>2 DEF TypeOK
      <3>2. waits' \in [Waiters -> 0 .. MaxWaits]
        BY <2>0, <2>7 DEF WaitCall, WaitTest, WaitTimeout, WaiterWakeup, WaitReturns, TypeOK
      <3> QED
        BY <2>0, <2>1, <3>1, <3>2, <3>3 DEF TypeOK, QueueTypeOK, BatchInv, CountInv, queueVars,
             taskVars, workerVars
    <2>8. CASE DestroyPool
      <3>1. cond' \in [Consumers -> CondStates]
        BY <2>0, <2>8, NotifyFacts DEF DestroyPool, NotifyProducersFinished, TypeOK, QueueTypeOK
      <3> QED
        BY <2>0, <2>1, <2>8, <3>1 DEF DestroyPool, NotifyProducersFinished, TypeOK, QueueTypeOK,
             BatchInv, CountInv, taskVars, workerVars, waiterVars
    <2>9. CASE PoolDestroyed
      BY <2>0, <2>1, <2>9 DEF PoolDestroyed, TypeOK, QueueTypeOK, BatchInv, CountInv, queueVars,
           taskVars, workerVars, waiterVars
    <2>10. CASE TimeoutRound
      <3>1. cond' \in [Consumers -> CondStates]
        BY <2>0, <2>10, NotifyFacts DEF TimeoutRound, TimeoutConsume, TypeOK, QueueTypeOK
      <3> QED
        BY <2>0, <2>1, <2>10, <3>1 DEF TimeoutRound, TimeoutConsume, TypeOK, QueueTypeOK,
             BatchInv, CountInv, taskVars, workerVars, waiterVars
    <2>11. CASE Terminated
      BY <2>2, <2>11 DEF Terminated
    <2> QED
      BY <2>2, <2>3, <2>4, <2>5, <2>6, <2>7, <2>8, <2>9, <2>10, <2>11 DEF Next
  <1> QED
    BY <1>1, <1>2, PTL DEF Spec

(* size(), which Wait() and FuncHandler() act on, is exact and never       *)
(* negative, for any number of callers, workers and functions.             *)
THEOREM SizeExact == Spec => []PoolCounts
  <1>1. CountInv => PoolCounts
    BY DEF CountInv, PoolCounts, SizeCounts, Counted
  <1> QED
    BY <1>1, CountInvariant, PTL

-----------------------------------------------------------------------------
(* The steps of the pool are steps of its promise.  What has to be known   *)
(* is where each function is at every moment, and that somebody is left to *)
(* take it: the waits of the workers are not in a loop.                    *)

(* A function that is queued is in the queue or in a batch that a worker   *)
(* has still to get to; one that runs is the head of a worker's batch.     *)
InQueue(t) == \E i \in 1 .. Len(q) : q[i] = t
InBatch(t, w) == \E i \in 1 .. Len(batch[w]) : batch[w][i] = t /\ (i > 1 \/ pc[w] = "run")

PlaceInv ==
  /\ \A t \in Tasks : status[t] = "queued" => InQueue(t) \/ \E w \in Consumers : InBatch(t, w)
  /\ \A t \in Tasks : status[t] = "running" =>
       \E w \in Consumers : pc[w] = "running" /\ Head(batch[w]) = t
  /\ \A w \in Consumers : pc[w] \in {"consume", "empty", "exited"} => batch[w] = <<>>

(* Who is in the middle of an Add() is still there: a caller's thread      *)
(* before the pool is destroyed, a function before it returns.             *)
CallerInv ==
  \A t \in Tasks : status[t] \in {"counted", "trying", "refused"} =>
    IF Parent[t] = Outside THEN pool = "alive" ELSE status[Parent[t]] = "running"

DueInv ==
  \A x \in Waiters : \A t \in due[x] : status[t] \in {"counted", "queued", "running", "done"}

(* A worker that found the queue empty may leave although there is work by *)
(* then, as long as another one is on duty.                                *)
OnDuty(w) == pc[w] \notin {"empty", "exited"}

DutyInv ==
  /\ producers_finished <=> pool # "alive"
  /\ \A w \in Consumers : cond[w] # "outside" => pc[w] = "consume"
  /\ ~producers_finished =>
       /\ \A w \in Consumers : pc[w] # "exited"
       /\ \E w \in Consumers : pc[w] # "empty"
       /\ q = <<>> /\ (\E w \in Consumers : cond[w] = "notified") =>
            \E v \in Consumers : OnDuty(v) /\ cond[v] # "notified"
  /\ producers_finished /\ q # <<>> => \E w \in Consumers : OnDuty(w)
  /\ pool = "gone" => \A w \in Consumers : pc[w] = "exited"

WorkInv == PlaceInv /\ CallerInv /\ DueInv /\ DutyInv

(* The waits of the workers do not end without a notification.             *)
NoEarlyWakeup == Spurious \cap Consumers = {}

(* Once every worker has left, nothing is left to do.                      *)
LEMMA NothingLeft ==
  ASSUME CountInv, WorkInv, pool # "alive", \A w \in Consumers : pc[w] = "exited"
  PROVE  \A t \in Tasks : status[t] \in {"new", "rejected", "done"}
  <1> SUFFICES ASSUME NEW t \in Tasks PROVE status[t] \in {"new", "rejected", "done"}
    OBVIOUS
  <1>1. q = <<>>
    BY DEF WorkInv, DutyInv, OnDuty
  <1>2. \A u \in Tasks : ~InQueue(u)
    BY <1>1 DEF InQueue
  <1>3. \A u \in Tasks, w \in Consumers : ~InBatch(u, w)
    BY DEF InBatch, WorkInv, PlaceInv
  <1>4. \A u \in Tasks : status[u] \notin {"queued", "running"}
    BY <1>2, <1>3 DEF WorkInv, PlaceInv
  <1>5. status[t] \notin {"counted", "trying", "refused"}
    BY <1>4, ThreadPoolAssumption DEF WorkInv, CallerInv, ThreadPoolAssumption
  <1>6. status[t] \in TaskStates
    BY DEF CountInv, TypeOK
  <1> QED
    BY <1>4, <1>5, <1>6 DEF TaskStates

(* The place of every function is known and somebody is on duty for it,    *)
(* through batches, timeouts, notifications and functions that add         *)
(* functions while the pool is being destroyed.                            *)
THEOREM WorkInvariant == ASSUME NoEarlyWakeup PROVE Spec => []WorkInv
  <1> USE SharedQueueAssumption, ThreadPoolAssumption
      DEF SharedQueueAssumption, ThreadPoolAssumption
  <1>1. Init => WorkInv
    <2> SUFFICES ASSUME Init PROVE WorkInv
      OBVIOUS
    <2>1. PICK w \in Consumers : TRUE
      OBVIOUS
    <2>2. PlaceInv /\ CallerInv
      BY DEF Init, PlaceInv, CallerInv
    <2>3. DueInv
      BY DEF Init, DueInv
    <2>4. DutyInv
      BY <2>1 DEF Init, QueueInit, DutyInv
    <2> QED
      BY <2>2, <2>3, <2>4 DEF WorkInv
  <1>2. CountInv /\ WorkInv /\ [Next]_vars => WorkInv'
    <2> SUFFICES ASSUME CountInv, WorkInv, [Next]_vars PROVE WorkInv'
      OBVIOUS
    <2>0. /\ PlaceInv /\ CallerInv /\ DueInv /\ DutyInv /\ BatchInv
          /\ q \in Seq(Tasks) /\ status \in [Tasks -> TaskStates]
          /\ cond \in [Consumers -> CondStates]
          /\ pc \in [Consumers -> {"consume", "run", "running", "test", "notify", "empty", "exited"}]
          /\ batch \in [Consumers -> Seq(Tasks)]
          /\ due \in [Waiters -> SUBSET Tasks]
          /\ producers_finished \in BOOLEAN /\ pool \in {"alive", "finishing", "gone"}
      BY DEF CountInv, WorkInv, TypeOK, QueueTypeOK
    <2> HIDE DEF WorkInv
    <2>1. ASSUME UNCHANGED <<status, q, pc, batch>> PROVE PlaceInv'
      BY <2>0, <2>1 DEF PlaceInv, InQueue, InBatch
    <2>2. ASSUME UNCHANGED status, pool' = pool PROVE CallerInv'
      BY <2>0, <2>2 DEF CallerInv
    <2>3. ASSUME UNCHANGED <<status, due>> PROVE DueInv'
      BY <2>0, <2>3 DEF DueInv
    <2>4. ASSUME UNCHANGED <<q, producers_finished, cond, pc, pool>> PROVE DutyInv'
      BY <2>0, <2>4 DEF DutyInv, OnDuty
    <2>5. CASE UNCHANGED vars
      BY <2>1, <2>2, <2>3, <2>4, <2>5 DEF vars, WorkInv
    <2>6. ASSUME NEW t \in Tasks, AddCount(t) PROVE WorkInv'
      <3>1. /\ status[t] = "new" /\ MayCall(t)
            /\ status' = [status EXCEPT ![t] = IF t \in TryTasks THEN "trying" ELSE "counted"]
            /\ UNCHANGED <<q, producers_finished, cond, pc, batch, due, pool>>
        BY <2>6 DEF AddCount, SetStatus, queueVars, workerVars, waiterVars
      <3>2. PlaceInv'
        <4>1. \A u \in Tasks : InQueue(u)' <=> InQueue(u)
          BY <3>1 DEF InQueue
        <4>2. \A u \in Tasks, w \in Consumers : InBatch(u, w)' <=> InBatch(u, w)
          BY <3>1 DEF InBatch
        <4>3. \A u \in Tasks : status'[u] \in {"queued", "running"} => status'[u] = status[u]
          BY <2>0, <3>1
        <4> QED
          BY <2>0, <3>1, <4>1, <4>2, <4>3 DEF PlaceInv
      <3>3. CallerInv'
        BY <2>0, <3>1 DEF CallerInv, MayCall
      <3>4. DueInv'
        BY <2>0, <3>1 DEF DueInv
      <3> QED
        BY <2>4, <3>1, <3>2, <3>3, <3>4 DEF WorkInv
    <2>7. ASSUME NEW t \in Tasks, NEW from \in {"counted", "trying"}, SetStatus(t, from, "queued"),
                 Push(t), UNCHANGED <<size, workerVars, waiterVars, pool>>
          PROVE  WorkInv'
      <3>1. /\ status[t] = from /\ status' = [status EXCEPT ![t] = "queued"]
            /\ q' = Append(q, t) /\ UNCHANGED <<producers_finished, pc, batch, due, pool>>
        BY <2>7 DEF SetStatus, Push, workerVars, waiterVars
      <3>2. PlaceInv'
        <4>0. /\ Len(q') = Len(q) + 1 /\ Len(q) \in Nat /\ q'[Len(q) + 1] = t
              /\ \A i \in 1 .. Len(q) : q'[i] = q[i]
          BY <2>0, <3>1, AppendFacts
        <4>1. InQueue(t)'
          BY <4>0 DEF InQueue
        <4>2. \A u \in Tasks : InQueue(u) => InQueue(u)'
          BY <4>0 DEF InQueue
        <4>3. \A u \in Tasks, w \in Consumers : InBatch(u, w)' <=> InBatch(u, w)
          BY <3>1 DEF InBatch
        <4> QED
          BY <2>0, <3>1, <4>1, <4>2, <4>3 DEF PlaceInv
      <3>3. CallerInv'
        BY <2>0, <3>1 DEF CallerInv
      <3>4. DueInv'
        BY <2>0, <3>1 DEF DueInv
      <3>5. DutyInv'
        <4>1. /\ cond' \in [Consumers -> CondStates]
              /\ \A w \in Consumers : cond'[w] = "outside" <=> cond[w] = "outside"
          BY <2>0, <2>7, NotifyFacts DEF Push
        <4>2. q' # <<>>
          <5>1. Len(q') = Len(q) + 1 /\ Len(q) \in Nat
            BY <2>0, <3>1, AppendFacts
          <5>2. Len(q') # 0
            BY <5>1
          <5>3. Len(<<>>) = 0
            OBVIOUS
          <5> QED
            BY <5>2, <5>3, Zenon
        <4>3. producers_finished => \E w \in Consumers : OnDuty(w)
          <5> SUFFICES ASSUME producers_finished PROVE \E w \in Consumers : OnDuty(w)
            OBVIOUS
          <5>1. pool # "alive"
            BY <2>0 DEF DutyInv
          <5>2. Parent[t] \in Tasks /\ status[Parent[t]] = "running"
            BY <2>0, <3>1, <5>1 DEF CallerInv
          <5> QED
            BY <2>0, <5>2 DEF PlaceInv, OnDuty
        <4> QED
          BY <2>0, <3>1, <4>1, <4>2, <4>3 DEF DutyInv, OnDuty
      <3> QED
        BY <3>2, <3>3, <3>4, <3>5 DEF WorkInv
    <2>8. ASSUME NEW t \in Tasks, TryAddFails(t) \/ TryAddUncount(t) PROVE WorkInv'
      <3>1. PICK to \in {"refused", "rejected"} :
              /\ status[t] \in {"trying", "refused"} /\ status' = [status EXCEPT ![t] = to]
              /\ to = "refused" => status[t] = "trying"
              /\ UNCHANGED <<q, producers_finished, cond, pc, batch, due, pool>>
        BY <2>8 DEF TryAddFails, TryAddUncount, SetStatus, queueVars, workerVars, waiterVars
      <3>2. PlaceInv'
        BY <2>0, <3>1, SMTT(30) DEF PlaceInv, InQueue, InBatch
      <3>3. CallerInv'
        BY <2>0, <3>1 DEF CallerInv
      <3>4. DueInv'
        BY <2>0, <3>1 DEF DueInv
      <3> QED
        BY <2>4, <3>1, <3>2, <3>3, <3>4 DEF WorkInv
    <2>9. ASSUME NEW w \in Consumers, Block(w) PROVE WorkInv'
      <3>1. /\ UNCHANGED <<status, q, producers_finished, pc, batch, due, pool>>
            /\ pc[w] = "consume" /\ cond[w] = "outside" /\ ~producers_finished
            /\ cond' = [cond EXCEPT ![w] = "waiting"]
        BY <2>9 DEF Block, ConsumeBlock, MustBlock, taskVars, workerVars, waiterVars
      <3>2. DutyInv'
        BY <2>0, <3>1 DEF DutyInv, OnDuty
      <3> QED
        BY <2>1, <2>2, <2>3, <3>1, <3>2 DEF WorkInv
    <2>10. ASSUME NEW w \in Consumers, Take(w) PROVE WorkInv'
      <3>1. /\ UNCHANGED <<status, producers_finished, due, pool>>
            /\ pc[w] = "consume" /\ CanTake(w)
            /\ pc' = [pc EXCEPT ![w] = IF NextBatch = <<>> THEN "empty" ELSE "run"]
            /\ batch' = [batch EXCEPT ![w] = NextBatch]
            /\ cond' = [cond EXCEPT ![w] = "outside"]
            /\ q' = SubSeq(q, TakeSize + 1, Len(q))
        BY <2>10 DEF Take, ConsumeTake, Goto, taskVars, waiterVars
      <3>2. /\ TakeSize \in 0 .. Len(q) /\ NextBatch \in Seq(Tasks) /\ Len(NextBatch) = TakeSize
            /\ NextBatch = <<>> <=> q = <<>>
            /\ q' \in Seq(Tasks) /\ Len(q') = Len(q) - TakeSize
        BY <2>0, <3>1, TakeSizeFacts
      <3>3. /\ \A i \in 1 .. TakeSize : NextBatch[i] = q[i]
            /\ \A i \in 1 .. (Len(q) - TakeSize) : q'[i] = q[TakeSize + i]
        BY <2>0, <3>1, <3>2, CutFacts DEF NextBatch
      <3>4. PlaceInv'
        <4>1. ASSUME NEW t \in Tasks, InQueue(t) PROVE InQueue(t)' \/ InBatch(t, w)'
          <5>1. PICK i \in 1 .. Len(q) : q[i] = t
            BY <4>1 DEF InQueue
          <5>2. Len(q) \in Nat /\ i \in Nat /\ TakeSize \in Nat
            BY <2>0, <3>2
          <5>3. CASE i <= TakeSize
            <6>1. i \in 1 .. TakeSize /\ NextBatch[i] = t /\ TakeSize # 0
              BY <3>3, <5>1, <5>2, <5>3
            <6>2. NextBatch # <<>>
              BY <3>2, <6>1
            <6>3. batch'[w] = NextBatch /\ pc'[w] = "run"
              BY <2>0, <3>1, <6>2
            <6> QED
              BY <3>2, <6>1, <6>3 DEF InBatch
          <5>4. CASE i > TakeSize
            <6>1. i - TakeSize \in 1 .. (Len(q) - TakeSize) /\ TakeSize + (i - TakeSize) = i
              BY <5>1, <5>2, <5>4
            <6>2. q'[i - TakeSize] = t
              BY <3>3, <5>1, <6>1
            <6> QED
              BY <3>2, <6>1, <6>2 DEF InQueue
          <5> QED
            BY <5>2, <5>3, <5>4
        <4>2. ASSUME NEW t \in Tasks, NEW v \in Consumers, InBatch(t, v) PROVE InBatch(t, v)'
          <5>1. v # w
            BY <2>0, <3>1, <4>2 DEF InBatch, PlaceInv
          <5> QED
            BY <2>0, <3>1, <4>2, <5>1 DEF InBatch
        <4>3. ASSUME NEW t \in Tasks, status'[t] = "queued"
              PROVE  InQueue(t)' \/ \E v \in Consumers : InBatch(t, v)'
          BY <2>0, <3>1, <4>1, <4>2, <4>3 DEF PlaceInv
        <4>4. ASSUME NEW t \in Tasks, status'[t] = "running"
              PROVE  \E v \in Consumers : pc'[v] = "running" /\ Head(batch'[v]) = t
          BY <2>0, <3>1, <4>4 DEF PlaceInv
        <4>5. ASSUME NEW v \in Consumers, pc'[v] \in {"consume", "empty", "exited"}
              PROVE  batch'[v] = <<>>
          BY <2>0, <3>1, <4>5 DEF PlaceInv
        <4> QED
          BY <4>3, <4>4, <4>5 DEF PlaceInv
      <3>5. DutyInv'
        <4>1. CASE q # <<>>
          <5>1. OnDuty(w)' /\ cond'[w] # "notified" /\ pc'[w] = "run"
            BY <2>0, <3>1, <3>2, <4>1 DEF OnDuty
          <5> QED
            BY <2>0, <3>1, <4>1, <5>1 DEF DutyInv, OnDuty
        <4>2. CASE q = <<>>
          <5>1. q' = <<>>
            <6>1. Len(q') = 0
              BY <2>0, <3>2, <4>2
            <6> QED
              BY <3>2, <6>1
          <5>2. ~producers_finished => cond[w] = "notified"
            BY <2>0, <3>1, <4>2 DEF CanTake, MustBlock
          <5>3. ~producers_finished =>
                  \E v \in Consumers : v # w /\ OnDuty(v) /\ cond[v] # "notified"
            BY <2>0, <4>2, <5>2 DEF DutyInv
          <5>4. pool # "gone"
            BY <2>0, <3>1 DEF DutyInv
          <5> QED
            BY <2>0, <3>1, <3>2, <4>2, <5>1, <5>3, <5>4 DEF DutyInv, OnDuty
        <4> QED
          BY <4>1, <4>2
      <3> QED
        BY <2>2, <2>3, <3>1, <3>4, <3>5 DEF WorkInv
    <2>11. ASSUME NEW w \in Consumers, TestFinished(w) PROVE WorkInv'
      <3>1. /\ UNCHANGED <<status, q, producers_finished, cond, batch, due, pool>>
            /\ pc[w] = "empty" /\ batch[w] = <<>>
            /\ pc' = [pc EXCEPT ![w] = IF producers_finished THEN "exited" ELSE "consume"]
        BY <2>0, <2>11 DEF TestFinished, Goto, PlaceInv, queueVars, taskVars, waiterVars
      <3>2. PlaceInv'
        BY <2>0, <3>1 DEF PlaceInv, InQueue, InBatch
      <3>3. DutyInv'
        BY <2>0, <3>1 DEF DutyInv, OnDuty
      <3> QED
        BY <2>2, <2>3, <3>1, <3>2, <3>3 DEF WorkInv
    <2>12. ASSUME NEW w \in Consumers, RunTask(w) PROVE WorkInv'
      <3> DEFINE t == Head(batch[w])
      <3>1. /\ UNCHANGED <<q, producers_finished, cond, batch, due, pool>>
            /\ pc[w] = "run" /\ pc' = [pc EXCEPT ![w] = "running"]
            /\ status[t] = "queued" /\ status' = [status EXCEPT ![t] = "running"]
        BY <2>12 DEF RunTask, Goto, SetStatus, queueVars, waiterVars
      <3>2. batch[w] \in Seq(Tasks) /\ batch[w] # <<>>
        BY <2>0, <3>1 DEF BatchInv
      <3>3. t \in Tasks /\ t = batch[w][1]
        BY <3>2, TailFacts, Zenon
      <3> HIDE DEF t
      <3>4. PlaceInv'
        <4>1. ASSUME NEW u \in Tasks, NEW v \in Consumers, InBatch(u, v), u # t PROVE InBatch(u, v)'
          BY <2>0, <3>1, <3>3, <4>1 DEF InBatch
        <4>2. ASSUME NEW u \in Tasks, status'[u] = "queued"
              PROVE  InQueue(u)' \/ \E v \in Consumers : InBatch(u, v)'
          <5>1. status[u] = "queued" /\ u # t
            BY <2>0, <3>1, <3>3, <4>2
          <5>2. InQueue(u) \/ \E v \in Consumers : InBatch(u, v)
            BY <2>0, <5>1 DEF PlaceInv
          <5>3. InQueue(u) => InQueue(u)'
            BY <3>1 DEF InQueue
          <5> QED
            BY <4>1, <5>1, <5>2, <5>3
        <4>3. ASSUME NEW u \in Tasks, status'[u] = "running"
              PROVE  \E v \in Consumers : pc'[v] = "running" /\ Head(batch'[v]) = u
          <5>1. CASE u = t
            <6>1. pc'[w] = "running" /\ Head(batch'[w]) = u
              BY <2>0, <3>1, <5>1 DEF t
            <6> QED
              BY <6>1
          <5>2. CASE u # t
            <6>1. status[u] = "running"
              BY <2>0, <3>1, <4>3, <5>2
            <6>2. PICK v \in Consumers : pc[v] = "running" /\ Head(batch[v]) = u
              BY <2>0, <6>1 DEF PlaceInv
            <6>3. pc'[v] = "running" /\ Head(batch'[v]) = u
              BY <2>0, <3>1, <6>2
            <6> QED
              BY <6>3
          <5> QED
            BY <5>1, <5>2
        <4>4. ASSUME NEW v \in Consumers, pc'[v] \in {"consume", "empty", "exited"}
              PROVE  batch'[v] = <<>>
          BY <2>0, <3>1, <4>4 DEF PlaceInv
        <4> QED
          BY <4>2, <4>3, <4>4 DEF PlaceInv
      <3>5. CallerInv'
        BY <2>0, <3>1, <3>3 DEF CallerInv
      <3>6. DueInv'
        BY <2>0, <3>1, <3>3 DEF DueInv
      <3>7. DutyInv'
        BY <2>0, <3>1 DEF DutyInv, OnDuty
      <3> QED
        BY <3>4, <3>5, <3>6, <3>7 DEF WorkInv
    <2>13. ASSUME NEW w \in Consumers, TaskReturns(w) PROVE WorkInv'
      <3> DEFINE t == Head(batch[w])
      <3>1. /\ UNCHANGED <<q, producers_finished, cond, batch, due, pool>>
            /\ pc[w] = "running" /\ pc' = [pc EXCEPT ![w] = "test"]
            /\ \A u \in Tasks : Parent[u] = t => status[u] \notin {"counted", "trying", "refused"}
            /\ status[t] = "running" /\ status' = [status EXCEPT ![t] = "done"]
        BY <2>13 DEF TaskReturns, Goto, SetStatus, queueVars, waiterVars
      <3>2. batch[w] \in Seq(Tasks) /\ batch[w] # <<>>
        BY <2>0, <3>1 DEF BatchInv
      <3>3. t \in Tasks
        BY <3>2, TailFacts, Zenon
      <3>4. PlaceInv'
        <4>1. ASSUME NEW u \in Tasks, NEW v \in Consumers, InBatch(u, v) PROVE InBatch(u, v)'
          BY <2>0, <3>1, <4>1 DEF InBatch
        <4>2. ASSUME NEW u \in Tasks, status'[u] = "queued"
              PROVE  InQueue(u)' \/ \E v \in Consumers : InBatch(u, v)'
          <5>1. status[u] = "queued"
            BY <2>0, <3>1, <3>3, <4>2
          <5>2. InQueue(u) \/ \E v \in Consumers : InBatch(u, v)
            BY <2>0, <5>1 DEF PlaceInv
          <5>3. InQueue(u) => InQueue(u)'
            BY <3>1 DEF InQueue
          <5> QED
            BY <4>1, <5>2, <5>3
        <4>3. ASSUME NEW u \in Tasks, status'[u] = "running"
              PROVE  \E v \in Consumers : pc'[v] = "running" /\ Head(batch'[v]) = u
          <5>1. status[u] = "running" /\ u # t
            BY <2>0, <3>1, <3>3, <4>3
          <5>2. PICK v \in Consumers : pc[v] = "running" /\ Head(batch[v]) = u
            BY <2>0, <5>1 DEF PlaceInv
          <5>3. pc'[v] = "running" /\ Head(batch'[v]) = u
            BY <2>0, <3>1, <5>1, <5>2
          <5> QED
            BY <5>3
        <4>4. ASSUME NEW v \in Consumers, pc'[v] \in {"consume", "empty", "exited"}
              PROVE  batch'[v] = <<>>
          BY <2>0, <3>1, <4>4 DEF PlaceInv
        <4> QED
          BY <4>2, <4>3, <4>4 DEF PlaceInv
      <3> HIDE DEF t
      <3>5. CallerInv'
        BY <2>0, <3>1, <3>3 DEF CallerInv
      <3>6. DueInv'
        BY <2>0, <3>1, <3>3 DEF DueInv
      <3>7. DutyInv'
        BY <2>0, <3>1 DEF DutyInv, OnDuty
      <3> QED
        BY <3>4, <3>5, <3>6, <3>7 DEF WorkInv
    <2>14. ASSUME NEW w \in Consumers, pc[w] \in {"test", "notify"},
                  pc' = [pc EXCEPT ![w] = AfterTask(w)], batch' = [batch EXCEPT ![w] = Tail(@)],
                  UNCHANGED <<status, q, producers_finished, cond, due, pool>>
           PROVE  WorkInv'
      <3>1. batch[w] \in Seq(Tasks) /\ batch[w] # <<>>
        BY <2>0, <2>14 DEF BatchInv
      <3>2. /\ Len(batch[w]) \in Nat /\ Len(Tail(batch[w])) = Len(batch[w]) - 1
            /\ \A i \in 1 .. (Len(batch[w]) - 1) : Tail(batch[w])[i] = batch[w][i + 1]
            /\ Tail(batch[w]) = <<>> <=> ~(Len(batch[w]) > 1)
        BY <3>1, TailFacts, Zenon
      <3>3. pc'[w] = AfterTask(w) /\ batch'[w] = Tail(batch[w])
        BY <2>0, <2>14
      <3>4. PlaceInv'
        <4>1. ASSUME NEW u \in Tasks, InBatch(u, w) PROVE InBatch(u, w)'
          <5>1. PICK i \in 1 .. Len(batch[w]) : batch[w][i] = u /\ i > 1
            BY <2>14, <4>1 DEF InBatch
          <5>2. pc'[w] = "run" /\ i - 1 \in 1 .. Len(Tail(batch[w]))
            BY <3>2, <3>3, <5>1 DEF AfterTask
          <5>3. Tail(batch[w])[i - 1] = u
            BY <3>2, <5>1
          <5> QED
            BY <3>3, <5>2, <5>3 DEF InBatch
        <4>2. ASSUME NEW u \in Tasks, NEW v \in Consumers, v # w, InBatch(u, v) PROVE InBatch(u, v)'
          BY <2>0, <2>14, <4>2 DEF InBatch
        <4>3. ASSUME NEW u \in Tasks, status'[u] = "queued"
              PROVE  InQueue(u)' \/ \E v \in Consumers : InBatch(u, v)'
          <5>1. InQueue(u) \/ \E v \in Consumers : InBatch(u, v)
            BY <2>0, <2>14, <4>3 DEF PlaceInv
          <5>2. InQueue(u) => InQueue(u)'
            BY <2>14 DEF InQueue
          <5> QED
            BY <4>1, <4>2, <5>1, <5>2
        <4>4. ASSUME NEW u \in Tasks, status'[u] = "running"
              PROVE  \E v \in Consumers : pc'[v] = "running" /\ Head(batch'[v]) = u
          <5>1. PICK v \in Consumers : pc[v] = "running" /\ Head(batch[v]) = u
            BY <2>0, <2>14, <4>4 DEF PlaceInv
          <5>2. pc'[v] = "running" /\ Head(batch'[v]) = u
            BY <2>0, <2>14, <5>1
          <5> QED
            BY <5>2
        <4>5. ASSUME NEW v \in Consumers, pc'[v] \in {"consume", "empty", "exited"}
              PROVE  batch'[v] = <<>>
          <5>1. CASE v = w
            <6>1. AfterTask(w) # "run"
              BY <3>3, <4>5, <5>1
            <6>2. ~(Len(batch[w]) > 1)
              BY <6>1, Zenon DEF AfterTask
            <6>3. Tail(batch[w]) = <<>>
              BY <3>2, <6>2, Zenon
            <6> QED
              BY <3>3, <5>1, <6>3
          <5>2. CASE v # w
            BY <2>0, <2>14, <4>5, <5>2 DEF PlaceInv
          <5> QED
            BY <5>1, <5>2
        <4> QED
          BY <4>3, <4>4, <4>5 DEF PlaceInv
      <3>5. DutyInv'
        <4>1. AfterTask(w) \in {"run", "consume"}
          BY DEF AfterTask
        <4>2. /\ OnDuty(w) /\ OnDuty(w)' /\ pc'[w] # "empty"
              /\ \A v \in Consumers : v # w => pc'[v] = pc[v]
              /\ cond[w] = "outside"
          BY <2>0, <2>14, <3>3, <4>1 DEF OnDuty, DutyInv
        <4>3. \A v \in Consumers : pc'[v] \in {"empty", "exited"} <=> pc[v] \in {"empty", "exited"}
          BY <4>2 DEF OnDuty
        <4> QED
          BY <2>0, <2>14, <4>2, <4>3 DEF DutyInv, OnDuty
      <3> QED
        BY <2>2, <2>3, <2>14, <3>4, <3>5 DEF WorkInv
    <2>15. ASSUME NEW w \in Consumers, TestEmpty(w) PROVE WorkInv'
      <3>0. UNCHANGED <<status, q, producers_finished, cond, due, pool>> /\ pc[w] = "test"
        BY <2>15 DEF TestEmpty, Goto, queueVars, taskVars, waiterVars
      <3>1. CASE size = 0
        <4>1. pc' = [pc EXCEPT ![w] = "notify"] /\ batch' = batch
          BY <2>0, <2>15, <3>1 DEF TestEmpty, Goto
        <4>2. PlaceInv'
          BY <2>0, <3>0, <4>1 DEF PlaceInv, InQueue, InBatch
        <4>3. DutyInv'
          BY <2>0, <3>0, <4>1 DEF DutyInv, OnDuty
        <4> QED
          BY <2>2, <2>3, <3>0, <4>2, <4>3 DEF WorkInv
      <3>2. CASE size # 0
        BY <2>14, <2>15, <3>0, <3>2 DEF TestEmpty, Goto
      <3> QED
        BY <3>1, <3>2
    <2>16. ASSUME NEW w \in Consumers, NotifyWaiters(w) PROVE WorkInv'
      BY <2>14, <2>16 DEF NotifyWaiters, Goto, queueVars, taskVars
    <2>17. ASSUME NEW w \in Consumers, Wakeup(w) PROVE WorkInv'
      BY <2>17, NoEarlyWakeup DEF Wakeup, NoEarlyWakeup
    <2>18. ASSUME NEW x \in Waiters, WaitCall(x) \/ WaitTest(x) \/ WaitTimeout(x) \/ WaiterWakeup(x)
           PROVE  WorkInv'
      <3>1. /\ UNCHANGED <<status, q, producers_finished, cond, pc, batch, pool>>
            /\ \/ due' = due \/ due' = [due EXCEPT ![x] = {}]
               \/ due' = [due EXCEPT ![x] = Added]
        BY <2>18 DEF WaitCall, WaitTest, WaitTimeout, WaiterWakeup, WaitReturns, queueVars, taskVars, workerVars
      <3>2. DueInv'
        <4>1. \A t \in Added : t \in Tasks /\ status[t] \in {"counted", "queued", "running", "done"}
          BY DEF Added
        <4>2. ASSUME NEW y \in Waiters
              PROVE  due'[y] = due[y] \/ due'[y] = {} \/ due'[y] = Added
          BY <2>0, <3>1
        <4> QED
          BY <2>0, <3>1, <4>1, <4>2 DEF DueInv
      <3> QED
        BY <2>1, <2>2, <2>4, <3>1, <3>2 DEF WorkInv
    <2>19. CASE DestroyPool
      <3>1. /\ UNCHANGED <<status, q, pc, batch, due>> /\ pool = "alive"
            /\ producers_finished' = TRUE /\ pool' = "finishing"
            /\ cond' = [c \in Consumers |-> IF cond[c] = "waiting" THEN "notified" ELSE cond[c]]
            /\ \A t \in Tasks : Parent[t] = Outside => status[t] \notin {"counted", "trying", "refused"}
        BY <2>19 DEF DestroyPool, NotifyProducersFinished, NotifyAll, taskVars, workerVars, waiterVars
      <3>2. CallerInv'
        BY <2>0, <3>1 DEF CallerInv
      <3>3. DutyInv'
        BY <2>0, <3>1 DEF DutyInv, OnDuty
      <3> QED
        BY <2>1, <2>3, <3>1, <3>2, <3>3 DEF WorkInv
    <2>20. CASE PoolDestroyed
      <3>1. /\ UNCHANGED <<status, q, producers_finished, cond, pc, batch, due>>
            /\ pool = "finishing" /\ pool' = "gone" /\ \A w \in Consumers : pc[w] = "exited"
        BY <2>20 DEF PoolDestroyed, queueVars, taskVars, workerVars, waiterVars
      <3>2. CallerInv'
        BY <2>0, <3>1 DEF CallerInv
      <3>3. DutyInv'
        BY <2>0, <3>1 DEF DutyInv, OnDuty
      <3> QED
        BY <2>1, <2>3, <3>1, <3>2, <3>3 DEF WorkInv
    <2>21. CASE TimeoutRound
      <3>1. /\ UNCHANGED <<status, q, producers_finished, pc, batch, due, pool>>
            /\ TimeoutConsume
        BY <2>21 DEF TimeoutRound, TimeoutConsume, taskVars, workerVars, waiterVars
      <3>2. /\ cond' \in [Consumers -> CondStates]
            /\ \A w \in Consumers : cond'[w] = "outside" <=> cond[w] = "outside"
            /\ ~producers_finished /\ q = <<>> => cond' = cond
        BY <2>0, <3>1, NotifyFacts DEF TimeoutConsume
      <3>3. DutyInv'
        BY <2>0, <3>1, <3>2 DEF DutyInv, OnDuty
      <3> QED
        BY <2>1, <2>2, <2>3, <3>1, <3>3 DEF WorkInv
    <2>22. CASE Terminated
      BY <2>5, <2>22 DEF Terminated
    <2>23. ASSUME NEW t \in Tasks, AddStep(t) PROVE WorkInv'
      <3>1. CASE AddPush(t)
        BY <2>7, <3>1 DEF AddPush
      <3>2. CASE TryAddPush(t)
        BY <2>7, <3>2 DEF TryAddPush, TryPush
      <3> QED
        BY <2>8, <2>23, <3>1, <3>2 DEF AddStep
    <2>24. ASSUME NEW w \in Consumers, WorkerStep(w) PROVE WorkInv'
      BY <2>9, <2>10, <2>11, <2>12, <2>13, <2>15, <2>16, <2>24 DEF WorkerStep
    <2> QED
      BY <2>5, <2>6, <2>17, <2>18, <2>19, <2>20, <2>21, <2>22, <2>23, <2>24 DEF Next
  <1> QED
    BY <1>1, <1>2, CountInvariant, PTL DEF Spec

(* The pool keeps its promise: every step is one of the promise, or none.  *)
(* A function starts and ends once, Wait() does not return before those    *)
(* that had been added are done, and the pool is not gone before all are.  *)
THEOREM KeepsPromise == ASSUME NoEarlyWakeup PROVE Spec => Promise!SafetySpec
  <1> USE SharedQueueAssumption, ThreadPoolAssumption
      DEF SharedQueueAssumption, ThreadPoolAssumption
  <1>1. Init => Promise!PoolInit
    BY DEF Init, Promise!PoolInit, TaskOf
  <1>2. CountInv /\ WorkInv /\ [Next]_vars => [Promise!PoolNext]_(Promise!poolVars)
    <2> SUFFICES ASSUME CountInv, WorkInv, [Next]_vars
                 PROVE  Promise!PoolNext \/ UNCHANGED Promise!poolVars
      OBVIOUS
    <2> DEFINE task == [t \in Tasks |-> TaskOf(status[t])]
               inWait == {x \in Waiters : waiter[x] # "idle"}
    <2>0. /\ status \in [Tasks -> TaskStates] /\ due \in [Waiters -> SUBSET Tasks]
          /\ waiter \in [Waiters -> {"idle", "test", "asleep"}]
          /\ batch \in [Consumers -> Seq(Tasks)] /\ BatchInv
          /\ pool \in {"alive", "finishing", "gone"}
      BY DEF CountInv, TypeOK
    <2>1. ASSUME UNCHANGED <<status, waiter, due, pool>> PROVE UNCHANGED Promise!poolVars
      BY <2>1 DEF Promise!poolVars
    <2>2. pool = "gone" => \A t \in Tasks : status[t] \in {"new", "rejected", "done"}
      BY NothingLeft DEF WorkInv, DutyInv
    <2>3. ASSUME NEW t \in Tasks, NEW from \in TaskStates, NEW to \in TaskStates, SetStatus(t, from, to)
          PROVE  /\ task[t] = TaskOf(from) /\ task' = [task EXCEPT ![t] = TaskOf(to)]
                 /\ TaskOf(from) = TaskOf(to) => task' = task
      BY <2>0, <2>3 DEF SetStatus
    <2>4. ASSUME NEW t \in Tasks, AddCount(t)
          PROVE  Promise!PoolNext \/ UNCHANGED Promise!poolVars
      <3>1. /\ UNCHANGED <<waiter, due, pool>> /\ MayCall(t)
            /\ SetStatus(t, "new", IF t \in TryTasks THEN "trying" ELSE "counted")
        BY <2>4 DEF AddCount, waiterVars
      <3>2. pool # "gone"
        BY <2>0, <2>2, <3>1 DEF MayCall
      <3>3. CASE t \in TryTasks
        BY <2>3, <3>1, <3>3, ZenonT(40) DEF TaskStates, TaskOf, Promise!poolVars
      <3>4. CASE t \notin TryTasks
        <4>1. Promise!Add(t)
          BY <2>3, <3>1, <3>2, <3>4, ZenonT(40) DEF TaskStates, TaskOf, Promise!Add, Promise!Move
        <4> QED
          BY <4>1 DEF Promise!PoolNext
      <3> QED
        BY <3>3, <3>4
    <2>5. ASSUME NEW t \in Tasks, AddStep(t)
          PROVE  Promise!PoolNext \/ UNCHANGED Promise!poolVars
      <3>0. UNCHANGED <<waiter, due, pool>>
        BY <2>5 DEF AddStep, AddPush, TryAddPush, TryAddFails, TryAddUncount, waiterVars
      <3>1. CASE TryAddPush(t)
        <4>1. SetStatus(t, "trying", "queued") /\ pool # "gone"
          BY <2>2, <3>1 DEF TryAddPush, SetStatus
        <4>2. Promise!Add(t)
          BY <2>3, <3>0, <4>1 DEF TaskStates, TaskOf, Promise!Add, Promise!Move
        <4> QED
          BY <4>2 DEF Promise!PoolNext
      <3>2. CASE AddPush(t) \/ TryAddFails(t) \/ TryAddUncount(t)
        <4>1. \/ SetStatus(t, "counted", "queued") \/ SetStatus(t, "trying", "refused")
              \/ SetStatus(t, "refused", "rejected")
          BY <3>2 DEF AddPush, TryAddFails, TryAddUncount
        <4>2. task' = task
          BY <2>3, <4>1, ZenonT(40) DEF TaskStates, TaskOf
        <4> QED
          BY <3>0, <4>2 DEF Promise!poolVars
      <3> QED
        BY <2>5, <3>1, <3>2 DEF AddStep
    <2>6. ASSUME NEW w \in Consumers, WorkerStep(w)
          PROVE  Promise!PoolNext \/ UNCHANGED Promise!poolVars
      <3>0. ASSUME pc[w] \in {"run", "running"} PROVE Head(batch[w]) \in Tasks
        <4>1. batch[w] \in Seq(Tasks) /\ batch[w] # <<>>
          BY <2>0, <3>0 DEF BatchInv
        <4> QED
          BY <4>1, TailFacts, Zenon
      <3>1. CASE RunTask(w)
        <4>1. /\ SetStatus(Head(batch[w]), "queued", "running") /\ Head(batch[w]) \in Tasks
              /\ UNCHANGED <<waiter, due, pool>>
          BY <3>0, <3>1 DEF RunTask, Goto, waiterVars
        <4>2. pool # "gone"
          BY <2>2, <4>1 DEF SetStatus
        <4>3. Promise!Start(Head(batch[w]))
          BY <2>3, <4>1, <4>2 DEF TaskStates, TaskOf, Promise!Start, Promise!Move
        <4> QED
          BY <4>1, <4>3 DEF Promise!PoolNext
      <3>2. CASE TaskReturns(w)
        <4>1. /\ SetStatus(Head(batch[w]), "running", "done") /\ Head(batch[w]) \in Tasks
              /\ UNCHANGED <<waiter, due, pool>>
          BY <3>0, <3>2 DEF TaskReturns, Goto, waiterVars
        <4>2. pool # "gone"
          BY <2>2, <4>1 DEF SetStatus
        <4>3. Promise!Complete(Head(batch[w]))
          BY <2>3, <4>1, <4>2, ZenonT(40) DEF TaskStates, TaskOf, Promise!Complete, Promise!Move
        <4> QED
          BY <4>1, <4>3 DEF Promise!PoolNext
      <3>3. CASE NotifyWaiters(w)
        <4>1. /\ UNCHANGED <<status, due, pool>>
              /\ waiter' = [x \in Waiters |-> IF waiter[x] = "asleep" THEN "test" ELSE waiter[x]]
          BY <3>3 DEF NotifyWaiters, taskVars
        <4>2. inWait' = inWait
          BY <2>0, <4>1
        <4> QED
          BY <4>1, <4>2 DEF Promise!poolVars
      <3>4. CASE Block(w) \/ Take(w) \/ TestFinished(w) \/ TestEmpty(w)
        BY <2>1, <3>4 DEF Block, Take, TestFinished, TestEmpty, taskVars, waiterVars
      <3> QED
        BY <2>6, <3>1, <3>2, <3>3, <3>4 DEF WorkerStep
    <2>7. ASSUME NEW w \in Consumers, Wakeup(w) PROVE UNCHANGED Promise!poolVars
      BY <2>1, <2>7 DEF Wakeup, taskVars, waiterVars
    <2>8. ASSUME NEW x \in Waiters, WaitCall(x) PROVE Promise!PoolNext
      <3>1. /\ pool = "alive" /\ waiter[x] = "idle" /\ UNCHANGED <<status, pool>>
            /\ waiter' = [waiter EXCEPT ![x] = "test"] /\ due' = [due EXCEPT ![x] = Added]
        BY <2>8 DEF WaitCall, taskVars
      <3>2. x \notin inWait /\ inWait' = inWait \cup {x}
        BY <2>0, <3>1
      <3>3. Added = {t \in Tasks : task[t] \in {"added", "running"}}
        <4>1. \A t \in Tasks : status[t] \in {"counted", "queued", "running"} <=> TaskOf(status[t]) \in {"added", "running"}
          BY <2>0 DEF TaskStates, TaskOf
        <4> QED
          BY <4>1 DEF Added
      <3>4. Promise!CallWait(x)
        BY <3>1, <3>2, <3>3 DEF Promise!CallWait
      <3> QED
        BY <3>4 DEF Promise!PoolNext
    <2>9. ASSUME NEW x \in Waiters, waiter[x] # "idle", WaitReturns(x)
          PROVE  /\ Promise!GiveUpWait(x)
                 /\ (\A t \in due[x] : status[t] = "done") => Promise!ReturnFromWait(x)
      <3>1. /\ UNCHANGED <<status, pool>>
            /\ waiter' = [waiter EXCEPT ![x] = "idle"] /\ due' = [due EXCEPT ![x] = {}]
        BY <2>9 DEF WaitReturns, taskVars
      <3>2. x \in inWait /\ inWait' = inWait \ {x}
        BY <2>0, <2>9, <3>1
      <3>3. (\A t \in due[x] : status[t] = "done") => \A t \in due[x] : task[t] = "done"
        BY <2>0 DEF TaskOf
      <3> QED
        BY <3>1, <3>2, <3>3 DEF Promise!GiveUpWait, Promise!ReturnFromWait
    <2>10. ASSUME NEW x \in Waiters, WaitTest(x)
           PROVE  Promise!PoolNext \/ UNCHANGED Promise!poolVars
      <3>1. CASE size = 0 /\ WaitReturns(x)
        <4>1. Counted = {}
          BY <3>1, FS_EmptySet DEF CountInv
        <4>2. \A t \in due[x] : status[t] = "done"
          BY <2>0, <4>1 DEF Counted, InSize, WorkInv, DueInv
        <4>3. Promise!ReturnFromWait(x)
          BY <2>9, <2>10, <3>1, <4>2 DEF WaitTest
        <4> QED
          BY <4>3 DEF Promise!PoolNext
      <3>2. CASE waiter' = [waiter EXCEPT ![x] = "asleep"] /\ UNCHANGED <<status, due, pool>>
        <4>1. inWait' = inWait
          BY <2>0, <2>10, <3>2 DEF WaitTest
        <4> QED
          BY <3>2, <4>1 DEF Promise!poolVars
      <3> QED
        BY <2>10, <3>1, <3>2 DEF WaitTest, taskVars
    <2>11. ASSUME NEW x \in Waiters, WaitTimeout(x) PROVE Promise!PoolNext
      <3>1. Promise!GiveUpWait(x)
        BY <2>9, <2>11 DEF WaitTimeout
      <3> QED
        BY <3>1 DEF Promise!PoolNext
    <2>12. ASSUME NEW x \in Waiters, WaiterWakeup(x) PROVE UNCHANGED Promise!poolVars
      <3>1. /\ waiter[x] = "asleep" /\ waiter' = [waiter EXCEPT ![x] = "test"]
            /\ UNCHANGED <<status, due, pool>>
        BY <2>12 DEF WaiterWakeup, taskVars
      <3>2. inWait' = inWait
        BY <2>0, <3>1
      <3> QED
        BY <3>1, <3>2 DEF Promise!poolVars
    <2>13. CASE DestroyPool
      <3>1. UNCHANGED <<status, waiter, due>> /\ pool = "alive" /\ pool' = "finishing"
        BY <2>13 DEF DestroyPool, taskVars, waiterVars
      <3> QED
        BY <3>1 DEF Promise!poolVars
    <2>14. CASE PoolDestroyed
      <3>1. /\ UNCHANGED <<status, waiter, due>> /\ pool = "finishing" /\ pool' = "gone"
            /\ \A w \in Consumers : pc[w] = "exited"
        BY <2>14 DEF PoolDestroyed, taskVars, waiterVars
      <3>2. \A t \in Tasks : task[t] \in {"new", "done"}
        <4>1. \A t \in Tasks : status[t] \in {"new", "rejected", "done"}
          BY <3>1, NothingLeft
        <4> QED
          BY <4>1 DEF TaskOf
      <3>3. Promise!Destroy
        BY <3>1, <3>2 DEF Promise!Destroy
      <3> QED
        BY <3>3 DEF Promise!PoolNext
    <2>15. CASE TimeoutRound
      BY <2>1, <2>15 DEF TimeoutRound, taskVars, waiterVars
    <2>16. CASE UNCHANGED vars
      BY <2>1, <2>16 DEF vars
    <2> QED
      BY <2>4, <2>5, <2>6, <2>7, <2>8, <2>10, <2>11, <2>12, <2>13, <2>14, <2>15, <2>16 DEF Next, Terminated
  <1> QED
    BY <1>1, <1>2, CountInvariant, WorkInvariant, PTL DEF Spec, Promise!SafetySpec
=============================================================================
