------------------------------ MODULE MCPools -------------------------------
(***************************************************************************)
(* Three pools on small instances, of which one runs in a behaviour: a     *)
(* thread pool whose task adds a task and which is destroyed, a thread     *)
(* pool that callers wait for while spurious wakeups happen, and the rate- *)
(* limited queue.                                                          *)
(***************************************************************************)
EXTENDS ThreadPool, TLC

CONSTANTS t1, t2, t3, outside, none, RateTryTasks, RateStepsBack

NestedParent == t1 :> outside @@ t2 :> outside @@ t3 :> t1
PairParent == t1 :> outside @@ t2 :> outside
FlatParent == t1 :> outside @@ t2 :> outside @@ t3 :> outside

VARIABLES which, w_q, w_producers_finished, w_cond, w_flushed, w_size,
          w_status, w_pc, w_batch, w_waiter, w_due, w_waits, w_pool, r_q,
          r_producers_finished, r_cond, r_flushed, r_tasks, r_last, r_now,
          r_hand, r_pushed, r_delivered, r_released, r_entered, r_stepped,
          r_state   \* which: the component that runs

Wait == INSTANCE ThreadPool WITH
  q <- w_q, producers_finished <- w_producers_finished, cond <- w_cond,
  flushed <- w_flushed, size <- w_size, status <- w_status, pc <- w_pc,
  batch <- w_batch, waiter <- w_waiter, due <- w_due, waits <- w_waits,
  pool <- w_pool, Consumers <- {"w1", "w2"}, BatchSize <- 2, Capacity <- 1,
  NotifyTimeout <- TRUE, Tasks <- {t1, t2}, Outside <- outside,
  Parent <- PairParent, TryTasks <- {}, Waiters <- {"x1", "x2"},
  TimedWaiters <- {}, MaxWaits <- 1, Spurious <- {"w1", "w2", "x1"}

Rate == INSTANCE RateLimitedSharedQueue WITH
  q <- r_q, producers_finished <- r_producers_finished, cond <- r_cond,
  flushed <- r_flushed, tasks <- r_tasks, last <- r_last, now <- r_now,
  hand <- r_hand, pushed <- r_pushed, delivered <- r_delivered,
  released <- r_released, entered <- r_entered, stepped <- r_stepped,
  state <- r_state, Consumers <- {"c1"}, BatchSize <- 1, Capacity <- 2,
  NotifyTimeout <- FALSE, Tasks <- {t1, t2, t3}, TryTasks <- RateTryTasks,
  Qps <- "qps", None <- none, MinMs <- 2, Word <- 256, StepsBack <- RateStepsBack

ASSUME Rate!RateAssumption

PoolVars == <<q, producers_finished, cond, flushed, size, status, pc, batch,
              waiter, due, waits, pool>>
WaitVars == <<w_q, w_producers_finished, w_cond, w_flushed, w_size, w_status,
              w_pc, w_batch, w_waiter, w_due, w_waits, w_pool>>
RateVars == <<r_q, r_producers_finished, r_cond, r_flushed, r_tasks, r_last,
              r_now, r_hand, r_pushed, r_delivered, r_released, r_entered,
              r_stepped, r_state>>

allVars == <<which, PoolVars, WaitVars, RateVars>>

AllInit ==
  /\ which \in {"tasks", "wait", "rate"}
  /\ Init
  /\ Wait!Init
  /\ Rate!Init

AllNext ==
  /\ UNCHANGED which
  /\ \/ /\ which = "tasks" /\ Next
        /\ UNCHANGED <<WaitVars, RateVars>>
     \/ /\ which = "wait" /\ Wait!Next
        /\ UNCHANGED <<PoolVars, RateVars>>
     \/ /\ which = "rate" /\ Rate!Next
        /\ UNCHANGED <<PoolVars, WaitVars>>

\* The fairness of each component, when it is the one that runs.
AllFairness ==
  /\ \A t \in Tasks : WF_PoolVars(which = "tasks" /\ AddStep(t))
  /\ \A w \in Consumers : WF_PoolVars(which = "tasks" /\ WorkerStep(w))
  /\ \A x \in Waiters : WF_PoolVars(which = "tasks" /\ WaitTest(x))
  /\ WF_PoolVars(which = "tasks" /\ PoolDestroyed)
  /\ WF_PoolVars(which = "tasks" /\ TimeoutRound)
  /\ \A t \in {t1, t2} : WF_WaitVars(which = "wait" /\ Wait!AddStep(t))
  /\ \A w \in {"w1", "w2"} : WF_WaitVars(which = "wait" /\ Wait!WorkerStep(w))
  /\ \A x \in {"x1", "x2"} : WF_WaitVars(which = "wait" /\ Wait!WaitTest(x))
  /\ WF_WaitVars(which = "wait" /\ Wait!PoolDestroyed)
  /\ WF_WaitVars(which = "wait" /\ Wait!TimeoutRound)
  /\ WF_RateVars(which = "rate" /\ Rate!QpsRound)
  /\ WF_RateVars(which = "rate" /\ Rate!Tick)
  /\ WF_RateVars(which = "rate" /\ Rate!Destroyed)
  /\ \A x \in {t1, t2, t3, "qps"} : WF_RateVars(which = "rate" /\ Rate!AddTask(x))
  /\ WF_RateVars(which = "rate" /\ (Rate!Block("c1") \/ Rate!Take("c1")))

AllSpec == AllInit /\ [][AllNext]_allVars /\ AllFairness

-----------------------------------------------------------------------------
\* The destructor returns although functions add functions, and Wait() returns
\* although consumers and waiters wake up without a notification and functions
\* are taken in batches (thread_pool.h).
PoolEnds == DestroyEnds /\ Wait!WaitEnds

\* As many tasks are released as are removed. In any stretch of time no more of
\* the tasks that come through push() enter the queue than the maximum rate
\* allows, but for those that were released before and added late, and for one
\* each time the clock is set back. Tasks held back are released although nobody
\* pushes any more, also when the clock is set back
\* (rate_limited_shared_queue.h).
RateKept ==
  [](Rate!TypeOK /\ Rate!CountConserved /\ Rate!RateBounded) /\
    Rate!PendingReleased

-----------------------------------------------------------------------------
\* The behaviours of the thread pool only, and those of the rate-limited queue.
PoolSpec == which = "tasks" /\ AllSpec
RateSpec == which = "rate" /\ AllSpec

\* Pending tasks are processed: a task that is pushed reaches a consumer
\* (rate_limited_shared_queue.h).
EveryTaskDelivered == Rate!EveryTaskDelivered
=============================================================================
