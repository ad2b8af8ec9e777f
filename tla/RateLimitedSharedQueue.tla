------------------------ MODULE RateLimitedSharedQueue ------------------------
(***************************************************************************)
(* util/thread/rate_limited_shared_queue.h: a SharedQueue in front of      *)
(* which pushed tasks wait in tasks_ until min_ms_between_tasks_ have      *)
(* passed since the last one was released, either by the next push() or by *)
(* the qps thread.  A thread that releases a task lets go of m_ before it  *)
(* pushes the task into the SharedQueue: the task is in its hand.  The     *)
(* try_push() of the base class is not overridden and goes straight to the *)
(* queue; RateLimitedThreadPool reaches it through TryAdd().               *)
(***************************************************************************)
EXTENDS SharedQueue, FiniteSets

CONSTANTS
  Tasks,      \* the tasks, each pushed once, by a thread of its own
  TryTasks,   \* those that are pushed with try_push()
  Qps,        \* the thread of ConsumeQueryRate()
  None,       \* an empty hand
  MinMs,      \* min_ms_between_tasks_
  Word,       \* 2^64 in the code: timestamps are unsigned
  StepsBack   \* bound: how often the wall clock is set back

RateAssumption ==
  /\ TryTasks \subseteq Tasks
  /\ Qps \notin Tasks
  /\ None \notin Tasks
  /\ MinMs \in Nat \ {0}
  /\ Word \in Nat \ {0}
  /\ StepsBack \in Nat

VARIABLES
  tasks,      \* tasks_
  last,       \* last_task_add_timestamp_ms_
  now,        \* the clock behind TimestampMs()
  hand,       \* the local variable task of push() and ConsumeQueryRate()
  pushed,     \* the tasks whose push() or try_push() was called
  delivered,  \* what consumers have taken out, in order
  released,   \* history: when the last task was taken out of tasks_
  entered,    \* history: the additions by push() and the qps thread, in order
  stepped,    \* how often the clock was set back
  state       \* "alive", "stopping" (in the destructor), "gone"

limitVars == <<tasks, last, now, hand, pushed, delivered, released, entered, stepped, state>>
vars == <<q, producers_finished, cond, flushed, tasks, last, now, hand, pushed,
          delivered, released, entered, stepped, state>>

Threads == Tasks \cup {Qps}
Start == 2 * MinMs   \* the clock when the queue is constructed

(* What every variable may hold; the last release is in the past unless    *)
(* the clock was set back.                                                 *)
TypeOK ==
  /\ QueueTypeOK(Tasks)
  /\ tasks \in Seq(Tasks)
  /\ last \in Nat /\ now \in Nat /\ (stepped = 0 => last <= now)
  /\ hand \in [Threads -> Tasks \cup {None}]
  /\ pushed \subseteq Tasks
  /\ delivered \in Seq(Tasks)
  /\ released \in [at : Nat, steps : Nat]
  /\ entered \in Seq([at : Nat, steps : Nat, hands : Nat, since : [at : Nat, steps : Nat]])
  /\ stepped \in 0 .. StepsBack
  /\ state \in {"alive", "stopping", "gone"}

Init ==
  /\ QueueInit
  /\ tasks = <<>>
  /\ last = Start - 2 * MinMs
  /\ now = Start
  /\ hand = [x \in Threads |-> None]
  /\ pushed = {}
  /\ delivered = <<>>
  /\ released = [at |-> last, steps |-> 0] /\ entered = <<>>
  /\ stepped = 0
  /\ state = "alive"

-----------------------------------------------------------------------------
(* The time that has passed, whatever the clock says, and how often the    *)
(* clock was set back by now.                                              *)
Moment == [at |-> now + stepped, steps |-> stepped]

(* The subtraction is unsigned: a clock behind last_ looks far ahead.      *)
Elapsed == (now - last + Word) % Word

(* ReadyForNextTask(), on the pending tasks s.                             *)
Ready(s) == s # <<>> /\ Elapsed >= MinMs

(* A release does not move the timestamp: the rate is not limited.         *)
MaybeGetTask_NoStamp(s, x) ==
  \/ /\ Ready(s)
     /\ hand' = [hand EXCEPT ![x] = s[Len(s)]]
     /\ tasks' = Tail(s)
     /\ released' = Moment
     /\ UNCHANGED last
  \/ ~Ready(s) /\ tasks' = s /\ UNCHANGED <<hand, last, released>>

(* MaybeGetTask() by thread x: tasks_.back() is handed out, tasks_.pop()   *)
(* removes the front.                                                      *)
MaybeGetTask(s, x) ==
  \/ /\ Ready(s)
     /\ hand' = [hand EXCEPT ![x] = s[Len(s)]]
     /\ tasks' = Tail(s)
     /\ last' = now
     /\ released' = Moment
  \/ ~Ready(s) /\ tasks' = s /\ UNCHANGED <<hand, last, released>>

(* push() with m_ held.                                                    *)
PushPending(t) ==
  /\ state = "alive"
  /\ t \notin pushed \cup TryTasks
  /\ pushed' = pushed \cup {t}
  /\ MaybeGetTask(Append(tasks, t), t)
  /\ UNCHANGED <<queueVars, now, delivered, entered, stepped, state>>

(* One round of ConsumeQueryRate() with m_ held.                           *)
QpsRound ==
  /\ state # "gone"
  /\ hand[Qps] = None
  /\ Ready(tasks)
  /\ MaybeGetTask(tasks, Qps)
  /\ UNCHANGED <<queueVars, now, pushed, delivered, entered, stepped, state>>

(* The threads that are about to add a task.                               *)
InHand == {x \in Threads : hand[x] # None}

(* AddTask(): the push of the base class, outside m_.                      *)
AddTask(x) ==
  /\ hand[x] # None
  /\ Push(hand[x])
  /\ hand' = [hand EXCEPT ![x] = None]
  /\ entered' = Append(entered, [at |-> Moment.at, steps |-> stepped,
                                 hands |-> Cardinality(InHand), since |-> released])
  /\ UNCHANGED <<tasks, last, now, pushed, delivered, released, stepped, state>>

(* The inherited try_push(), which succeeds or returns false.              *)
TryPushTask(t) ==
  /\ state = "alive"
  /\ t \in TryTasks \ pushed
  /\ \/ TryPush(t) /\ pushed' = pushed \cup {t}
     \/ TryPushFails /\ UNCHANGED <<queueVars, pushed>>
  /\ UNCHANGED <<tasks, last, now, hand, delivered, released, entered, stepped, state>>

-----------------------------------------------------------------------------
(* Consumers, the clock and the destructor.                                *)

Block(c) == ConsumeBlock(c) /\ UNCHANGED limitVars

Take(c) ==
  /\ state # "gone"
  /\ delivered' = delivered \o NextBatch
  /\ ConsumeTake(c)
  /\ UNCHANGED <<tasks, last, now, hand, pushed, released, entered, stepped, state>>

(* The clock advances.  How far it is beyond MinMs after the last release  *)
(* makes no difference to the code, so it stops there.                     *)
Tick ==
  /\ Elapsed < MinMs
  /\ now' = now + 1
  /\ UNCHANGED <<queueVars, tasks, last, hand, pushed, delivered, released, entered, stepped, state>>

(* high_resolution_clock is not steady: it can be set back.                *)
SetClockBack ==
  /\ stepped < StepsBack
  /\ now' = now - 1
  /\ stepped' = stepped + 1
  /\ UNCHANGED <<queueVars, tasks, last, hand, pushed, delivered, released, entered, state>>

(* ~RateLimitedSharedQueue() clears run_qps_thread_ and joins the thread,  *)
(* then ~SharedQueue() runs.  No thread is in push() by then.              *)
Stop ==
  /\ state = "alive"
  /\ \A t \in Tasks : hand[t] = None
  /\ state' = "stopping"
  /\ UNCHANGED <<queueVars, tasks, last, now, hand, pushed, delivered, released, entered, stepped>>

Destroyed ==
  /\ state = "stopping"
  /\ hand[Qps] = None
  /\ NotifyProducersFinished
  /\ state' = "gone"
  /\ UNCHANGED <<tasks, last, now, hand, pushed, delivered, released, entered, stepped>>

Terminated == state = "gone" /\ UNCHANGED vars

Next ==
  \/ \E t \in Tasks : PushPending(t) \/ TryPushTask(t)
  \/ QpsRound
  \/ \E x \in Threads : AddTask(x)
  \/ \E c \in Consumers : Block(c) \/ Take(c)
  \/ Tick \/ SetClockBack
  \/ Stop \/ Destroyed \/ Terminated

Spec == Init /\ [][Next]_vars

(* Threads and the clock move on; nobody has to push or to destroy.        *)
Fairness ==
  /\ WF_vars(QpsRound) /\ WF_vars(Tick) /\ WF_vars(Destroyed)
  /\ \A x \in Threads : WF_vars(AddTask(x))
  /\ \A c \in Consumers : WF_vars(Block(c) \/ Take(c))

FairSpec == Spec /\ Fairness

-----------------------------------------------------------------------------
(* As many tasks are on their way or delivered as were pushed: releasing a *)
(* task takes one out of tasks_, whichever it is.                          *)
CountConserved ==
  Len(tasks) + Cardinality(InHand) + Len(q) + Len(delivered) = Cardinality(pushed)

(* In any stretch of time no more tasks enter the queue through push() and *)
(* the qps thread than periods of MinMs have passed since the last release *)
(* before it, one more for every task that was in a hand already, and one  *)
(* more each time the clock was set back.  (Tasks that come through        *)
(* try_push() are not held back at all.)                                   *)
RateBounded ==
  \A i, j \in 1 .. Len(entered) : i < j =>
    LET a == entered[i]
        b == entered[j]
    IN  j - i <= (a.hands - 1) + (b.at - a.since.at) \div MinMs + (b.steps - a.since.steps)

(* Tasks held back by the rate limit are released by the qps thread        *)
(* although nobody pushes any more.                                        *)
PendingReleased == (tasks # <<>> /\ state = "alive") ~> (tasks = <<>> \/ state # "alive")

(* Pending tasks are processed: a task that is pushed reaches a consumer.  *)
EveryTaskDelivered ==
  \A t \in Tasks : (t \in pushed) ~> (state # "alive" \/ \E i \in 1 .. Len(delivered) : delivered[i] = t)

(* At most one task every MinMs, as the comment at the head of the file    *)
(* says and the code does not keep: two tasks enter the queue at least     *)
(* that far apart.                                                         *)
EntriesSpaced ==
  \A i \in 2 .. Len(entered) : entered[i].at - entered[i - 1].at >= MinMs
=============================================================================
