------------------------- MODULE SharedQueueConsumers -------------------------
(***************************************************************************)
(* The threads around a SharedQueue, util/thread/shared_queue_consumers.h: *)
(* producers that push, AsyncConsumer threads that loop over Consume(),    *)
(* the timeout thread of the queue, and the owner, which tells the queue   *)
(* that the producers are finished, joins the consumers and destroys the   *)
(* queue.  Elements are numbered in the order in which the producers got   *)
(* the mutex, so any number of producer threads is covered.                *)
(***************************************************************************)
EXTENDS SharedQueue, SequencesExt, SequenceTheorems

CONSTANTS
  MaxElements,  \* bound: pushes in a behaviour
  Calls,        \* the calls that the program around the queue makes besides
                \* push() and notify_producers_finished()
  Spurious      \* TRUE iff cond_.wait may return without a notification

ASSUME ConsumersAssumption ==
  /\ MaxElements \in Nat
  /\ Calls \subseteq {"pop", "flush", "finish", "extract"}
  /\ Spurious \in BOOLEAN

VARIABLES
  pc,         \* where each AsyncConsumer is in ConsumeInternal() / Consume()
  batch,      \* the local variable batch of Consume()
  consumed,   \* consumed_
  extracted,  \* what ExtractConsumed() has returned so far
  done,       \* done_
  pushed,     \* number of elements pushed so far
  drained,    \* what pop() and flush() have returned so far
  owner,      \* the thread that owns the queue and the consumers
  timeout     \* the timeout thread runs

consumerVars == <<pc, batch, consumed, extracted, done>>
vars == <<q, producers_finished, cond, flushed, pc, batch, consumed, extracted,
          done, pushed, drained, owner, timeout>>

Elements == 1 .. MaxElements
PCs == {"loop", "consume", "got", "empty", "exited"}

(* "running"; "forcing": in Finish(), joining a consumer it told to stop;  *)
(* "joining": all producers are finished, in Wait() of the consumers;      *)
(* "destroying": in ~SharedQueue(), joining the timeout thread.            *)
OwnerStates == {"running", "forcing", "joining", "destroying", "destroyed"}

(* What every variable may hold; only a thread inside consume_batch() can  *)
(* be blocked on cond_, and no consumer is given more than a batch.        *)
TypeOK ==
  /\ QueueTypeOK(Elements)
  /\ pc \in [Consumers -> PCs]
  /\ batch \in [Consumers -> Seq(Elements)]
  /\ \A c \in Consumers : Len(batch[c]) <= BatchSize
  /\ consumed \in [Consumers -> Seq(Elements)]
  /\ extracted \in [Consumers -> Seq(Elements)]
  /\ done \in [Consumers -> BOOLEAN]
  /\ pushed \in 0 .. MaxElements
  /\ drained \in Seq(Elements)
  /\ owner \in OwnerStates
  /\ timeout \in BOOLEAN
  /\ \A c \in Consumers : cond[c] # "outside" => pc[c] = "consume"

Init ==
  /\ QueueInit
  /\ pc = [c \in Consumers |-> "loop"]
  /\ batch = [c \in Consumers |-> <<>>]
  /\ consumed = [c \in Consumers |-> <<>>]
  /\ extracted = [c \in Consumers |-> <<>>]
  /\ done = [c \in Consumers |-> FALSE]
  /\ pushed = 0
  /\ drained = <<>>
  /\ owner = "running"
  /\ timeout = NotifyTimeout

-----------------------------------------------------------------------------
(* The producers.                                                          *)

Produce ==
  /\ ~producers_finished
  /\ pushed < MaxElements
  /\ Push(pushed + 1) \/ TryPush(pushed + 1)
  /\ pushed' = pushed + 1
  /\ UNCHANGED <<consumerVars, drained, owner, timeout>>

-----------------------------------------------------------------------------
(* An AsyncConsumer.                                                       *)

Goto(c, from, to) == pc[c] = from /\ pc' = [pc EXCEPT ![c] = to]

(* The test of done_ in the loop of ConsumeInternal().                     *)
TestDone(c) ==
  /\ Goto(c, "loop", IF done[c] THEN "exited" ELSE "consume")
  /\ UNCHANGED <<queueVars, batch, consumed, extracted, done, pushed, drained, owner, timeout>>

Block(c) ==
  /\ pc[c] = "consume"
  /\ ConsumeBlock(c)
  /\ UNCHANGED <<consumerVars, pushed, drained, owner, timeout>>

Take(c) ==
  /\ Goto(c, "consume", IF NextBatch = <<>> THEN "empty" ELSE "got")
  /\ batch' = [batch EXCEPT ![c] = NextBatch]
  /\ ConsumeTake(c)
  /\ UNCHANGED <<consumed, extracted, done, pushed, drained, owner, timeout>>

(* The new batch replaces what was consumed before.                        *)
Store_Replace(c) ==
  /\ Goto(c, "got", "loop")
  /\ consumed' = [consumed EXCEPT ![c] = batch[c]]
  /\ batch' = [batch EXCEPT ![c] = <<>>]
  /\ UNCHANGED <<queueVars, extracted, done, pushed, drained, owner, timeout>>

(* A non-empty batch is added to consumed_ under the consumer's own mutex. *)
Store(c) ==
  /\ Goto(c, "got", "loop")
  /\ consumed' = [consumed EXCEPT ![c] = @ \o batch[c]]
  /\ batch' = [batch EXCEPT ![c] = <<>>]
  /\ UNCHANGED <<queueVars, extracted, done, pushed, drained, owner, timeout>>

(* An empty batch never ends the consumer.                                 *)
TestFinished_Continue(c) ==
  /\ Goto(c, "empty", "loop")
  /\ UNCHANGED <<queueVars, batch, consumed, extracted, done, pushed, drained, owner, timeout>>

(* An empty batch: the queue is asked again, under a new lock of its       *)
(* mutex, whether the producers are finished.                              *)
TestFinished(c) ==
  /\ Goto(c, "empty", IF producers_finished THEN "exited" ELSE "loop")
  /\ done' = [done EXCEPT ![c] = @ \/ producers_finished]
  /\ UNCHANGED <<queueVars, batch, consumed, extracted, pushed, drained, owner, timeout>>

ConsumerStep(c) ==
  TestDone(c) \/ Block(c) \/ Take(c) \/ Store(c) \/ TestFinished(c)

-----------------------------------------------------------------------------
(* The rest of the program: threads that call pop(), flush() and           *)
(* ExtractConsumed().                                                      *)

PopOne ==
  /\ "pop" \in Calls
  /\ Pop
  /\ drained' = Append(drained, Head(q))
  /\ UNCHANGED <<consumerVars, pushed, owner, timeout>>

FlushQueue ==
  /\ "flush" \in Calls
  /\ Flush
  /\ drained' = drained \o SubSeq(q, 1, FlushSize)
  /\ UNCHANGED <<consumerVars, pushed, owner, timeout>>

ExtractConsumed(c) ==
  /\ "extract" \in Calls
  /\ extracted' = [extracted EXCEPT ![c] = @ \o consumed[c]]
  /\ consumed' = [consumed EXCEPT ![c] = <<>>]
  /\ UNCHANGED <<queueVars, pc, batch, done, pushed, drained, owner, timeout>>

Wakeup(c) ==
  /\ Spurious
  /\ SpuriousWakeup(c)
  /\ UNCHANGED <<consumerVars, pushed, drained, owner, timeout>>

-----------------------------------------------------------------------------
(* The timeout thread and the owner.                                       *)

TimeoutRound ==
  /\ timeout
  /\ TimeoutConsume
  /\ UNCHANGED <<consumerVars, pushed, drained, owner, timeout>>

(* The loop test of timeout_consume() after ~SharedQueue() cleared         *)
(* run_timeout_thread_.                                                    *)
TimeoutEnds ==
  /\ timeout
  /\ owner = "destroying"
  /\ timeout' = FALSE
  /\ UNCHANGED <<queueVars, consumerVars, pushed, drained, owner>>

(* Finish(): the flag is set, nobody is notified, the thread is joined.    *)
Finish(c) ==
  /\ "finish" \in Calls
  /\ owner = "running"
  /\ pc[c] # "exited"
  /\ done' = [done EXCEPT ![c] = TRUE]
  /\ owner' = "forcing"
  /\ UNCHANGED <<queueVars, pc, batch, consumed, extracted, pushed, drained, timeout>>

FinishReturns ==
  /\ owner = "forcing"
  /\ \A c \in Consumers : done[c] => pc[c] = "exited"
  /\ owner' = "running"
  /\ UNCHANGED <<queueVars, consumerVars, pushed, drained, timeout>>

ProducersFinished ==
  /\ owner = "running"
  /\ NotifyProducersFinished
  /\ owner' = "joining"
  /\ UNCHANGED <<consumerVars, pushed, drained, timeout>>

(* The Wait() of every consumer returned and ~SharedQueue() runs: it       *)
(* repeats the notification and stops the timeout thread.                  *)
DestroyQueue ==
  /\ owner = "joining"
  /\ \A c \in Consumers : pc[c] = "exited"
  /\ NotifyProducersFinished
  /\ owner' = "destroying"
  /\ UNCHANGED <<consumerVars, pushed, drained, timeout>>

QueueDestroyed ==
  /\ owner = "destroying"
  /\ ~timeout
  /\ owner' = "destroyed"
  /\ UNCHANGED <<queueVars, consumerVars, pushed, drained, timeout>>

Terminated == owner = "destroyed" /\ UNCHANGED vars

OwnerStep ==
  FinishReturns \/ ProducersFinished \/ DestroyQueue \/ QueueDestroyed

Next ==
  \/ Produce
  \/ \E c \in Consumers : ConsumerStep(c) \/ Wakeup(c) \/ Finish(c) \/ ExtractConsumed(c)
  \/ PopOne \/ FlushQueue
  \/ TimeoutRound \/ TimeoutEnds
  \/ OwnerStep
  \/ Terminated

Spec == Init /\ [][Next]_vars

(* A thread that can run eventually does.  Nobody is obliged to push, to   *)
(* drain, or to say that the producers are finished.                       *)
Fairness ==
  /\ \A c \in Consumers : WF_vars(ConsumerStep(c))
  /\ WF_vars(TimeoutRound) /\ WF_vars(TimeoutEnds)
  /\ WF_vars(FinishReturns) /\ WF_vars(DestroyQueue) /\ WF_vars(QueueDestroyed)

FairSpec == Spec /\ Fairness

-----------------------------------------------------------------------------
(* Everything a consumer ever took, in the order in which it took it.      *)
History(c) == extracted[c] \o consumed[c] \o batch[c]

(* The number of elements that have left the queue.                        *)
Left == pushed - Len(q)

(* The queue holds the youngest elements, oldest first: whatever mixture   *)
(* of batches, pops and flushes takes elements out, they leave in the      *)
(* order in which the producers got the mutex.                             *)
QueueIsSuffix ==
  /\ Len(q) <= pushed
  /\ \A i \in 1 .. Len(q) : q[i] = Left + i

(* Every consumer sees elements in the order of their pushes.              *)
HistoryIncreasing ==
  \A c \in Consumers : \A i, j \in 1 .. Len(History(c)) :
    i < j => History(c)[i] < History(c)[j]

(* An element that left the queue is in exactly one pair of hands: it is   *)
(* never lost between the queue, the batch, consumed_ and the extracted    *)
(* data, and never handed to two threads.                                  *)
ExactlyOnce ==
  LET hands == [c \in Consumers |-> ToSet(History(c))]
  IN  /\ (UNION {hands[c] : c \in Consumers}) \cup ToSet(drained) = 1 .. Left
      /\ \A c \in Consumers :
           /\ hands[c] \cap ToSet(drained) = {}
           /\ \A d \in Consumers \ {c} : hands[c] \cap hands[d] = {}

(* Every consumer sees the elements in the order of their pushes, and each *)
(* is in exactly one pair of hands, whatever mixture of batches, pops,     *)
(* flushes, extractions and forced ends takes them out (shared_queue.h,    *)
(* shared_queue_consumers.h).                                              *)
CallsOnceInOrder == HistoryIncreasing /\ ExactlyOnce

(* Once all consumers have returned from Wait() the queue is empty: no     *)
(* consumer gives up while it is the last one and there is work left.      *)
DrainedAtExit == (\A c \in Consumers : pc[c] = "exited") => q = <<>>

(* Why DrainedAtExit holds, as an inductive invariant.  A consumer that    *)
(* came out of its wait to an empty queue ("empty") may be overtaken by a  *)
(* push and by the end of production, and then leaves although there is    *)
(* work.  That is harmless as long as somebody else is on duty: whoever    *)
(* emptied the queue is still in the loop.                                 *)
OnDuty(c) == pc[c] \notin {"empty", "exited"}

DrainInv ==
  /\ ~producers_finished =>
       /\ \A c \in Consumers : pc[c] # "exited"
       /\ \E c \in Consumers : pc[c] # "empty"
       /\ q = <<>> /\ (\E c \in Consumers : cond[c] = "notified") =>
            \E d \in Consumers : OnDuty(d) /\ cond[d] # "notified"
       /\ \A c \in Consumers : ~done[c]
  /\ producers_finished /\ q # <<>> => \E c \in Consumers : OnDuty(c)
  /\ \A c \in Consumers : done[c] => pc[c] = "exited"
  /\ producers_finished <=> owner \in {"joining", "destroying", "destroyed"}

(* ~SharedQueue() does not return while the timeout thread still uses the  *)
(* mutex and the condition variable.                                       *)
NoUseAfterDestroy ==
  owner = "destroyed" =>
    ~timeout /\ \A c \in Consumers : pc[c] = "exited" /\ cond[c] = "outside"

(* notify_producers_finished() wakes up all consumers: each of them ends,  *)
(* and so the owner gets through its joins and ~SharedQueue().             *)
ProducersFinishedEndsAll == producers_finished ~> (owner = "destroyed")

(* With a timeout thread an element does not stay in the queue for ever    *)
(* because too few others arrive to fill a batch.                          *)
PartialBatchConsumed ==
  \A e \in Elements : (e \in ToSet(q)) ~> (e \notin ToSet(q))

(* The comments say of Finish() that it forces the consumer to finish, and *)
(* of flush() that it clears out the queue.  Neither holds: Finish() does  *)
(* not wake up a consumer that waits, and flush() compares its counter     *)
(* with the shrinking queue.                                               *)
FinishForces == (owner = "forcing") ~> (owner # "forcing")
FlushClears == [][FlushQueue => q' = <<>>]_vars

-----------------------------------------------------------------------------
(* Proofs, for every set of consumers, batch size, capacity and number of  *)
(* elements.                                                               *)
USE SharedQueueAssumption, ConsumersAssumption DEF SharedQueueAssumption, ConsumersAssumption

(* Type correctness: every variable keeps its type, only a thread in       *)
(* consume_batch() is ever blocked on cond_, and no consumer is given more *)
(* than batch_size() elements at a time.                                   *)
THEOREM TypeCorrect == Spec => []TypeOK
  <1>1. Init => TypeOK
    <2> SUFFICES ASSUME Init PROVE TypeOK
      OBVIOUS
    <2> USE DEF Init, QueueInit
    <2>1. QueueTypeOK(Elements)
      <3>1. q \in Seq(Elements)
        OBVIOUS
      <3>2. cond \in [Consumers -> CondStates]
        BY DEF CondStates
      <3>3. producers_finished \in BOOLEAN /\ flushed \in BOOLEAN
        OBVIOUS
      <3> QED
        BY <3>1, <3>2, <3>3 DEF QueueTypeOK
    <2>2. timeout \in BOOLEAN
      BY Zenon
    <2>3. pushed \in 0 .. MaxElements /\ owner \in OwnerStates
      BY DEF OwnerStates
    <2>4. /\ pc \in [Consumers -> PCs]
          /\ \A c \in Consumers : cond[c] # "outside" => pc[c] = "consume"
      BY DEF PCs
    <2>5. /\ batch \in [Consumers -> Seq(Elements)]
          /\ \A c \in Consumers : Len(batch[c]) <= BatchSize
          /\ consumed \in [Consumers -> Seq(Elements)]
          /\ extracted \in [Consumers -> Seq(Elements)]
          /\ drained \in Seq(Elements)
      OBVIOUS
    <2>6. done \in [Consumers -> BOOLEAN]
      OBVIOUS
    <2> QED
      BY <2>1, <2>2, <2>3, <2>4, <2>5, <2>6 DEF TypeOK
  <1>2. TypeOK /\ [Next]_vars => TypeOK'
    <2> SUFFICES ASSUME TypeOK, [Next]_vars PROVE TypeOK'
      OBVIOUS
    <2> USE DEF TypeOK, QueueTypeOK
    <2>0. CASE UNCHANGED vars
      BY <2>0 DEF vars
    <2>1. CASE Produce
      <3>1. pushed + 1 \in Elements /\ pushed' \in 0 .. MaxElements
        BY <2>1 DEF Produce, Elements
      <3>2. Push(pushed + 1)
        BY <2>1 DEF Produce, TryPush
      <3>3. q' \in Seq(Elements)
        BY <3>1, <3>2 DEF Push
      <3>4. /\ cond' \in [Consumers -> CondStates]
            /\ \A c \in Consumers : cond'[c] = "outside" <=> cond[c] = "outside"
        BY <3>2, NotifyFacts DEF Push
      <3> QED
        BY <2>1, <3>1, <3>2, <3>3, <3>4 DEF Produce, Push, consumerVars
    <2>2. ASSUME NEW c \in Consumers, ConsumerStep(c) PROVE TypeOK'
      <3>1. CASE TestDone(c)
        BY <3>1 DEF TestDone, Goto, queueVars, PCs
      <3>2. CASE Block(c)
        BY <3>2 DEF Block, ConsumeBlock, consumerVars, CondStates
      <3>3. CASE Take(c)
        <4>1. NextBatch \in Seq(Elements) /\ Len(NextBatch) <= BatchSize
          BY TakeSizeFacts DEF TakeSize, NextBatch
        <4>2. /\ batch' \in [Consumers -> Seq(Elements)]
              /\ \A d \in Consumers : Len(batch'[d]) <= BatchSize
          BY <3>3, <4>1 DEF Take
        <4> QED
          BY <3>3, <4>2, TakeSizeFacts DEF Take, ConsumeTake, Goto, PCs, CondStates
      <3>4. CASE Store(c)
        BY <3>4 DEF Store, Goto, queueVars, PCs
      <3>5. CASE TestFinished(c)
        BY <3>5 DEF TestFinished, Goto, queueVars, PCs
      <3> QED
        BY <2>2, <3>1, <3>2, <3>3, <3>4, <3>5 DEF ConsumerStep
    <2>3. ASSUME NEW c \in Consumers, Wakeup(c) PROVE TypeOK'
      BY <2>3 DEF Wakeup, SpuriousWakeup, consumerVars, CondStates
    <2>4. ASSUME NEW c \in Consumers, Finish(c) PROVE TypeOK'
      BY <2>4 DEF Finish, queueVars, OwnerStates
    <2>5. ASSUME NEW c \in Consumers, ExtractConsumed(c) PROVE TypeOK'
      BY <2>5 DEF ExtractConsumed, queueVars
    <2>6. CASE PopOne
      BY <2>6 DEF PopOne, Pop, consumerVars
    <2>7. CASE FlushQueue
      <3>1. /\ SubSeq(q, FlushSize + 1, Len(q)) \in Seq(Elements)
            /\ SubSeq(q, 1, FlushSize) \in Seq(Elements)
        BY TakeSizeFacts
      <3>2. q' \in Seq(Elements) /\ flushed' \in BOOLEAN /\ UNCHANGED <<producers_finished, cond>>
        BY <2>7, <3>1, SharedQueueAssumption DEF FlushQueue, Flush, SharedQueueAssumption
      <3>3. drained' \in Seq(Elements)
        BY <2>7, <3>1 DEF FlushQueue
      <3> QED
        BY <2>7, <3>2, <3>3 DEF FlushQueue, consumerVars
    <2>8. CASE TimeoutRound
      <3>1. /\ cond' \in [Consumers -> CondStates]
            /\ \A c \in Consumers : cond'[c] = "outside" <=> cond[c] = "outside"
        BY <2>8, NotifyFacts DEF TimeoutRound, TimeoutConsume
      <3> QED
        BY <2>8, <3>1 DEF TimeoutRound, TimeoutConsume, consumerVars
    <2>9. CASE TimeoutEnds
      BY <2>9 DEF TimeoutEnds, queueVars, consumerVars
    <2>10. CASE OwnerStep
      <3>1. CASE FinishReturns
        BY <3>1 DEF FinishReturns, queueVars, consumerVars, OwnerStates
      <3>2. CASE ProducersFinished
        BY <3>2, NotifyFacts DEF ProducersFinished, NotifyProducersFinished, consumerVars, OwnerStates
      <3>3. CASE DestroyQueue
        BY <3>3, NotifyFacts DEF DestroyQueue, NotifyProducersFinished, consumerVars, OwnerStates
      <3>4. CASE QueueDestroyed
        BY <3>4 DEF QueueDestroyed, queueVars, consumerVars, OwnerStates
      <3> QED
        BY <2>10, <3>1, <3>2, <3>3, <3>4 DEF OwnerStep
    <2>11. CASE Terminated
      BY <2>11, <2>0 DEF Terminated
    <2> QED
      BY <2>0, <2>1, <2>2, <2>3, <2>4, <2>5, <2>6, <2>7, <2>8, <2>9, <2>10, <2>11 DEF Next
  <1> QED
    BY <1>1, <1>2, PTL DEF Spec

(* FIFO: whatever takes elements out of the queue, the queue always holds  *)
(* the youngest of the elements pushed, in the order of their pushes.      *)
THEOREM Fifo == Spec => []QueueIsSuffix
  <1>1. Init => QueueIsSuffix
    BY DEF Init, QueueInit, QueueIsSuffix
  <1>2. TypeOK /\ QueueIsSuffix /\ [Next]_vars => QueueIsSuffix'
    <2> SUFFICES ASSUME TypeOK, QueueIsSuffix, [Next]_vars PROVE QueueIsSuffix'
      OBVIOUS
    <2>0. q \in Seq(Elements) /\ pushed \in Nat
      BY DEF TypeOK, QueueTypeOK
    <2>1. ASSUME UNCHANGED <<q, pushed>> PROVE QueueIsSuffix'
      BY <2>1 DEF QueueIsSuffix, Left
    <2>2. ASSUME NEW k \in 0 .. Len(q), q' = SubSeq(q, k + 1, Len(q)), pushed' = pushed
          PROVE  QueueIsSuffix'
      <3>1. /\ Len(q') = Len(q) - k
            /\ \A i \in 1 .. (Len(q) - k) : q'[i] = q[k + i]
        BY <2>0, <2>2, CutFacts
      <3>2. Len(q) \in Nat /\ Len(q) <= pushed
        BY <2>0 DEF QueueIsSuffix
      <3>3. ASSUME NEW i \in 1 .. Len(q') PROVE q'[i] = pushed - Len(q') + i
        <4>1. k + i \in 1 .. Len(q) /\ i \in 1 .. (Len(q) - k)
          BY <3>1, <3>2
        <4>2. q[k + i] = pushed - Len(q) + (k + i)
          BY <4>1 DEF QueueIsSuffix, Left
        <4> QED
          BY <2>0, <3>1, <3>2, <4>1, <4>2
      <3>4. Len(q') <= pushed
        BY <2>0, <3>1, <3>2
      <3> QED
        BY <2>2, <3>3, <3>4 DEF QueueIsSuffix, Left
    <2>3. CASE Produce
      <3>1. q' = Append(q, pushed + 1) /\ pushed' = pushed + 1
        BY <2>3 DEF Produce, Push, TryPush
      <3> QED
        BY <2>0, <3>1 DEF QueueIsSuffix, Left
    <2>4. ASSUME NEW c \in Consumers, ConsumerStep(c) PROVE QueueIsSuffix'
      <3>1. CASE Take(c)
        BY <2>0, <2>2, <3>1, TakeSizeFacts DEF Take, ConsumeTake
      <3>2. CASE TestDone(c) \/ Block(c) \/ Store(c) \/ TestFinished(c)
        BY <2>1, <3>2 DEF TestDone, Block, Store, TestFinished, ConsumeBlock, queueVars
      <3> QED
        BY <2>4, <3>1, <3>2 DEF ConsumerStep
    <2>5. CASE PopOne
      <3>1. q' = SubSeq(q, 1 + 1, Len(q)) /\ 1 \in 0 .. Len(q) /\ pushed' = pushed
        BY <2>0, <2>5 DEF PopOne, Pop
      <3> QED
        BY <2>2, <3>1
    <2>6. CASE FlushQueue
      <3>1. /\ FlushSize \in 0 .. Len(q)
            /\ q' = SubSeq(q, FlushSize + 1, Len(q)) /\ pushed' = pushed
        BY <2>0, <2>6, TakeSizeFacts DEF FlushQueue, Flush
      <3> QED
        BY <2>2, <3>1
    <2>7. ASSUME NEW c \in Consumers, Wakeup(c) \/ Finish(c) \/ ExtractConsumed(c)
          PROVE  QueueIsSuffix'
      BY <2>1, <2>7 DEF Wakeup, SpuriousWakeup, Finish, ExtractConsumed, queueVars
    <2>8. CASE TimeoutRound \/ TimeoutEnds \/ OwnerStep \/ Terminated \/ UNCHANGED vars
      BY <2>1, <2>8 DEF TimeoutRound, TimeoutConsume, TimeoutEnds, OwnerStep, FinishReturns,
           ProducersFinished, DestroyQueue, NotifyProducersFinished, QueueDestroyed,
           Terminated, queueVars, vars
    <2> QED
      BY <2>3, <2>4, <2>5, <2>6, <2>7, <2>8 DEF Next
  <1> QED
    BY <1>1, <1>2, TypeCorrect, PTL DEF Spec

(* What the program must not do for the next theorem: the wait is not in a *)
(* loop, so it must not end without a notification, nobody but the         *)
(* consumers may take elements, and no consumer may be told to stop.       *)
OnlyConsumers == ~Spurious /\ Calls \cap {"pop", "flush", "finish"} = {}

(* No work is left behind: when the last consumer has left, the queue is   *)
(* empty, for every number of consumers and every batch size, with or      *)
(* without the timeout thread.                                             *)
THEOREM Drained == ASSUME OnlyConsumers PROVE Spec => []DrainedAtExit
  <1>1. Init => DrainInv
    <2> SUFFICES ASSUME Init PROVE DrainInv
      OBVIOUS
    <2>1. PICK c \in Consumers : TRUE
      OBVIOUS
    <2> QED
      BY <2>1 DEF Init, QueueInit, DrainInv
  <1>2. TypeOK /\ DrainInv /\ [Next]_vars => DrainInv'
    <2> SUFFICES ASSUME TypeOK, DrainInv, [Next]_vars PROVE DrainInv'
      OBVIOUS
    <2>0. /\ q \in Seq(Elements) /\ pc \in [Consumers -> PCs]
          /\ done \in [Consumers -> BOOLEAN]
          /\ cond \in [Consumers -> CondStates]
          /\ \A c \in Consumers : cond[c] # "outside" => pc[c] = "consume"
      BY DEF TypeOK, QueueTypeOK
    <2>1. CASE Produce
      <3>1. q' # <<>> /\ ~producers_finished
        BY <2>0, <2>1 DEF Produce, Push, TryPush
      <3> QED
        BY <2>1, <3>1 DEF Produce, Push, TryPush, consumerVars, DrainInv
    <2>2. ASSUME NEW c \in Consumers, TestDone(c) PROVE DrainInv'
      BY <2>0, <2>2 DEF TestDone, Goto, DrainInv, OnDuty, queueVars, PCs
    <2>3. ASSUME NEW c \in Consumers, Block(c) PROVE DrainInv'
      BY <2>0, <2>3 DEF Block, ConsumeBlock, MustBlock, DrainInv, OnDuty, consumerVars, CondStates
    <2>4. ASSUME NEW c \in Consumers, Take(c) PROVE DrainInv'
      <3>1. CASE q # <<>>
        <4>1. pc' = [pc EXCEPT ![c] = "got"] /\ cond' = [cond EXCEPT ![c] = "outside"]
          BY <2>0, <2>4, <3>1, TakeSizeFacts DEF Take, Goto, ConsumeTake
        <4>2. OnDuty(c)' /\ cond'[c] # "notified" /\ pc[c] = "consume"
          BY <2>0, <2>4, <4>1 DEF OnDuty, Take, Goto
        <4> QED
          BY <2>0, <2>4, <4>1, <4>2 DEF Take, ConsumeTake, DrainInv, OnDuty
      <3>2. CASE q = <<>>
        <4>0. q' = <<>>
          <5>1. q' = SubSeq(q, TakeSize + 1, Len(q))
            BY <2>4 DEF Take, ConsumeTake
          <5>2. TakeSize = 0 /\ Len(q) = 0
            BY <2>0, <3>2, TakeSizeFacts
          <5>3. q' \in Seq(Elements) /\ Len(q') = Len(q) - TakeSize
            BY <2>0, <5>1, TakeSizeFacts
          <5> QED
            BY <5>2, <5>3
        <4>1. /\ pc' = [pc EXCEPT ![c] = "empty"] /\ cond' = [cond EXCEPT ![c] = "outside"]
              /\ q' = <<>> /\ pc[c] = "consume"
          BY <2>0, <2>4, <3>2, <4>0, TakeSizeFacts DEF Take, Goto, ConsumeTake
        <4>2. ~producers_finished => cond[c] = "notified"
          BY <2>0, <2>4, <3>2 DEF Take, ConsumeTake, CanTake, MustBlock
        <4>3. ~producers_finished =>
                \E d \in Consumers : d # c /\ OnDuty(d) /\ cond[d] # "notified"
          BY <3>2, <4>2 DEF DrainInv
        <4> QED
          BY <2>0, <2>4, <3>2, <4>1, <4>3 DEF Take, ConsumeTake, DrainInv, OnDuty
      <3> QED
        BY <3>1, <3>2
    <2>5. ASSUME NEW c \in Consumers, Store(c) PROVE DrainInv'
      BY <2>0, <2>5 DEF Store, Goto, DrainInv, OnDuty, queueVars
    <2>6. ASSUME NEW c \in Consumers, TestFinished(c) PROVE DrainInv'
      BY <2>0, <2>6 DEF TestFinished, Goto, DrainInv, OnDuty, queueVars
    <2>7. ASSUME NEW c \in Consumers, ExtractConsumed(c) PROVE DrainInv'
      BY <2>7 DEF ExtractConsumed, DrainInv, OnDuty, queueVars
    <2>8. ASSUME NEW c \in Consumers, Wakeup(c) \/ Finish(c) PROVE DrainInv'
      BY <2>8 DEF Wakeup, Finish, OnlyConsumers
    <2>9. CASE PopOne \/ FlushQueue
      BY <2>9 DEF PopOne, FlushQueue, OnlyConsumers
    <2>10. CASE TimeoutRound
      <3>1. cond' = cond \/ producers_finished \/ q # <<>>
        BY <2>10 DEF TimeoutRound, TimeoutConsume
      <3> QED
        BY <2>10, <3>1 DEF TimeoutRound, TimeoutConsume, consumerVars, DrainInv, OnDuty
    <2>11. CASE TimeoutEnds \/ FinishReturns \/ QueueDestroyed \/ Terminated \/ UNCHANGED vars
      BY <2>11 DEF TimeoutEnds, FinishReturns, QueueDestroyed, Terminated, DrainInv, OnDuty,
           queueVars, consumerVars, vars
    <2>12. CASE ProducersFinished
      BY <2>12 DEF ProducersFinished, NotifyProducersFinished, DrainInv, OnDuty, consumerVars
    <2>13. CASE DestroyQueue
      BY <2>13 DEF DestroyQueue, NotifyProducersFinished, DrainInv, OnDuty, consumerVars
    <2> QED
      BY <2>1, <2>2, <2>3, <2>4, <2>5, <2>6, <2>7, <2>8, <2>9, <2>10, <2>11, <2>12, <2>13
         DEF Next, ConsumerStep, OwnerStep
  <1>3. DrainInv => DrainedAtExit
    BY DEF DrainInv, DrainedAtExit, OnDuty
  <1> QED
    BY <1>1, <1>2, <1>3, TypeCorrect, PTL DEF Spec

-----------------------------------------------------------------------------
(* Every element is in exactly one pair of hands.                          *)

(* A consumer holds a batch between Consume() and consumed_ only.          *)
BatchInv == \A c \in Consumers : pc[c] # "got" => batch[c] = <<>>

(* What a concatenation holds.                                             *)
LEMMA ConcatHolds ==
  ASSUME NEW S, NEW a \in Seq(S), NEW b \in Seq(S)
  PROVE  ToSet(a \o b) = ToSet(a) \cup ToSet(b)
  <1> DEFINE t == a \o b
  <1>1. /\ t \in Seq(S) /\ Len(t) = Len(a) + Len(b) /\ Len(a) \in Nat /\ Len(b) \in Nat
        /\ \A i \in 1 .. Len(a) + Len(b) : t[i] = IF i <= Len(a) THEN a[i] ELSE b[i - Len(a)]
    BY ConcatProperties
  <1>2. DOMAIN t = 1 .. Len(t) /\ DOMAIN a = 1 .. Len(a) /\ DOMAIN b = 1 .. Len(b)
    BY <1>1
  <1> HIDE DEF t
  <1>3. ASSUME NEW i \in 1 .. Len(t) PROVE t[i] \in ToSet(a) \cup ToSet(b)
    <2>1. CASE i <= Len(a)
      <3>1. i \in DOMAIN a /\ t[i] = a[i]
        BY <1>1, <1>2, <2>1
      <3> QED
        BY <3>1, Zenon DEF ToSet
    <2>2. CASE ~(i <= Len(a))
      <3>1. i - Len(a) \in DOMAIN b /\ t[i] = b[i - Len(a)]
        BY <1>1, <1>2, <2>2
      <3> QED
        BY <3>1, Zenon DEF ToSet
    <2> QED
      BY <2>1, <2>2
  <1>4. ASSUME NEW i \in 1 .. Len(a) PROVE a[i] \in ToSet(t)
    <2>1. i \in DOMAIN t /\ t[i] = a[i]
      BY <1>1, <1>2
    <2> QED
      BY <2>1, Zenon DEF ToSet
  <1>5. ASSUME NEW i \in 1 .. Len(b) PROVE b[i] \in ToSet(t)
    <2>1. i + Len(a) \in DOMAIN t /\ ~(i + Len(a) <= Len(a)) /\ (i + Len(a)) - Len(a) = i
      BY <1>1, <1>2
    <2>2. t[i + Len(a)] = b[i]
      BY <1>1, <1>2, <2>1
    <2> QED
      BY <2>1, <2>2, Zenon DEF ToSet
  <1>6. ToSet(t) \subseteq ToSet(a) \cup ToSet(b)
    BY <1>2, <1>3, Zenon DEF ToSet
  <1>7. ToSet(a) \subseteq ToSet(t) /\ ToSet(b) \subseteq ToSet(t)
    BY <1>2, <1>4, <1>5, Zenon DEF ToSet
  <1> QED
    BY <1>6, <1>7, Zenon DEF t

(* A consumer's history is a sequence of elements.                         *)
LEMMA HistoryType ==
  ASSUME TypeOK, NEW c \in Consumers
  PROVE  /\ extracted[c] \in Seq(Elements) /\ consumed[c] \in Seq(Elements)
         /\ batch[c] \in Seq(Elements) /\ History(c) \in Seq(Elements)
  <1>1. /\ extracted[c] \in Seq(Elements) /\ consumed[c] \in Seq(Elements)
        /\ batch[c] \in Seq(Elements)
    BY DEF TypeOK
  <1> QED
    BY <1>1, ConcatProperties DEF History

(* Whose hands an element is in.                                           *)
Hand(c) == ToSet(History(c))

OnceInv ==
  /\ \A c \in Consumers : Hand(c) \subseteq 1 .. Left
  /\ ToSet(drained) \subseteq 1 .. Left
  /\ \A x \in 1 .. Left : x \in ToSet(drained) \/ \E c \in Consumers : x \in Hand(c)
  /\ \A c \in Consumers : Hand(c) \cap ToSet(drained) = {}
  /\ \A c, d \in Consumers : c # d => Hand(c) \cap Hand(d) = {}

LEMMA OnceIsExactlyOnce == OnceInv => ExactlyOnce
  <1> SUFFICES ASSUME OnceInv PROVE ExactlyOnce
    OBVIOUS
  <1>1. (UNION {Hand(c) : c \in Consumers}) \cup ToSet(drained) = 1 .. Left
    <2> DEFINE A == 1 .. Left
               D == ToSet(drained)
               U == UNION {Hand(c) : c \in Consumers}
    <2>1. /\ D \subseteq A /\ \A c \in Consumers : Hand(c) \subseteq A
          /\ \A x \in A : x \in D \/ \E c \in Consumers : x \in Hand(c)
      BY Zenon DEF OnceInv
    <2>2. \A x : x \in U <=> \E c \in Consumers : x \in Hand(c)
      OBVIOUS
    <2> HIDE DEF A, D, U
    <2>3. U \subseteq A
      BY <2>1, <2>2, Zenon
    <2>4. \A x \in A : x \in U \/ x \in D
      BY <2>1, <2>2, Zenon
    <2>5. U \cup D = A
      BY <2>1, <2>3, <2>4
    <2> QED
      BY <2>5, Zenon DEF A, D, U
  <1>2. \A c \in Consumers : [d \in Consumers |-> ToSet(History(d))][c] = Hand(c)
    BY DEF Hand
  <1>3. UNION {[d \in Consumers |-> ToSet(History(d))][c] : c \in Consumers} = UNION {Hand(c) : c \in Consumers}
    BY <1>2, Zenon
  <1> QED
    BY <1>1, <1>2, <1>3 DEF ExactlyOnce, OnceInv

(* A run of elements that leaves the head of the queue.                    *)
LEMMA RunFacts ==
  ASSUME Left \in Nat, NEW n \in Nat, Left' = Left + n
  PROVE  /\ 1 .. Left' = (1 .. Left) \cup (Left + 1 .. Left + n)
         /\ (1 .. Left) \cap (Left + 1 .. Left + n) = {}
  OBVIOUS

(* It goes to one consumer ...                                             *)
LEMMA TakenByConsumer ==
  ASSUME OnceInv, Left \in Nat, NEW n \in Nat, Left' = Left + n, drained' = drained,
         NEW c \in Consumers, Hand(c)' = Hand(c) \cup (Left + 1 .. Left + n),
         \A d \in Consumers \ {c} : Hand(d)' = Hand(d)
  PROVE  OnceInv'
  <1> DEFINE R == Left + 1 .. Left + n
             A == 1 .. Left
             B == (1 .. Left)'
             D == ToSet(drained)
  <1>0. B = A \cup R /\ A \cap R = {}
    BY RunFacts
  <1>1. /\ Hand(c)' = Hand(c) \cup R /\ \A d \in Consumers \ {c} : Hand(d)' = Hand(d)
        /\ ToSet(drained)' = D
    OBVIOUS
  <1>2. /\ \A d \in Consumers : Hand(d) \subseteq A
        /\ D \subseteq A
        /\ \A x \in A : x \in D \/ \E d \in Consumers : x \in Hand(d)
        /\ \A d \in Consumers : Hand(d) \cap D = {}
        /\ \A d, e \in Consumers : d # e => Hand(d) \cap Hand(e) = {}
    BY Zenon DEF OnceInv
  <1> HIDE DEF R, A, B, D
  <1>3. \A d \in Consumers : Hand(d)' \subseteq B
    BY <1>0, <1>1, <1>2
  <1>4. ToSet(drained)' \subseteq B
    BY <1>0, <1>1, <1>2, Zenon
  <1>5. ASSUME NEW x \in B PROVE x \in ToSet(drained)' \/ \E d \in Consumers : x \in Hand(d)'
    <2>1. CASE x \in R
      BY <1>1, <2>1, Zenon
    <2>2. CASE x \in A
      BY <1>1, <1>2, <2>2
    <2> QED
      BY <1>0, <2>1, <2>2, Zenon
  <1>6. \A d \in Consumers : Hand(d)' \cap ToSet(drained)' = {}
    BY <1>0, <1>1, <1>2, Zenon
  <1>7. ASSUME NEW d \in Consumers, NEW e \in Consumers, d # e PROVE Hand(d)' \cap Hand(e)' = {}
    <2>1. CASE d # c /\ e # c
      BY <1>1, <1>2, <1>7, <2>1, Zenon
    <2>2. CASE d = c
      BY <1>0, <1>1, <1>2, <1>7, <2>2
    <2>3. CASE e = c
      BY <1>0, <1>1, <1>2, <1>7, <2>3
    <2> QED
      BY <2>1, <2>2, <2>3, Zenon
  <1> QED
    BY <1>3, <1>4, <1>5, <1>6, <1>7, Zenon DEF OnceInv, B

(* ... or to a caller of pop() or flush().                                 *)
LEMMA TakenByCaller ==
  ASSUME OnceInv, Left \in Nat, NEW n \in Nat, Left' = Left + n,
         ToSet(drained)' = ToSet(drained) \cup (Left + 1 .. Left + n),
         \A d \in Consumers : Hand(d)' = Hand(d)
  PROVE  OnceInv'
  <1> DEFINE R == Left + 1 .. Left + n
             A == 1 .. Left
             B == (1 .. Left)'
             D == ToSet(drained)
  <1>0. B = A \cup R /\ A \cap R = {}
    BY RunFacts
  <1>1. ToSet(drained)' = D \cup R /\ \A d \in Consumers : Hand(d)' = Hand(d)
    OBVIOUS
  <1>2. /\ \A d \in Consumers : Hand(d) \subseteq A
        /\ D \subseteq A
        /\ \A x \in A : x \in D \/ \E d \in Consumers : x \in Hand(d)
        /\ \A d \in Consumers : Hand(d) \cap D = {}
        /\ \A d, e \in Consumers : d # e => Hand(d) \cap Hand(e) = {}
    BY Zenon DEF OnceInv
  <1> HIDE DEF R, A, B, D
  <1>3. (\A d \in Consumers : Hand(d)' \subseteq B) /\ ToSet(drained)' \subseteq B
    BY <1>0, <1>1, <1>2
  <1>4. ASSUME NEW x \in B PROVE x \in ToSet(drained)' \/ \E d \in Consumers : x \in Hand(d)'
    BY <1>0, <1>1, <1>2
  <1>5. \A d \in Consumers : Hand(d)' \cap ToSet(drained)' = {}
    BY <1>0, <1>1, <1>2
  <1>6. \A d, e \in Consumers : d # e => Hand(d)' \cap Hand(e)' = {}
    BY <1>1, <1>2, Zenon
  <1> QED
    BY <1>3, <1>4, <1>5, <1>6, Zenon DEF OnceInv, B

(* What a consumer has seen stays in order when a run is added to it.      *)
LEMMA OrderKept ==
  ASSUME NEW h \in Seq(Elements), NEW r \in Seq(Elements), NEW l \in Nat, NEW n \in Nat,
         \A i, j \in 1 .. Len(h) : i < j => h[i] < h[j],
         ToSet(h) \subseteq 1 .. l, Len(r) = n, \A i \in 1 .. n : r[i] = l + i
  PROVE  \A i, j \in 1 .. Len(h \o r) : i < j => (h \o r)[i] < (h \o r)[j]
  <1> DEFINE t == h \o r
  <1>1. /\ Len(t) = Len(h) + n /\ Len(h) \in Nat
        /\ \A i \in 1 .. Len(h) + n : t[i] = IF i <= Len(h) THEN h[i] ELSE r[i - Len(h)]
    <2>1. /\ Len(t) = Len(h) + Len(r)
          /\ \A i \in 1 .. Len(h) + Len(r) : t[i] = IF i <= Len(h) THEN h[i] ELSE r[i - Len(h)]
      BY ConcatProperties
    <2>2. Len(h) \in Nat
      OBVIOUS
    <2> HIDE DEF t
    <2> QED
      BY <2>1, <2>2
  <1>2. \A i \in 1 .. Len(h) : h[i] \in 1 .. l
    BY DEF ToSet
  <1> HIDE DEF t
  <1>3. ASSUME NEW i \in 1 .. Len(t), ~(i <= Len(h)) PROVE t[i] = l + (i - Len(h))
    <2>1. i - Len(h) \in 1 .. n /\ t[i] = r[i - Len(h)]
      BY <1>1, <1>3
    <2> QED
      BY <2>1
  <1>4. ASSUME NEW i \in 1 .. Len(t), i <= Len(h) PROVE t[i] = h[i] /\ i \in 1 .. Len(h)
    BY <1>1, <1>4
  <1>5. ASSUME NEW i \in 1 .. Len(t), NEW j \in 1 .. Len(t), i < j PROVE t[i] < t[j]
    <2>1. CASE i <= Len(h) /\ j <= Len(h)
      BY <1>4, <1>5, <2>1
    <2>2. CASE i <= Len(h) /\ ~(j <= Len(h))
      <3>1. t[i] \in 1 .. l
        BY <1>2, <1>4, <2>2
      <3>2. t[j] = l + (j - Len(h))
        BY <1>3, <2>2
      <3> QED
        BY <1>1, <2>2, <3>1, <3>2
    <2>3. CASE ~(i <= Len(h)) /\ ~(j <= Len(h))
      <3>1. t[i] = l + (i - Len(h)) /\ t[j] = l + (j - Len(h))
        BY <1>3, <2>3
      <3> QED
        BY <1>1, <1>5, <3>1
    <2> QED
      BY <1>1, <1>5, <2>1, <2>2, <2>3
  <1> QED
    BY <1>5 DEF t

HandsInv == BatchInv /\ OnceInv /\ HistoryIncreasing

(* Every element goes to exactly one taker, and a consumer sees what it    *)
(* gets in the order of the pushes, for any number of consumers and any    *)
(* mixture of consume_batch(), pop(), flush(), ExtractConsumed(), Finish() *)
(* and spurious wakeups.                                                   *)
THEOREM OnceInOrder == Spec => []CallsOnceInOrder
  <1>1. Init => HandsInv
    <2> SUFFICES ASSUME Init PROVE HandsInv
      OBVIOUS
    <2>1. \A c \in Consumers : /\ batch[c] = <<>> /\ consumed[c] = <<>> /\ extracted[c] = <<>>
      BY DEF Init
    <2>2. <<>> \o <<>> \o <<>> = <<>>
      OBVIOUS
    <2>3. \A c \in Consumers : History(c) = <<>>
      BY <2>1, <2>2 DEF History
    <2>4. ToSet(<<>>) = {} /\ Len(<<>>) = 0
      BY DEF ToSet
    <2>5. Left = 0 /\ drained = <<>>
      <3>1. pushed = 0 /\ Len(q) = 0 /\ drained = <<>>
        BY <2>4, Zenon DEF Init, QueueInit
      <3> QED
        BY <3>1 DEF Left
    <2>6. 1 .. 0 = {}
      OBVIOUS
    <2>7. OnceInv
      BY <2>3, <2>4, <2>5, <2>6 DEF OnceInv, Hand
    <2>8. HistoryIncreasing
      BY <2>3, <2>4 DEF HistoryIncreasing
    <2> QED
      BY <2>1, <2>7, <2>8 DEF HandsInv, BatchInv
  <1>2. TypeOK /\ TypeOK' /\ QueueIsSuffix /\ QueueIsSuffix' /\ HandsInv /\ [Next]_vars => HandsInv'
    <2> SUFFICES ASSUME TypeOK, TypeOK', QueueIsSuffix, QueueIsSuffix', HandsInv, [Next]_vars
                 PROVE  HandsInv'
      OBVIOUS
    <2>0. /\ q \in Seq(Elements) /\ pushed \in Nat /\ Len(q) \in Nat /\ Left \in Nat
          /\ BatchInv /\ OnceInv /\ HistoryIncreasing /\ pc \in [Consumers -> PCs]
          /\ batch \in [Consumers -> Seq(Elements)] /\ consumed \in [Consumers -> Seq(Elements)]
          /\ extracted \in [Consumers -> Seq(Elements)] /\ drained \in Seq(Elements)
      BY DEF TypeOK, QueueTypeOK, QueueIsSuffix, Left, HandsInv
    <2>1. ASSUME UNCHANGED <<Left, drained>>, BatchInv', \A c \in Consumers : History(c)' = History(c)
          PROVE  HandsInv'
      <3>1. \A c \in Consumers : Hand(c)' = Hand(c)
        BY <2>1 DEF Hand
      <3>2. Left' = Left /\ drained' = drained
        BY <2>1
      <3>a. OnceInv'
        <4>1. Left + 1 .. Left + 0 = {} /\ Left' = Left + 0
          BY <2>0, <3>2
        <4>2. ToSet(drained)' = ToSet(drained) \cup (Left + 1 .. Left + 0)
          BY <3>2, <4>1
        <4> QED
          BY <2>0, <3>1, <4>1, <4>2, TakenByCaller
      <3>3. HistoryIncreasing'
        BY <2>0, <2>1, Zenon DEF HistoryIncreasing
      <3> QED
        BY <2>1, <3>a, <3>3 DEF HandsInv
    <2>2. ASSUME UNCHANGED <<q, pushed, drained, batch, consumed, extracted>>, BatchInv'
          PROVE  HandsInv'
      BY <2>1, <2>2 DEF Left, History
    <2>3. ASSUME NEW k \in 0 .. Len(q), q' = SubSeq(q, k + 1, Len(q)), pushed' = pushed
          PROVE  /\ Left' = Left + k /\ k \in Nat
                 /\ SubSeq(q, 1, k) \in Seq(Elements) /\ Len(SubSeq(q, 1, k)) = k
                 /\ \A i \in 1 .. k : SubSeq(q, 1, k)[i] = Left + i
                 /\ ToSet(SubSeq(q, 1, k)) = Left + 1 .. Left + k
      <3>1. Len(q') = Len(q) - k /\ k \in Nat /\ k <= Len(q)
        BY <2>0, <2>3, CutFacts
      <3>2. Left' = Left + k
        <4>1. Left' = pushed - (Len(q) - k) /\ Left = pushed - Len(q)
          BY <2>3, <3>1, Zenon DEF Left
        <4> QED
          BY <2>0, <3>1, <4>1
      <3>3. /\ SubSeq(q, 1, k) \in Seq(Elements) /\ Len(SubSeq(q, 1, k)) = k
            /\ \A i \in 1 .. k : SubSeq(q, 1, k)[i] = q[i]
        BY <2>0, <3>1
      <3>4. \A i \in 1 .. k : q[i] = Left + i
        BY <2>0, <3>1 DEF QueueIsSuffix
      <3> DEFINE r == SubSeq(q, 1, k)
      <3>5. DOMAIN r = 1 .. k /\ \A i \in 1 .. k : r[i] = Left + i
        BY <3>3, <3>4
      <3> HIDE DEF r
      <3>6. ToSet(r) = Left + 1 .. Left + k
        <4>1. \A x \in Left + 1 .. Left + k : x - Left \in 1 .. k /\ r[x - Left] = x
          BY <2>0, <3>1, <3>5
        <4>2. \A i \in 1 .. k : r[i] \in Left + 1 .. Left + k
          BY <2>0, <3>1, <3>5
        <4>3. \A x \in Left + 1 .. Left + k : x \in ToSet(r)
          BY <3>5, <4>1, Zenon DEF ToSet
        <4>4. \A x \in ToSet(r) : x \in Left + 1 .. Left + k
          BY <3>5, <4>2, Zenon DEF ToSet
        <4> QED
          BY <4>3, <4>4, Zenon
      <3> QED
        BY <3>1, <3>2, <3>3, <3>4, <3>5, <3>6 DEF r
    <2>4. CASE Produce
      <3>1. /\ q' = Append(q, pushed + 1) /\ pushed' = pushed + 1
            /\ UNCHANGED <<pc, drained, batch, consumed, extracted>>
        BY <2>4 DEF Produce, Push, TryPush, consumerVars
      <3>2. Left' = Left
        BY <2>0, <3>1 DEF Left
      <3> QED
        BY <2>0, <2>1, <3>1, <3>2 DEF BatchInv, History
    <2>5. ASSUME NEW c \in Consumers, Take(c) PROVE HandsInv'
      <3>1. /\ pc[c] = "consume" /\ pc' = [pc EXCEPT ![c] = IF NextBatch = <<>> THEN "empty" ELSE "got"]
            /\ batch' = [batch EXCEPT ![c] = NextBatch]
            /\ q' = SubSeq(q, TakeSize + 1, Len(q))
            /\ UNCHANGED <<consumed, extracted, pushed, drained>>
        BY <2>5 DEF Take, Goto, ConsumeTake
      <3>2. TakeSize \in 0 .. Len(q) /\ NextBatch = SubSeq(q, 1, TakeSize)
        BY <2>0, TakeSizeFacts DEF NextBatch
      <3> DEFINE n == TakeSize
                 r == NextBatch
      <3>3. /\ Left' = Left + n /\ n \in Nat /\ r \in Seq(Elements) /\ Len(r) = n
            /\ \A i \in 1 .. n : r[i] = Left + i
            /\ ToSet(r) = Left + 1 .. Left + n
        BY <2>3, <3>1, <3>2
      <3> HIDE DEF n, r
      <3>4. BatchInv'
        BY <2>0, <3>1 DEF BatchInv
      <3>5. batch[c] = <<>>
        BY <2>0, <3>1 DEF BatchInv
      <3>6. History(c) \in Seq(Elements) /\ History(c)' = History(c) \o r
        <4>1. extracted[c] \o consumed[c] \in Seq(Elements)
          BY <2>0, ConcatProperties
        <4>2. History(c) = extracted[c] \o consumed[c]
          BY <3>5, <4>1, ConcatEmptySeq DEF History
        <4>3. batch'[c] = r
          BY <2>0, <3>1 DEF r
        <4> QED
          BY <3>1, <4>1, <4>2, <4>3 DEF History
      <3>7. \A d \in Consumers \ {c} : History(d)' = History(d)
        BY <2>0, <3>1 DEF History
      <3>8. Hand(c)' = Hand(c) \cup (Left + 1 .. Left + n)
        <4>1. ToSet(History(c) \o r) = ToSet(History(c)) \cup ToSet(r)
          <5> DEFINE h == History(c)
          <5>1. h \in Seq(Elements) /\ r \in Seq(Elements)
            BY <3>3, <3>6
          <5> HIDE DEF h
          <5>2. ToSet(h \o r) = ToSet(h) \cup ToSet(r)
            BY <5>1, ConcatHolds
          <5> QED
            BY <5>2 DEF h
        <4> QED
          BY <3>3, <3>6, <4>1, Zenon DEF Hand
      <3>9. OnceInv'
        <4>1. \A d \in Consumers \ {c} : Hand(d)' = Hand(d)
          BY <3>7 DEF Hand
        <4> QED
          BY <2>0, <3>1, <3>3, <3>8, <4>1, TakenByConsumer
      <3>10. HistoryIncreasing'
        <4>1. Hand(c) \subseteq 1 .. Left
          BY <2>0 DEF OnceInv
        <4>2. \A i, j \in 1 .. Len(History(c)) : i < j => History(c)[i] < History(c)[j]
          BY <2>0 DEF HistoryIncreasing
        <4>3. \A i, j \in 1 .. Len(History(c)') : i < j => History(c)'[i] < History(c)'[j]
          BY <2>0, <3>3, <3>6, <4>1, <4>2, OrderKept DEF Hand
        <4>4. ASSUME NEW d \in Consumers
              PROVE  \A i, j \in 1 .. Len(History(d)') : i < j => History(d)'[i] < History(d)'[j]
          <5>1. CASE d = c
            BY <4>3, <5>1
          <5>2. CASE d # c
            BY <2>0, <3>7, <5>2, Zenon DEF HistoryIncreasing
          <5> QED
            BY <5>1, <5>2
        <4> QED
          BY <4>4 DEF HistoryIncreasing
      <3> QED
        BY <3>4, <3>9, <3>10 DEF HandsInv
    <2>6. ASSUME NEW c \in Consumers, Store(c) PROVE HandsInv'
      <3>1. /\ pc' = [pc EXCEPT ![c] = "loop"] /\ batch' = [batch EXCEPT ![c] = <<>>]
            /\ consumed' = [consumed EXCEPT ![c] = consumed[c] \o batch[c]]
            /\ UNCHANGED <<q, extracted, pushed, drained>>
        BY <2>6 DEF Store, Goto, queueVars
      <3>2. BatchInv'
        BY <2>0, <3>1 DEF BatchInv
      <3>3. History(c)' = History(c)
        <4>1. extracted[c] \in Seq(Elements) /\ consumed[c] \in Seq(Elements) /\ batch[c] \in Seq(Elements)
          BY <2>0
        <4>2. History(c)' = (extracted[c] \o (consumed[c] \o batch[c])) \o <<>>
          BY <2>0, <3>1 DEF History
        <4>3. extracted[c] \o (consumed[c] \o batch[c]) = (extracted[c] \o consumed[c]) \o batch[c]
          <5>1. \A a, b, d \in Seq(Elements) : (a \o b) \o d = a \o (b \o d)
            BY ConcatAssociative
          <5> QED
            BY <4>1, <5>1, Zenon
        <4>4. extracted[c] \o (consumed[c] \o batch[c]) \in Seq(Elements)
          BY <4>1, ConcatProperties
        <4>5. (extracted[c] \o (consumed[c] \o batch[c])) \o <<>> = extracted[c] \o (consumed[c] \o batch[c])
          BY <4>4, ConcatEmptySeq
        <4> QED
          BY <4>2, <4>3, <4>5, Zenon DEF History
      <3>4. \A d \in Consumers \ {c} : History(d)' = History(d)
        BY <2>0, <3>1 DEF History
      <3> QED
        BY <2>1, <3>1, <3>2, <3>3, <3>4 DEF Left
    <2>7. ASSUME NEW c \in Consumers, ExtractConsumed(c) PROVE HandsInv'
      <3>1. /\ extracted' = [extracted EXCEPT ![c] = extracted[c] \o consumed[c]]
            /\ consumed' = [consumed EXCEPT ![c] = <<>>]
            /\ UNCHANGED <<q, pc, batch, pushed, drained>>
        BY <2>7 DEF ExtractConsumed, queueVars
      <3>2. BatchInv'
        BY <2>0, <3>1 DEF BatchInv
      <3>3. History(c)' = History(c)
        <4>1. extracted[c] \in Seq(Elements) /\ consumed[c] \in Seq(Elements)
          BY <2>0
        <4>2. History(c)' = ((extracted[c] \o consumed[c]) \o <<>>) \o batch[c]
          BY <2>0, <3>1 DEF History
        <4>3. extracted[c] \o consumed[c] \in Seq(Elements)
          BY <4>1, ConcatProperties
        <4>4. (extracted[c] \o consumed[c]) \o <<>> = extracted[c] \o consumed[c]
          BY <4>3, ConcatEmptySeq
        <4> QED
          BY <4>2, <4>4, Zenon DEF History
      <3>4. \A d \in Consumers \ {c} : History(d)' = History(d)
        BY <2>0, <3>1 DEF History
      <3> QED
        BY <2>1, <3>1, <3>2, <3>3, <3>4 DEF Left
    <2>8. CASE PopOne
      <3>1. /\ q # <<>> /\ q' = Tail(q) /\ drained' = Append(drained, Head(q))
            /\ UNCHANGED <<pushed, pc, batch, consumed, extracted>>
        BY <2>8 DEF PopOne, Pop, consumerVars
      <3>2. q' = SubSeq(q, 1 + 1, Len(q)) /\ 1 \in 0 .. Len(q)
        BY <2>0, <3>1
      <3>3. Left' = Left + 1
        BY <2>3, <3>1, <3>2
      <3>4. Head(q) = Left + 1 /\ Head(q) \in Elements
        BY <2>0, <3>1, <3>2 DEF QueueIsSuffix
      <3>5. ToSet(drained)' = ToSet(drained) \cup (Left + 1 .. Left + 1)
        <4> DEFINE r == <<Head(q)>>
        <4>1. drained' = drained \o r
          BY <2>0, <3>1, <3>4, AppendIsConcat
        <4>2. r \in Seq(Elements)
          BY <3>4
        <4>4. ToSet(r) = {Head(q)}
          BY DEF ToSet
        <4> HIDE DEF r
        <4>3. ToSet(drained') = ToSet(drained) \cup ToSet(r)
          BY <2>0, <4>1, <4>2, ConcatHolds
        <4>5. Left + 1 .. Left + 1 = {Left + 1}
          BY <2>0
        <4> QED
          BY <3>4, <4>3, <4>4, <4>5
      <3>6. \A d \in Consumers : History(d)' = History(d)
        BY <3>1 DEF History
      <3>7. OnceInv'
        BY <2>0, <3>3, <3>5, <3>6, TakenByCaller DEF Hand
      <3>8. HistoryIncreasing' /\ BatchInv'
        BY <2>0, <3>1, <3>6, Zenon DEF HistoryIncreasing, BatchInv
      <3> QED
        BY <3>7, <3>8 DEF HandsInv
    <2>9. CASE FlushQueue
      <3>1. /\ q' = SubSeq(q, FlushSize + 1, Len(q)) /\ drained' = drained \o SubSeq(q, 1, FlushSize)
            /\ UNCHANGED <<pushed, pc, batch, consumed, extracted>>
        BY <2>9 DEF FlushQueue, Flush, consumerVars
      <3>2. FlushSize \in 0 .. Len(q)
        BY <2>0, TakeSizeFacts
      <3> DEFINE n == FlushSize
                 r == SubSeq(q, 1, FlushSize)
      <3>3. /\ Left' = Left + n /\ n \in Nat /\ r \in Seq(Elements)
            /\ ToSet(r) = Left + 1 .. Left + n
        BY <2>3, <3>1, <3>2
      <3>4. drained' = drained \o r
        BY <3>1
      <3> HIDE DEF n, r
      <3>5. ToSet(drained') = ToSet(drained) \cup (Left + 1 .. Left + n)
        BY <2>0, <3>3, <3>4, ConcatHolds
      <3>6. \A d \in Consumers : History(d)' = History(d)
        BY <3>1 DEF History
      <3>7. OnceInv'
        BY <2>0, <3>3, <3>5, <3>6, TakenByCaller DEF Hand
      <3>8. HistoryIncreasing' /\ BatchInv'
        BY <2>0, <3>1, <3>6, Zenon DEF HistoryIncreasing, BatchInv
      <3> QED
        BY <3>7, <3>8 DEF HandsInv
    <2>10. ASSUME NEW c \in Consumers, TestDone(c) \/ Block(c) \/ TestFinished(c) PROVE HandsInv'
      <3>1. /\ UNCHANGED <<q, pushed, drained, batch, consumed, extracted>>
            /\ \A d \in Consumers : pc'[d] = pc[d] \/ (d = c /\ pc[c] # "got" /\ pc'[c] # "got")
        BY <2>0, <2>10 DEF TestDone, Block, TestFinished, Goto, ConsumeBlock, consumerVars, queueVars
      <3>2. BatchInv'
        BY <2>0, <3>1 DEF BatchInv
      <3> QED
        BY <2>2, <3>1, <3>2
    <2>11. ASSUME UNCHANGED <<q, pushed, drained, pc, batch, consumed, extracted>> PROVE HandsInv'
      BY <2>0, <2>2, <2>11 DEF BatchInv
    <2>12. ASSUME NEW c \in Consumers, Wakeup(c) \/ Finish(c) PROVE HandsInv'
      BY <2>11, <2>12 DEF Wakeup, SpuriousWakeup, Finish, consumerVars, queueVars
    <2>13. CASE TimeoutRound \/ TimeoutEnds \/ OwnerStep \/ Terminated \/ UNCHANGED vars
      BY <2>11, <2>13 DEF TimeoutRound, TimeoutConsume, TimeoutEnds, OwnerStep, FinishReturns,
           ProducersFinished, DestroyQueue, NotifyProducersFinished, QueueDestroyed,
           Terminated, queueVars, consumerVars, vars
    <2> QED
      BY <2>4, <2>5, <2>6, <2>7, <2>8, <2>9, <2>10, <2>12, <2>13 DEF Next, ConsumerStep
  <1>3. HandsInv => CallsOnceInOrder
    BY OnceIsExactlyOnce DEF HandsInv, CallsOnceInOrder
  <1> QED
    BY <1>1, <1>2, <1>3, TypeCorrect, Fifo, PTL DEF Spec
=============================================================================
