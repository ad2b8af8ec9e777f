------------------------------ MODULE SharedQueue ------------------------------
(***************************************************************************)
(* The monitor of util/thread/shared_queue.h: an STL queue, one mutex and  *)
(* one condition variable.  Every method of SharedQueue<T> holds mutex_    *)
(* from its first to its last access of the queue, so a method is one      *)
(* atomic step; the one exception is consume_batch(), whose cond_.wait     *)
(* releases the mutex in the middle and which is therefore two steps.      *)
(*                                                                         *)
(* The module defines the steps only.  The modules that EXTEND it          *)
(* (SharedQueueConsumers, ThreadPool, RateLimitedSharedQueue) say which    *)
(* threads take them and when.                                             *)
(***************************************************************************)
EXTENDS Naturals, Sequences, TLAPS

CONSTANTS
  Consumers,      \* the threads that call consume_batch()
  BatchSize,      \* batch_size_
  Capacity,       \* capacity_, looked at by try_push() only
  NotifyTimeout   \* TRUE iff notify_timeout_ > 0: the timeout thread exists

ASSUME SharedQueueAssumption ==
  /\ Consumers # {}
  /\ BatchSize \in Nat \ {0}
  /\ Capacity \in Nat
  /\ NotifyTimeout \in BOOLEAN

VARIABLES
  q,                   \* q_
  producers_finished,  \* producers_finished_
  cond,                \* where each consumer is with respect to cond_
  flushed              \* last_flush_ts_ was set since the timeout thread last looked

queueVars == <<q, producers_finished, cond, flushed>>

(* "outside": not blocked on cond_.  "waiting": asleep in cond_.wait.      *)
(* "notified": out of its sleep, not yet back inside the mutex.            *)
CondStates == {"outside", "waiting", "notified"}

QueueTypeOK(Elements) ==
  /\ q \in Seq(Elements)
  /\ producers_finished \in BOOLEAN
  /\ cond \in [Consumers -> CondStates]
  /\ flushed \in BOOLEAN

QueueInit ==
  /\ q = <<>>
  /\ producers_finished = FALSE
  /\ cond = [c \in Consumers |-> "outside"]
  /\ flushed = FALSE

Waiting == {c \in Consumers : cond[c] = "waiting"}

-----------------------------------------------------------------------------
(* The condition variable, std::condition_variable.                        *)

(* A notification reaches one sleeping thread, or nobody.                  *)
NotifyOne ==
  \/ Waiting = {} /\ UNCHANGED cond
  \/ \E c \in Waiting : cond' = [cond EXCEPT ![c] = "notified"]

NotifyAll ==
  cond' = [c \in Consumers |-> IF cond[c] = "waiting" THEN "notified" ELSE cond[c]]

(* The C++ standard lets a wait return although nobody notified.           *)
SpuriousWakeup(c) ==
  /\ cond[c] = "waiting"
  /\ cond' = [cond EXCEPT ![c] = "notified"]
  /\ UNCHANGED <<q, producers_finished, flushed>>

-----------------------------------------------------------------------------
(* push() and try_push().                                                  *)

(* A push puts the element at the wrong end of the queue.                  *)
Push_Front(t) ==
  /\ q' = <<t>> \o q
  /\ IF Len(q) + 1 >= BatchSize THEN NotifyOne ELSE UNCHANGED cond
  /\ UNCHANGED <<producers_finished, flushed>>

(* unlocked_push(): append, and wake one consumer once a batch is there.   *)
Push(t) ==
  /\ q' = Append(q, t)
  /\ IF Len(q) + 1 >= BatchSize THEN NotifyOne ELSE UNCHANGED cond
  /\ UNCHANGED <<producers_finished, flushed>>

TryPush(t) == Len(q) < Capacity /\ Push(t)

(* try_push() returns false and changes nothing.                           *)
TryPushFails == Len(q) >= Capacity

-----------------------------------------------------------------------------
(* consume_batch(): block unless a full batch is there or the producers    *)
(* are finished; then take what is there, up to one batch.  The wait is    *)
(* not in a loop: a consumer that comes out of it takes whatever it finds. *)

(* consume_batch() polls.                                                  *)
MustBlock_Never == FALSE

MustBlock == Len(q) < BatchSize /\ ~producers_finished

ConsumeBlock(c) ==
  /\ cond[c] = "outside"
  /\ MustBlock
  /\ cond' = [cond EXCEPT ![c] = "waiting"]
  /\ UNCHANGED <<q, producers_finished, flushed>>

CanTake(c) == cond[c] = "notified" \/ (cond[c] = "outside" /\ ~MustBlock)

(* A consumer is given all that is there.                                  *)
TakeSize_All == Len(q)

TakeSize == IF Len(q) < BatchSize THEN Len(q) ELSE BatchSize

NextBatch == SubSeq(q, 1, TakeSize)

ConsumeTake(c) ==
  /\ CanTake(c)
  /\ q' = SubSeq(q, TakeSize + 1, Len(q))
  /\ cond' = [cond EXCEPT ![c] = "outside"]
  /\ flushed' = NotifyTimeout
  /\ UNCHANGED producers_finished

-----------------------------------------------------------------------------
(* pop() and flush(), called by a thread that is not a consumer.           *)

(* pop() of an empty queue is undefined, pop() does not test: it is the    *)
(* caller's part to know that there is an element (the only caller is      *)
(* shared_queue_test.cc, which has pushed one).                            *)
Pop ==
  /\ q # <<>>
  /\ q' = Tail(q)
  /\ UNCHANGED <<producers_finished, cond, flushed>>

(* The loop of flush() compares its counter with the size of the queue it  *)
(* is emptying, so the two meet half way: of n elements it removes the     *)
(* first (n + 1) \div 2.                                                   *)
FlushSize == (Len(q) + 1) \div 2

Flush ==
  /\ q' = SubSeq(q, FlushSize + 1, Len(q))
  /\ flushed' = NotifyTimeout
  /\ UNCHANGED <<producers_finished, cond>>

-----------------------------------------------------------------------------
(* notify_producers_finished() and the timeout thread.                     *)

NotifyProducersFinished ==
  /\ producers_finished' = TRUE
  /\ NotifyAll
  /\ UNCHANGED <<q, flushed>>

(* One round of timeout_consume() after its sleep.  If no batch was taken  *)
(* during the sleep the last flush is at least notify_timeout_ old; if one *)
(* was taken it may be either.                                             *)
TimeoutConsume ==
  /\ NotifyTimeout
  /\ \/ producers_finished /\ NotifyAll
     \/ ~producers_finished /\ q # <<>> /\ NotifyOne
     \/ ~producers_finished /\ (q = <<>> \/ flushed) /\ UNCHANGED cond
  /\ flushed' = FALSE
  /\ UNCHANGED <<q, producers_finished>>

-----------------------------------------------------------------------------
(* Lemmas about the steps, for the proofs of the modules that EXTEND this  *)
(* one.                                                                    *)

(* Cutting a prefix off a sequence leaves its suffix: what NextBatch, Pop  *)
(* and Flush do to the queue.                                              *)
LEMMA CutFacts ==
  ASSUME NEW S, NEW s \in Seq(S), NEW k \in 0 .. Len(s)
  PROVE  /\ SubSeq(s, 1, k) \in Seq(S)
         /\ Len(SubSeq(s, 1, k)) = k
         /\ \A i \in 1 .. k : SubSeq(s, 1, k)[i] = s[i]
         /\ SubSeq(s, k + 1, Len(s)) \in Seq(S)
         /\ Len(SubSeq(s, k + 1, Len(s))) = Len(s) - k
         /\ \A i \in 1 .. (Len(s) - k) : SubSeq(s, k + 1, Len(s))[i] = s[k + i]
  OBVIOUS

(* A batch without its first element.                                      *)
LEMMA TailFacts ==
  ASSUME NEW S, NEW s \in Seq(S), s # <<>>
  PROVE  /\ Head(s) \in S /\ Head(s) = s[1]
         /\ Len(s) \in Nat /\ Len(s) >= 1
         /\ Tail(s) \in Seq(S) /\ Len(Tail(s)) = Len(s) - 1
         /\ \A i \in 1 .. (Len(s) - 1) : Tail(s)[i] = s[i + 1]
         /\ Tail(s) = <<>> <=> ~(Len(s) > 1)
  <1>1. /\ Head(s) \in S /\ Head(s) = s[1]
        /\ Len(s) \in Nat /\ Len(s) >= 1
        /\ Tail(s) \in Seq(S) /\ Len(Tail(s)) = Len(s) - 1
        /\ \A i \in 1 .. (Len(s) - 1) : Tail(s)[i] = s[i + 1]
    OBVIOUS
  <1>2. \A r \in Seq(S) : r = <<>> <=> Len(r) = 0
    OBVIOUS
  <1>3. Tail(s) = <<>> <=> Len(Tail(s)) = 0
    BY <1>1, <1>2, Zenon
  <1>4. Len(Tail(s)) = 0 <=> ~(Len(s) > 1)
    BY <1>1
  <1>5. Tail(s) = <<>> <=> ~(Len(s) > 1)
    BY <1>3, <1>4, Zenon
  <1> QED
    BY <1>1, <1>5, Zenon

(* What a push leaves.                                                     *)
LEMMA AppendFacts ==
  ASSUME NEW S, NEW s \in Seq(S), NEW e \in S
  PROVE  /\ Append(s, e) \in Seq(S) /\ Append(s, e) # <<>>
         /\ Len(Append(s, e)) = Len(s) + 1 /\ Len(s) \in Nat
         /\ \A i \in 1 .. Len(s) : Append(s, e)[i] = s[i]
         /\ Append(s, e)[Len(s) + 1] = e
  <1>1. /\ Append(s, e) \in Seq(S) /\ Len(Append(s, e)) = Len(s) + 1 /\ Len(s) \in Nat
        /\ \A i \in 1 .. Len(s) : Append(s, e)[i] = s[i]
        /\ Append(s, e)[Len(s) + 1] = e
    OBVIOUS
  <1>2. \A r \in Seq(S) : r = <<>> => Len(r) = 0
    OBVIOUS
  <1>3. Len(Append(s, e)) # 0
    BY <1>1
  <1>4. Append(s, e) # <<>>
    BY <1>1, <1>2, <1>3, Zenon
  <1> QED
    BY <1>1, <1>4, Zenon

(* A batch is empty only if the queue is.                                  *)
LEMMA TakeSizeFacts ==
  ASSUME NEW S, q \in Seq(S)
  PROVE  /\ TakeSize \in 0 .. Len(q)
         /\ TakeSize = 0 <=> q = <<>>
         /\ NextBatch \in Seq(S)
         /\ Len(NextBatch) = TakeSize
         /\ NextBatch = <<>> <=> q = <<>>
         /\ SubSeq(q, TakeSize + 1, Len(q)) \in Seq(S)
         /\ Len(SubSeq(q, TakeSize + 1, Len(q))) = Len(q) - TakeSize
         /\ FlushSize \in 0 .. Len(q)
         /\ SubSeq(q, 1, FlushSize) \in Seq(S)
         /\ SubSeq(q, FlushSize + 1, Len(q)) \in Seq(S)
  <1> USE SharedQueueAssumption DEF SharedQueueAssumption
  <1>1. Len(q) \in Nat /\ (q = <<>> <=> Len(q) = 0)
    OBVIOUS
  <1>2. TakeSize \in 0 .. Len(q) /\ (TakeSize = 0 <=> q = <<>>)
    BY <1>1 DEF TakeSize
  <1>3. FlushSize \in 0 .. Len(q)
    BY <1>1 DEF FlushSize
  <1>4. NextBatch \in Seq(S) /\ Len(NextBatch) = TakeSize
    BY <1>2, CutFacts DEF NextBatch
  <1>5. NextBatch = <<>> <=> q = <<>>
    BY <1>1, <1>2, <1>4
  <1>6. /\ SubSeq(q, TakeSize + 1, Len(q)) \in Seq(S)
        /\ Len(SubSeq(q, TakeSize + 1, Len(q))) = Len(q) - TakeSize
    BY <1>2, CutFacts
  <1>7. SubSeq(q, 1, FlushSize) \in Seq(S) /\ SubSeq(q, FlushSize + 1, Len(q)) \in Seq(S)
    BY <1>3, CutFacts
  <1> QED
    BY <1>2, <1>3, <1>4, <1>5, <1>6, <1>7

(* A notification changes only which consumers are notified.               *)
LEMMA NotifyFacts ==
  ASSUME cond \in [Consumers -> CondStates], NotifyOne \/ NotifyAll
  PROVE  /\ cond' \in [Consumers -> CondStates]
         /\ \A c \in Consumers : cond'[c] = "outside" <=> cond[c] = "outside"
  BY DEF NotifyOne, NotifyAll, Waiting, CondStates

=============================================================================
