----------------------------- MODULE MCRequests -----------------------------
(***************************************************************************)
(* What a request meets on its way, on small instances of which one runs   *)
(* in a behaviour: a queue that three consumers drain until it is          *)
(* destroyed, the same queue among threads that also pop, flush, extract   *)
(* and force a consumer to finish, with spurious wakeups, a network client *)
(* with its peer, the writer of the recorded requests, and the filters of  *)
(* the logs of them.                                                       *)
(***************************************************************************)
EXTENDS SharedQueueConsumers, TLC

LogLine(e, bad, last, newline) ==
  [elem |-> e, bad |-> bad, last |-> last, newline |-> newline]
LogDays == <<[kind |-> "dir", files |-> <<"a", "b">>], [kind |-> "none"],
             [kind |-> "file", files |-> <<"c">>], [kind |-> "file", files |-> <<"x">>]>>
LogLines ==
  [a |-> <<LogLine("e1", FALSE, FALSE, TRUE), LogLine("e1", FALSE, TRUE, TRUE),
           LogLine("e2", FALSE, TRUE, FALSE)>>,
   b |-> <<LogLine("e2", FALSE, TRUE, TRUE), LogLine("e1", TRUE, TRUE, TRUE),
           LogLine("e1", FALSE, TRUE, TRUE)>>,
   c |-> <<LogLine("e1", TRUE, TRUE, TRUE), LogLine("e2", FALSE, TRUE, FALSE)>>,
   x |-> <<>>]
LogElements == [e1 |-> [office |-> TRUE, sharded |-> TRUE, shard |-> "s1"],
                e2 |-> [office |-> FALSE, sharded |-> TRUE, shard |-> "s1"]]

VARIABLES which, c_q, c_producers_finished, c_cond, c_flushed, c_pc, c_batch,
          c_consumed, c_extracted, c_done, c_pushed, c_drained, c_owner,
          c_timeout, n_cl, n_net, n_peer, s_w, s_batch, s_hist, f_main, f_job,
          f_pool, f_worker, f_writers_map, f_opened, f_output   \* which: the component that runs

Called == INSTANCE SharedQueueConsumers WITH
  q <- c_q, producers_finished <- c_producers_finished, cond <- c_cond,
  flushed <- c_flushed, pc <- c_pc, batch <- c_batch, consumed <- c_consumed,
  extracted <- c_extracted, done <- c_done, pushed <- c_pushed,
  drained <- c_drained, owner <- c_owner, timeout <- c_timeout,
  Consumers <- {"c1", "c2"}, BatchSize <- 2, Capacity <- 2,
  NotifyTimeout <- TRUE, MaxElements <- 3,
  Calls <- {"pop", "flush", "finish", "extract"}, Spurious <- TRUE

Net == INSTANCE NetClient WITH
  cl <- n_cl, net <- n_net, peer <- n_peer, Kinds <- {"rpc", "http", "https"},
  MaxCalls <- 3, MaxSockets <- 3, Pieces <- 2, MaxReply <- 2, Trials <- 2

Writer == INSTANCE SharedWriter WITH
  w <- s_w, batch <- s_batch, hist <- s_hist, MaxEntries <- 4, MaxResets <- 2

Filter == INSTANCE LogFiltering WITH
  main <- f_main, job <- f_job, pool <- f_pool, worker <- f_worker,
  writers_map <- f_writers_map, opened <- f_opened, output <- f_output,
  Days <- LogDays, Lines <- LogLines, Compressed <- {"a", "b"},
  Unreadable <- {"x"}, Elements <- LogElements, MaxAsync <- 1,
  Workers <- {1, 2}

DrainVars == <<q, producers_finished, cond, flushed, pc, batch, consumed,
               extracted, done, pushed, drained, owner, timeout>>
CalledVars == <<c_q, c_producers_finished, c_cond, c_flushed, c_pc, c_batch,
                c_consumed, c_extracted, c_done, c_pushed, c_drained, c_owner,
                c_timeout>>
NetVars == <<n_cl, n_net, n_peer>>
WriterVars == <<s_w, s_batch, s_hist>>
FilterVars == <<f_main, f_job, f_pool, f_worker, f_writers_map, f_opened,
                f_output>>

allVars == <<which, DrainVars, CalledVars, NetVars, WriterVars, FilterVars>>

AllInit ==
  /\ which \in {"drain", "calls", "client", "writer", "filter"}
  /\ Init
  /\ Called!Init
  /\ Net!Init
  /\ which # "client" => n_cl.kind = "rpc"
  /\ Writer!Init
  /\ IF which = "filter" THEN Filter!Init
     ELSE f_main = 0 /\ f_job = 0 /\ f_pool = 0 /\ f_worker = 0 /\ f_writers_map = 0 /\ f_opened = 0 /\ f_output = 0

AllNext ==
  /\ UNCHANGED which
  /\ \/ /\ which = "drain" /\ Next
        /\ UNCHANGED <<CalledVars, NetVars, WriterVars, FilterVars>>
     \/ /\ which = "calls" /\ Called!Next
        /\ UNCHANGED <<DrainVars, NetVars, WriterVars, FilterVars>>
     \/ /\ which = "client" /\ (Net!Next \/ UNCHANGED NetVars)
        /\ UNCHANGED <<DrainVars, CalledVars, WriterVars, FilterVars>>
     \/ /\ which = "writer" /\ (Writer!Next \/ UNCHANGED WriterVars)
        /\ UNCHANGED <<DrainVars, CalledVars, NetVars, FilterVars>>
     \/ /\ which = "filter" /\ (Filter!Next \/ UNCHANGED FilterVars)
        /\ UNCHANGED <<DrainVars, CalledVars, NetVars, WriterVars>>

\* The fairness of each component, when it is the one that runs.
AllFairness ==
  /\ \A c \in Consumers : WF_DrainVars(which = "drain" /\ ConsumerStep(c))
  /\ WF_DrainVars(which = "drain" /\ TimeoutRound)
  /\ WF_DrainVars(which = "drain" /\ TimeoutEnds)
  /\ WF_DrainVars(which = "drain" /\ FinishReturns)
  /\ WF_DrainVars(which = "drain" /\ DestroyQueue)
  /\ WF_DrainVars(which = "drain" /\ QueueDestroyed)
  /\ WF_NetVars(which = "client" /\ Net!Client)
  /\ WF_WriterVars(which = "writer" /\ (Writer!Flush))
  /\ WF_WriterVars(which = "writer" /\ Writer!ResetOpen)
  /\ WF_FilterVars(which = "filter" /\ Filter!ReadLogs)
  /\ \A d \in DOMAIN LogDays : WF_FilterVars(which = "filter" /\ Filter!ReadDirectory(d))
  /\ \A j \in Filter!DayJobs \cup Filter!FileJobs : WF_FilterVars(which = "filter" /\ Filter!ReadStep(j))
  /\ \A w \in {1, 2} : WF_FilterVars(which = "filter" /\ Filter!Work(w))

AllSpec == AllInit /\ [][AllNext]_allVars /\ AllFairness

-----------------------------------------------------------------------------
\* Elements leave the queue in order, once, with all kinds of calls and
\* spurious wakeups; partial batches are consumed once the timeout has passed,
\* all consumers end after the producers have, and the queue outlives the
\* thread that times its batches (shared_queue.h).
QueueEnds ==
  [](NoUseAfterDestroy /\ Called!QueueIsSuffix /\ Called!CallsOnceInOrder)
    /\ ProducersFinishedEndsAll /\ PartialBatchConsumed

\* A call that succeeds returns the reply to its own request, whole and in
\* order, unless an earlier call on the connection had timed out or the peer
\* closed it within an HTTP reply; the socket of a connection that was made is
\* closed before the next one; and a call ends, whatever the peer does, but for
\* the BIO_read() of SSLClient (netclient.cc).
NetCallsAnswered ==
  [](Net!ReplyMatches /\ Net!WholeReply /\ Net!SocketsClosed) /\
    Net!CallsEnd

\* An entry reaches the file, once and in order, unless a Reset() comes after
\* it; the process can abort, but only if a Reset() comes while entries are
\* being written, and then only those entries may be in the new file as well
\* (shared_writer.cc).
WriterEntriesReachFile == []Writer!EntriesConserved /\ Writer!EntriesReachFile

\* Each element of the logs that is read is in the file of its day and shard
\* once when the filters end, which they do though threads wait for threads; no
\* more calls run than the bound allows, and ReadLogs() returns what was
\* counted (log_reader.cc, log_manager.cc, log_writer_manager.cc).
LogsFiltered ==
  [](which = "filter" => Filter!FilteredOnce /\ Filter!CallsBounded /\
    Filter!Counted) /\ <>(which = "filter" => Filter!Ended)
=============================================================================
