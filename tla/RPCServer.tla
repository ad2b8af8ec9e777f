------------------------------ MODULE RPCServer ------------------------------
(***************************************************************************)
(* NetServer with the requests of an RPCServer: the loop that accepts      *)
(* connections, one thread (or one function of a thread pool) for each of  *)
(* them, the tracking of method calls and the shutdown, by a request or by *)
(* SIGTERM.  Bytes are abstracted to pieces: a request is complete when    *)
(* Pieces of it have been read.  The content of a request is abstracted to *)
(* the kind of its handler.                                                *)
(***************************************************************************)
EXTENDS Integers, FiniteSetsExt, FiniteSetTheorems, TLAPS

CONSTANTS
  Clients,         \* one connection each
  MaxConnections,  \* bound of max_connections_
  MaxPieces,       \* bound: pieces that the clients send
  Pieces,          \* pieces that make a request
  MaxSize,         \* max_request_size_, in pieces
  Looks,           \* get_timeout(): seconds that StartServer() waits at the end
  OtherThreads,    \* threads of the process besides main and the connections
  PoolSize         \* gFlag_server_thread_pool_size

ASSUME RPCServerAssumption ==
  /\ IsFiniteSet(Clients)
  /\ MaxConnections \in Nat \ {0} /\ Pieces \in Nat \ {0}
  /\ MaxPieces \in Nat /\ MaxSize \in Nat /\ Looks \in Nat
  /\ OtherThreads \in Nat /\ PoolSize \in Nat \ {0}

VARIABLES
  srv,     \* the members of the server, its flags and the signal handler
  main,    \* StartServer(): its place and the seconds left of the countdown
  conn,    \* for each client: its end, the bytes in between, NewConnection()
  usage    \* mutex_stat_: max_id_, in_progress_ (by client), access_count_

vars == <<srv, main, conn, usage>>

\* Places of NewConnection() that hold a thread; a request is pending in Pending.
Pending == {"handle", "method", "closing", "write", "written"}
Threaded == Pending \cup {"select", "close"}
Live == Threaded \cup {"queued"}
Ended == {"exiting", "aborted"}

At(S) == {c \in Clients : conn[c].at \in S}

\* What the variables hold.
Servers ==
  [pooled : BOOLEAN, socket : BOOLEAN, prepare_shutdown : BOOLEAN, shutdown_loop : BOOLEAN,
   max_connections : 1..MaxConnections, num_connections : 0..MaxConnections,
   num_pending_requests : 0..Cardinality(Clients), sigterm : {"none", "closing", "ignored"}]
Mains ==
  [at : {"select", "accept", "wait", "sleep", "returned"} \cup Ended, left : 0..Looks]
Connections ==
  [at : {"away", "knocking", "done"} \cup Live, active : BOOLEAN, fin : BOOLEAN,
   sent : Nat, wire : Nat, request : 0..MaxSize]
Usages == [max_id : Nat, in_progress : [Clients -> Nat], count : Nat]

\* No variable leaves its range; the counters are never negative.
TypeOK ==
  /\ srv \in Servers
  /\ main \in Mains
  /\ conn \in [Clients -> Connections]
  /\ usage \in Usages

Init ==
  /\ srv \in [pooled : BOOLEAN, socket : {TRUE},
              prepare_shutdown : {FALSE}, shutdown_loop : {FALSE},
              max_connections : 1..MaxConnections,
              num_connections : {0}, num_pending_requests : {0}, sigterm : {"none"}]
  /\ main = [at |-> "select", left |-> Looks]
  /\ conn = [c \in Clients |-> [at |-> "away", active |-> TRUE, fin |-> FALSE,
                                sent |-> 0, wire |-> 0, request |-> 0]]
  /\ usage = [max_id |-> 0, in_progress |-> [c \in Clients |-> 0], count |-> 0]

\* A step of the thread of c from one place to another, while the process lives.
Go(c, from, to) ==
  /\ main.at \notin Ended /\ conn[c].at = from
  /\ conn' = [conn EXCEPT ![c].at = to]

-----------------------------------------------------------------------------
\* The clients: a connection is queued by the kernel while the server listens;
\* pieces of requests may be sent before the reply to the last one; the end may
\* be closed in the middle of a request.
Connect(c) == srv.socket /\ Go(c, "away", "knocking") /\ UNCHANGED <<srv, main, usage>>

AllSent == MapThenSumSet(LAMBDA d : conn[d].sent, Clients)

Send(c) ==
  /\ conn[c].at \in Live \cup {"knocking"} /\ ~conn[c].fin
  /\ AllSent < MaxPieces
  /\ conn' = [conn EXCEPT ![c].sent = @ + 1, ![c].wire = @ + 1]
  /\ UNCHANGED <<srv, main, usage>>

ClientCloses(c) ==
  /\ conn[c].at \in Live /\ ~conn[c].fin
  /\ conn' = [conn EXCEPT ![c].fin = TRUE]
  /\ UNCHANGED <<srv, main, usage>>

-----------------------------------------------------------------------------
\* StartServer().

\* A round of the accept loop: select() reports the socket or times out, and
\* the flag is looked at before and after it.  A select() that begins when the
\* main socket has just been closed is given the descriptor -1; that it returns,
\* as for a bad descriptor, is assumed: the flag, set before, ends the loop.
Select ==
  /\ main.at = "select"
  /\ \/ /\ srv.prepare_shutdown \/ ~srv.socket
        /\ main' = [main EXCEPT !.at = "wait"]
     \/ /\ ~srv.prepare_shutdown /\ srv.socket /\ At({"knocking"}) # {}
        /\ main' = [main EXCEPT !.at = "accept"]
  /\ UNCHANGED <<srv, conn, usage>>

\* Mutant of Decline: one connection too many.
Decline_Late == srv.num_connections > srv.max_connections \/ srv.prepare_shutdown

Decline == srv.num_connections >= srv.max_connections \/ srv.prepare_shutdown

\* The connection is accepted: declined, or counted and given a thread.  On a
\* socket that another thread has closed meanwhile accept() fails, and the
\* assertion on its result ends the process.
Accept ==
  /\ main.at = "accept"
  /\ \/ /\ ~srv.socket
        /\ main' = [main EXCEPT !.at = "aborted"]
        /\ UNCHANGED <<srv, conn>>
     \/ /\ srv.socket
        /\ main' = [main EXCEPT !.at = "select"]
        /\ \E c \in At({"knocking"}) :
             \/ Decline /\ Go(c, "knocking", "done") /\ UNCHANGED srv
             \/ /\ ~Decline
                /\ Go(c, "knocking", IF srv.pooled THEN "queued" ELSE "select")
                /\ srv' = [srv EXCEPT !.num_connections = @ + 1]
  /\ UNCHANGED usage

\* A worker of the pool takes the function of a connection.
PoolStarts(c) ==
  /\ Cardinality(At(Threaded)) < PoolSize
  /\ Go(c, "queued", "select")
  /\ UNCHANGED <<srv, main, usage>>

\* After the loop: the pool is waited for and then destroyed, which joins its
\* workers; StartServer() returns (return_on_shutdown_, read nowhere else) or
\* goes on to the countdown.
LeaveLoop ==
  /\ main.at = "wait"
  /\ srv.pooled => At(Live) = {}
  /\ \E to \in {"returned", "sleep"} : main' = [main EXCEPT !.at = to]
  /\ UNCHANGED <<srv, conn, usage>>

num_threads == 1 + OtherThreads + Cardinality(At(Threaded))

\* Mutant of MayStop: the number of connection threads is compared.
MayStop_Threads == srv.num_pending_requests <= 0 \/ num_threads <= 2 + OtherThreads

MayStop == srv.num_pending_requests <= 0 \/ num_threads <= 2

\* Mutant of Countdown: the server waits until it is idle.
Countdown_Unlimited ==
  /\ main.at = "sleep" /\ MayStop
  /\ main' = [main EXCEPT !.at = "exiting"]
  /\ UNCHANGED <<srv, conn, usage>>

\* A second of the countdown: an idle server, or the end of the countdown,
\* leads to ShutdownSystem().
Countdown ==
  /\ main.at = "sleep"
  /\ main' = IF main.left = 0 \/ MayStop THEN [main EXCEPT !.at = "exiting"]
             ELSE [main EXCEPT !.left = @ - 1]
  /\ UNCHANGED <<srv, conn, usage>>

\* SIGTERM: the flags, then the socket; further signals are ignored.
Sigterm ==
  /\ main.at \notin Ended
  /\ \/ /\ srv.sigterm = "none"
        /\ srv' = [srv EXCEPT !.prepare_shutdown = TRUE, !.shutdown_loop = FALSE,
                              !.sigterm = "closing"]
     \/ /\ srv.sigterm = "closing"
        /\ srv' = [srv EXCEPT !.socket = FALSE, !.sigterm = "ignored"]
  /\ UNCHANGED <<main, conn, usage>>

-----------------------------------------------------------------------------
\* NewConnection().

\* IncrementPendingRequestCounter(), for a thread that goes on to its request.
IncrementPending(to) ==
  srv' = [srv EXCEPT !.num_pending_requests = IF to = "handle" THEN @ + 1 ELSE @]

\* select() reports data and some of it is read: too much ends the connection,
\* a complete request is counted as pending and processed, else the round ends.
Read(c) ==
  /\ main.at \notin Ended /\ conn[c].at = "select"
  /\ \E n \in 1..conn[c].wire :
       LET size == conn[c].request + n
           to == IF size > MaxSize THEN "close" ELSE IF size >= Pieces THEN "handle"
                 ELSE IF srv.prepare_shutdown THEN "close" ELSE "select"
       IN  /\ conn' = [conn EXCEPT ![c].wire = @ - n, ![c].at = to,
                         ![c].request = IF size > MaxSize THEN MaxSize ELSE size]
           /\ IncrementPending(to)
  /\ UNCHANGED <<main, usage>>

\* The client has closed: what was read is processed, as the last request.
ReadEnd(c) ==
  /\ main.at \notin Ended /\ conn[c].at = "select"
  /\ conn[c].wire = 0 /\ conn[c].fin
  /\ LET to == IF conn[c].request > 0 THEN "handle" ELSE "close"
     IN  /\ conn' = [conn EXCEPT ![c].at = to, ![c].active = FALSE]
         /\ IncrementPending(to)
  /\ UNCHANGED <<main, usage>>

\* select() times out, or has failed more than five times.
SelectGivesUp(c) == Go(c, "select", "close") /\ UNCHANGED <<srv, main, usage>>

\* ProcessRequest(): a page, a file, an error reply or an incomplete request.
ProcessPage(c) == Go(c, "handle", "write") /\ UNCHANGED <<srv, main, usage>>

\* ProcessRequest() of /_shutdown and /_shutdownloop: the flags, then the socket.
ProcessShutdown(c) ==
  /\ conn[c].request >= Pieces
  /\ \/ /\ Go(c, "handle", "closing")
        /\ \E loop \in BOOLEAN :
             srv' = [srv EXCEPT !.prepare_shutdown = TRUE, !.shutdown_loop = loop]
     \/ /\ Go(c, "closing", "write")
        /\ srv' = [srv EXCEPT !.socket = FALSE]
  /\ UNCHANGED <<main, usage>>

TrackUsage_Begin(c) ==
  usage' = [usage EXCEPT !.max_id = @ + 1, !.in_progress[c] = usage.max_id + 1]

\* ProcessRequest() or ProcessRPCRequest() of a registered method begins.
ProcessMethod(c) ==
  /\ conn[c].request >= Pieces
  /\ Go(c, "handle", "method")
  /\ TrackUsage_Begin(c)
  /\ UNCHANGED <<srv, main>>

\* The handler returns, and TrackUsage_End() looks up the id, removes the call
\* and counts it.
MethodReturns(c) ==
  /\ Go(c, "method", "write")
  /\ usage' = [usage EXCEPT !.count = @ + 1,
                            !.in_progress = [d \in Clients |->
                               IF usage.in_progress[d] = usage.in_progress[c] THEN 0
                               ELSE usage.in_progress[d]]]
  /\ UNCHANGED <<srv, main>>

\* WriteMessage() of the reply.  The write() on the blocking socket returns only
\* when the peer reads or the connection breaks; that it does is assumed.
WriteReply(c) == Go(c, "write", "written") /\ UNCHANGED <<srv, main, usage>>

\* DecrementPendingRequestCounter(), the request leaves the buffer, and the
\* round ends: the reply may have asked for the end of the connection.
EndRequest(c) ==
  /\ srv' = [srv EXCEPT !.num_pending_requests = @ - 1]
  /\ \E keep_alive \in BOOLEAN :
       LET to == IF keep_alive /\ conn[c].active /\ ~srv.prepare_shutdown
                 THEN "select" ELSE "close" IN
         /\ main.at \notin Ended /\ conn[c].at = "written"
         /\ conn' = [conn EXCEPT ![c].at = to,
                       ![c].request = IF conn[c].active THEN @ - Pieces ELSE 0]
  /\ UNCHANGED <<main, usage>>

\* close(), OnCloseConnection(), DecrementConnectionCounter().
EndConnection(c) ==
  /\ Go(c, "close", "done")
  /\ srv' = [srv EXCEPT !.num_connections = @ - 1]
  /\ UNCHANGED <<main, usage>>

-----------------------------------------------------------------------------
MainStep == Select \/ Accept \/ LeaveLoop \/ Countdown

ConnStep(c) ==
  \/ PoolStarts(c) \/ Read(c) \/ ReadEnd(c) \/ SelectGivesUp(c)
  \/ ProcessPage(c) \/ ProcessShutdown(c) \/ ProcessMethod(c)
  \/ WriteReply(c) \/ EndRequest(c) \/ EndConnection(c)

\* The process has ended, or StartServer() has returned and all is quiet.
Quiet == (main.at \in Ended \cup {"returned"}) /\ UNCHANGED vars

Next ==
  \/ MainStep \/ Sigterm \/ Quiet
  \/ \E c \in Clients : \/ Connect(c) \/ Send(c) \/ ClientCloses(c)
                        \/ ConnStep(c) \/ MethodReturns(c)

\* Every thread is scheduled; a handler returns for certain only where the
\* server depends on it, in the functions that the pool joins.
Fairness ==
  /\ WF_vars(MainStep) /\ WF_vars(srv.sigterm = "closing" /\ Sigterm)
  /\ \A c \in Clients : /\ WF_vars(ConnStep(c))
                        /\ WF_vars(srv.pooled /\ MethodReturns(c))

Safety == Init /\ [][Next]_vars

Spec == Safety /\ Fairness

-----------------------------------------------------------------------------
\* The counter that only the accept loop increments and only the connections
\* decrement is exact, so that no more than max_connections_ are open
\* (netserver.cc:158-169, :325).
ConnectionsCounted ==
  /\ srv.num_connections = Cardinality(At(Live))
  /\ srv.num_connections <= srv.max_connections

\* Calls in progress have different ids, every call is in progress or counted,
\* and only a running handler is in progress: the assertion of TrackUsage_End()
\* holds (rpcserver.cc:606-650).
UsageConserved ==
  LET pending == {c \in Clients : usage.in_progress[c] # 0} IN
  /\ usage.max_id = Cardinality(pending) + usage.count
  /\ pending = At({"method"})
  /\ \A c, d \in pending : usage.in_progress[c] = usage.in_progress[d] => c = d

\* num_connections_ counts the connections that are open, and the table of
\* pending methods holds each call that has begun and not ended, once
\* (netserver.cc, rpcserver.cc).
ServerCounts == TypeOK /\ ConnectionsCounted /\ UsageConserved

\* "Allow sometime for detached threads to finish": the countdown ends early
\* only when every request that has begun has its reply (netserver.cc:203-218).
GracefulShutdown ==
  [][main.at = "sleep" /\ main'.at = "exiting" /\ main.left > 0
     => At(Pending \ {"written"}) = {}]_vars

\* A shutdown that was asked for comes to its end, even if a handler of a
\* detached thread never returns (netserver.cc:122-220).
ShutdownEnds == srv.prepare_shutdown ~> main.at \in Ended \cup {"returned"}

-----------------------------------------------------------------------------
\* The proofs.

\* num_pending_requests_ counts the connections whose thread is in a request,
\* and a request that is not the last one of its connection is complete.
PendingInv ==
  /\ srv.num_pending_requests = Cardinality(At(Pending))
  /\ \A c \in Clients : conn[c].at \in Pending /\ conn[c].active => conn[c].request >= Pieces

\* Inductive: the counters and what they count.
CountInv == TypeOK /\ ConnectionsCounted /\ PendingInv

\* What a step of one connection does to the sets of connections in a place.
LEMMA MoveFacts ==
  ASSUME NEW S, NEW c \in Clients, \A d \in Clients \ {c} : conn'[d].at = conn[d].at
  PROVE  /\ IsFiniteSet(At(S)) /\ Cardinality(At(S)) \in 0 .. Cardinality(Clients)
         /\ Cardinality(At(S)) \in Nat /\ Cardinality(Clients) \in Nat
         /\ (conn[c].at \in S) = (conn'[c].at \in S) =>
              At(S)' = At(S) /\ Cardinality(At(S))' = Cardinality(At(S))
         /\ conn[c].at \in S /\ conn'[c].at \notin S =>
              At(S)' = At(S) \ {c} /\ Cardinality(At(S))' = Cardinality(At(S)) - 1
         /\ conn[c].at \notin S /\ conn'[c].at \in S =>
              At(S)' = At(S) \cup {c} /\ Cardinality(At(S))' = Cardinality(At(S)) + 1
  <1>1. IsFiniteSet(Clients)
    BY RPCServerAssumption DEF RPCServerAssumption
  <1>2. At(S) \subseteq Clients /\ At(S)' \subseteq Clients
    BY DEF At
  <1>3. /\ IsFiniteSet(At(S)) /\ Cardinality(At(S)) <= Cardinality(Clients)
    BY <1>1, <1>2, FS_Subset
  <1>4. Cardinality(At(S)) \in Nat /\ Cardinality(Clients) \in Nat
    BY <1>1, <1>3, FS_CardinalityType
  <1>5. ASSUME (conn[c].at \in S) = (conn'[c].at \in S) PROVE At(S)' = At(S)
    BY <1>5 DEF At
  <1>6. ASSUME conn[c].at \in S, conn'[c].at \notin S
        PROVE  At(S)' = At(S) \ {c} /\ Cardinality(At(S))' = Cardinality(At(S)) - 1
    <2>1. At(S)' = At(S) \ {c} /\ c \in At(S)
      BY <1>6 DEF At
    <2>2. Cardinality(At(S) \ {c}) = Cardinality(At(S)) - 1
      BY <1>3, <2>1, FS_RemoveElement
    <2> QED
      BY <2>1, <2>2
  <1>7. ASSUME conn[c].at \notin S, conn'[c].at \in S
        PROVE  At(S)' = At(S) \cup {c} /\ Cardinality(At(S))' = Cardinality(At(S)) + 1
    <2>1. At(S)' = At(S) \cup {c} /\ c \notin At(S)
      BY <1>7 DEF At
    <2>2. Cardinality(At(S) \cup {c}) = Cardinality(At(S)) + 1
      BY <1>3, <2>1, FS_AddElement
    <2> QED
      BY <2>1, <2>2
  <1> QED
    BY <1>3, <1>4, <1>5, <1>6, <1>7


\* The members of the server when the two counters are any integers.
Counting ==
  [pooled : BOOLEAN, socket : BOOLEAN, prepare_shutdown : BOOLEAN, shutdown_loop : BOOLEAN,
   max_connections : 1..MaxConnections, num_connections : Int,
   num_pending_requests : Int, sigterm : {"none", "closing", "ignored"}]

\* What a move of one connection adds to the number of those in S.
Delta(S, from, to) ==
  IF from \in S THEN (IF to \in S THEN 0 ELSE -1) ELSE (IF to \in S THEN 1 ELSE 0)

\* A step of one connection that moves the counters as it moves itself keeps
\* them exact.
LEMMA CountStep ==
  ASSUME CountInv, NEW c \in Clients, NEW n \in Connections, conn' = [conn EXCEPT ![c] = n],
         n.at \in Pending /\ n.active => n.request >= Pieces,
         srv' \in Counting, srv'.max_connections = srv.max_connections,
         srv'.num_connections = srv.num_connections + Delta(Live, conn[c].at, n.at),
         srv'.num_connections <= srv.max_connections,
         srv'.num_pending_requests = srv.num_pending_requests + Delta(Pending, conn[c].at, n.at),
         main' \in Mains, usage' \in Usages
  PROVE  CountInv'
  <1>1. conn \in [Clients -> Connections] /\ conn' \in [Clients -> Connections]
    BY DEF CountInv, TypeOK
  <1>2. conn'[c] = n /\ \A d \in Clients \ {c} : conn'[d] = conn[d]
    BY <1>1
  <1>3. \A d \in Clients \ {c} : conn'[d].at = conn[d].at
    BY <1>2
  <1>4. ASSUME NEW S
        PROVE  /\ Cardinality(At(S))' = Cardinality(At(S)) + Delta(S, conn[c].at, n.at)
               /\ Cardinality(At(S)) \in Nat
    <2>1. CASE (conn[c].at \in S) = (conn'[c].at \in S)
      BY <1>2, <1>3, <2>1, MoveFacts DEF Delta
    <2>2. CASE conn[c].at \in S /\ conn'[c].at \notin S
      BY <1>2, <1>3, <2>2, MoveFacts DEF Delta
    <2>3. CASE conn[c].at \notin S /\ conn'[c].at \in S
      BY <1>2, <1>3, <2>3, MoveFacts DEF Delta
    <2> QED
      BY <2>1, <2>2, <2>3
  <1>5. ASSUME NEW S PROVE Cardinality(At(S))' \in 0 .. Cardinality(Clients)
    <2>1. IsFiniteSet(Clients) /\ At(S)' \subseteq Clients
      BY RPCServerAssumption DEF RPCServerAssumption, At
    <2>2. IsFiniteSet(At(S)') /\ Cardinality(At(S)') <= Cardinality(Clients)
      BY <2>1, FS_Subset
    <2> QED
      BY <2>1, <2>2, FS_CardinalityType
  <1>6. srv'.num_connections = Cardinality(At(Live))'
    BY <1>4 DEF CountInv, ConnectionsCounted
  <1>7. srv'.num_pending_requests = Cardinality(At(Pending))'
    BY <1>4 DEF CountInv, PendingInv
  <1>8. srv' \in Servers
    <2>1. srv'.num_pending_requests \in 0 .. Cardinality(Clients)
      BY <1>5, <1>7
    <2>2. srv'.num_connections \in Nat /\ srv.max_connections \in 1 .. MaxConnections
      BY <1>4, <1>5, <1>6, FS_CardinalityType, RPCServerAssumption
      DEF Counting, CountInv, TypeOK, Servers, RPCServerAssumption
    <2>3. srv'.num_connections \in 0 .. MaxConnections
      BY <2>2, RPCServerAssumption DEF RPCServerAssumption
    <2> QED
      BY <2>1, <2>3 DEF Counting, Servers
  <1>9. TypeOK'
    BY <1>1, <1>8 DEF TypeOK
  <1>10. ConnectionsCounted'
    BY <1>6 DEF ConnectionsCounted
  <1>11. \A d \in Clients :
           conn'[d].at \in Pending /\ conn'[d].active => conn'[d].request >= Pieces
    BY <1>2 DEF CountInv, PendingInv
  <1>12. PendingInv'
    BY <1>7, <1>11 DEF PendingInv
  <1> QED
    BY <1>9, <1>10, <1>12 DEF CountInv

\* So does a step of no connection.
LEMMA CountStays ==
  ASSUME CountInv, conn' = conn, srv' \in Servers, srv'.max_connections = srv.max_connections,
         srv'.num_connections = srv.num_connections,
         srv'.num_pending_requests = srv.num_pending_requests,
         main' \in Mains, usage' \in Usages
  PROVE  CountInv'
  <1>1. \A S : At(S)' = At(S)
    BY DEF At
  <1>2. TypeOK'
    BY DEF CountInv, TypeOK
  <1>3. ConnectionsCounted'
    BY <1>1 DEF CountInv, ConnectionsCounted
  <1>4. PendingInv'
    BY <1>1 DEF CountInv, PendingInv
  <1> QED
    BY <1>2, <1>3, <1>4 DEF CountInv

\* The counters are exact at the start.
LEMMA CountInit == Init => CountInv
  <1> SUFFICES ASSUME Init PROVE CountInv
    OBVIOUS
  <1>1. IsFiniteSet(Clients) /\ Cardinality(Clients) \in Nat
    BY RPCServerAssumption, FS_CardinalityType DEF RPCServerAssumption
  <1>2. \A c \in Clients : conn[c].at = "away"
    BY DEF Init
  <1>3. At(Live) = {} /\ At(Pending) = {}
    BY <1>2 DEF At, Live, Threaded, Pending
  <1>4. srv \in Servers /\ srv.num_connections = 0 /\ srv.num_pending_requests = 0
    <2>1. 0 \in 0 .. MaxConnections /\ 0 \in 0 .. Cardinality(Clients)
      BY <1>1, RPCServerAssumption DEF RPCServerAssumption
    <2> QED
      BY <2>1 DEF Init, Servers
  <1>5. main \in Mains /\ usage \in Usages
    BY RPCServerAssumption DEF Init, Mains, Usages, RPCServerAssumption
  <1>6. conn \in [Clients -> Connections]
    BY RPCServerAssumption DEF Init, Connections, RPCServerAssumption
  <1>7. Cardinality({}) = 0
    BY FS_EmptySet
  <1>8. srv.num_connections <= srv.max_connections
    BY <1>4 DEF Servers
  <1> QED
    BY <1>2, <1>3, <1>4, <1>5, <1>6, <1>7, <1>8
    DEF CountInv, TypeOK, ConnectionsCounted, PendingInv, Pending

\* A connection that only moves between places of the same counters.
LEMMA CountMoves ==
  ASSUME CountInv, NEW c \in Clients, NEW n \in Connections, conn' = [conn EXCEPT ![c] = n],
         n.at \in Pending /\ n.active => n.request >= Pieces,
         conn[c].at \in Live <=> n.at \in Live, conn[c].at \in Pending <=> n.at \in Pending,
         srv' \in Servers, srv'.max_connections = srv.max_connections,
         srv'.num_connections = srv.num_connections,
         srv'.num_pending_requests = srv.num_pending_requests,
         main' \in Mains, usage' \in Usages
  PROVE  CountInv'
  <1>1. Delta(Live, conn[c].at, n.at) = 0 /\ Delta(Pending, conn[c].at, n.at) = 0
    BY DEF Delta
  <1>2. srv' \in Counting
    BY DEF Servers, Counting
  <1>3. /\ srv.num_connections \in Int /\ srv.num_pending_requests \in Int
        /\ srv.num_connections <= srv.max_connections
    BY DEF CountInv, TypeOK, Servers, ConnectionsCounted
  <1>4. /\ srv'.num_connections = srv.num_connections + Delta(Live, conn[c].at, n.at)
        /\ srv'.num_pending_requests = srv.num_pending_requests + Delta(Pending, conn[c].at, n.at)
        /\ srv'.num_connections <= srv.max_connections
    BY <1>1, <1>3
  <1> QED
    BY <1>2, <1>4, CountStep

\* What the beginning and the end of a call do to the table of calls.
LEMMA UsageBegins ==
  ASSUME usage \in Usages, NEW c \in Clients, TrackUsage_Begin(c)
  PROVE  /\ usage' \in Usages /\ usage'.max_id = usage.max_id + 1 /\ usage'.count = usage.count
         /\ usage'.in_progress = [usage.in_progress EXCEPT ![c] = usage.max_id + 1]
  <1> DEFINE p == [usage.in_progress EXCEPT ![c] = usage.max_id + 1]
             m == usage.max_id + 1
  <1>1. m \in Nat /\ p \in [Clients -> Nat]
    BY DEF Usages
  <1>2. usage' = [usage EXCEPT !.max_id = m, !.in_progress = p]
    BY DEF TrackUsage_Begin, Usages
  <1> HIDE DEF m, p
  <1>3. /\ usage' \in Usages /\ usage'.max_id = m /\ usage'.count = usage.count
        /\ usage'.in_progress = p
    BY <1>1, <1>2 DEF Usages
  <1> QED
    BY <1>3 DEF m, p

\* The call that returns leaves the table and is counted.
LEMMA UsageEnds ==
  ASSUME usage \in Usages, NEW c \in Clients, MethodReturns(c)
  PROVE  /\ usage' \in Usages /\ usage'.max_id = usage.max_id /\ usage'.count = usage.count + 1
         /\ usage'.in_progress = [d \in Clients |->
              IF usage.in_progress[d] = usage.in_progress[c] THEN 0 ELSE usage.in_progress[d]]
  <1> DEFINE p == [d \in Clients |->
              IF usage.in_progress[d] = usage.in_progress[c] THEN 0 ELSE usage.in_progress[d]]
             m == usage.count + 1
  <1>1. m \in Nat /\ p \in [Clients -> Nat]
    BY DEF Usages
  <1>2. usage' = [usage EXCEPT !.count = m, !.in_progress = p]
    BY DEF MethodReturns, Usages
  <1> HIDE DEF m, p
  <1>3. /\ usage' \in Usages /\ usage'.max_id = usage.max_id /\ usage'.count = m
        /\ usage'.in_progress = p
    BY <1>1, <1>2 DEF Usages
  <1> QED
    BY <1>3 DEF m, p

\* Every step keeps the counters exact: one step of the proof for each action.
LEMMA CountNext == CountInv /\ [Next]_vars => CountInv'
  <1> SUFFICES ASSUME CountInv, [Next]_vars PROVE CountInv'
    OBVIOUS
  <1> USE RPCServerAssumption DEF RPCServerAssumption
  <1>0. /\ srv \in Servers /\ main \in Mains /\ usage \in Usages
        /\ conn \in [Clients -> Connections]
    BY DEF CountInv, TypeOK
  <1>1. ASSUME srv' = srv, conn' = conn, usage' = usage, main' \in Mains PROVE CountInv'
    BY <1>0, <1>1, CountStays
  \* A connection goes from one place to another, and nothing else changes.
  <1>2. ASSUME NEW c \in Clients, NEW from, NEW to \in {"away", "knocking", "done"} \cup Live,
               Go(c, from, to), from \in Live <=> to \in Live,
               from \in Pending <=> to \in Pending,
               srv' \in Servers, srv'.max_connections = srv.max_connections,
               srv'.num_connections = srv.num_connections,
               srv'.num_pending_requests = srv.num_pending_requests,
               main' \in Mains, usage' \in Usages
        PROVE  CountInv'
    <2> DEFINE n == [conn[c] EXCEPT !.at = to]
    <2>1. n \in Connections /\ conn' = [conn EXCEPT ![c] = n]
      BY <1>0, <1>2 DEF Go, Connections
    <2>2. n.at = to /\ n.active = conn[c].active /\ n.request = conn[c].request
      BY <1>0 DEF Connections
    <2>3. conn[c].at = from
      BY <1>2 DEF Go
    <2>4. n.at \in Pending /\ n.active => n.request >= Pieces
      BY <1>2, <2>2, <2>3 DEF CountInv, PendingInv
    <2> HIDE DEF n
    <2> QED
      BY <1>2, <2>1, <2>2, <2>3, <2>4, CountMoves
  <1>3. CASE Select
    <2>1. main' \in Mains
      BY <1>0, <1>3 DEF Select, Mains
    <2> QED
      BY <1>1, <1>3, <2>1 DEF Select
  <1>4. CASE Accept
    <2>1. main' \in Mains
      BY <1>0, <1>4 DEF Accept, Mains, Ended
    <2>2. CASE conn' = conn /\ srv' = srv
      BY <1>1, <1>4, <2>1, <2>2 DEF Accept
    <2>3. ASSUME NEW c \in Clients, Go(c, "knocking", "done"), UNCHANGED srv PROVE CountInv'
      BY <1>0, <1>2, <1>4, <2>1, <2>3 DEF Accept, Live, Threaded, Pending
    <2>4. ASSUME NEW c \in Clients, ~Decline, conn[c].at = "knocking",
                 Go(c, "knocking", IF srv.pooled THEN "queued" ELSE "select"),
                 srv' = [srv EXCEPT !.num_connections = @ + 1]
          PROVE  CountInv'
      <3> DEFINE to == IF srv.pooled THEN "queued" ELSE "select"
                 n == [conn[c] EXCEPT !.at = to]
      <3>1. to \in Live /\ to \notin Pending /\ "knocking" \notin Live /\ "knocking" \notin Pending
        BY DEF Live, Threaded, Pending
      <3>2. n \in Connections /\ conn' = [conn EXCEPT ![c] = n] /\ n.at = to
        BY <1>0, <2>4, <3>1 DEF Go, Connections
      <3>3. /\ Delta(Live, conn[c].at, n.at) = 1 /\ Delta(Pending, conn[c].at, n.at) = 0
        BY <2>4, <3>1, <3>2 DEF Delta
      <3>4. /\ srv' \in Counting /\ srv'.max_connections = srv.max_connections
            /\ srv'.num_connections = srv.num_connections + 1
            /\ srv'.num_pending_requests = srv.num_pending_requests + 0
        BY <1>0, <2>4 DEF Servers, Counting
      <3>5. srv'.num_connections <= srv.max_connections
        BY <1>0, <2>4, <3>4 DEF Decline, Servers
      <3>6. usage' \in Usages
        BY <1>0, <1>4 DEF Accept
      <3> HIDE DEF n, to
      <3>7. ~(n.at \in Pending)
        BY <3>1, <3>2
      <3> QED
        BY <2>1, <3>2, <3>3, <3>4, <3>5, <3>6, <3>7, CountStep
    <2> QED
      BY <1>4, <2>2, <2>3, <2>4 DEF Accept, At
  <1>5. CASE LeaveLoop
    <2>1. main' \in Mains
      BY <1>0, <1>5 DEF LeaveLoop, Mains
    <2> QED
      BY <1>1, <1>5, <2>1 DEF LeaveLoop
  <1>6. CASE Countdown
    <2>1. main' \in Mains
      BY <1>0, <1>6 DEF Countdown, Mains, Ended
    <2> QED
      BY <1>1, <1>6, <2>1 DEF Countdown
  <1>7. CASE Sigterm
    <2>1. /\ srv' \in Servers /\ srv'.max_connections = srv.max_connections
          /\ srv'.num_connections = srv.num_connections
          /\ srv'.num_pending_requests = srv.num_pending_requests
      <3>1. CASE srv' = [srv EXCEPT !.prepare_shutdown = TRUE, !.shutdown_loop = FALSE,
                                    !.sigterm = "closing"]
        BY <1>0, <3>1, ZenonT(60) DEF Servers
      <3>2. CASE srv' = [srv EXCEPT !.socket = FALSE, !.sigterm = "ignored"]
        BY <1>0, <3>2, ZenonT(60) DEF Servers
      <3> QED
        BY <1>7, <3>1, <3>2 DEF Sigterm
    <2> QED
      BY <1>0, <1>7, <2>1, CountStays DEF Sigterm
  <1>8. CASE UNCHANGED vars
    BY <1>0, <1>1, <1>8 DEF vars
  <1>9. ASSUME NEW c \in Clients, Connect(c) \/ SelectGivesUp(c) \/ PoolStarts(c)
                                    \/ ProcessPage(c) \/ WriteReply(c)
        PROVE  CountInv'
    BY <1>0, <1>2, <1>9
    DEF Connect, SelectGivesUp, PoolStarts, ProcessPage, WriteReply, Live, Threaded, Pending
  <1>10. ASSUME NEW c \in Clients, Send(c) \/ ClientCloses(c) PROVE CountInv'
    <2>1. PICK n \in Connections : /\ conn' = [conn EXCEPT ![c] = n] /\ n.at = conn[c].at
                                   /\ n.active = conn[c].active /\ n.request = conn[c].request
      <3>1. CASE Send(c)
        <4> DEFINE n == [conn[c] EXCEPT !.sent = conn[c].sent + 1, !.wire = conn[c].wire + 1]
        <4>0. conn[c] \in Connections /\ conn[c].sent + 1 \in Nat /\ conn[c].wire + 1 \in Nat
          BY <1>0 DEF Connections
        <4>1. n \in Connections /\ n.at = conn[c].at
              /\ n.active = conn[c].active /\ n.request = conn[c].request
          BY <4>0 DEF Connections
        <4>2. conn' = [conn EXCEPT ![c] = n]
          BY <1>0, <3>1 DEF Send
        <4> QED
          BY <4>1, <4>2
      <3>2. CASE ClientCloses(c)
        <4> DEFINE n == [conn[c] EXCEPT !.fin = TRUE]
        <4>1. n \in Connections /\ n.at = conn[c].at
              /\ n.active = conn[c].active /\ n.request = conn[c].request
          BY <1>0 DEF Connections
        <4>2. conn' = [conn EXCEPT ![c] = n]
          BY <1>0, <3>2 DEF ClientCloses
        <4> QED
          BY <4>1, <4>2
      <3> QED
        BY <1>10, <3>1, <3>2
    <2>2. n.at \in Pending /\ n.active => n.request >= Pieces
      BY <2>1 DEF CountInv, PendingInv
    <2>3. srv' = srv /\ main' = main /\ usage' = usage
      BY <1>10 DEF Send, ClientCloses
    <2> QED
      BY <1>0, <2>1, <2>2, <2>3, CountMoves
  <1>11. ASSUME NEW c \in Clients, Read(c) \/ ReadEnd(c) PROVE CountInv'
    <2>1. conn[c].at = "select" /\ main' = main /\ usage' = usage
      BY <1>11 DEF Read, ReadEnd
    <2>2. PICK n \in Connections :
            /\ conn' = [conn EXCEPT ![c] = n] /\ IncrementPending(n.at)
            /\ n.at \in {"close", "handle", "select"}
            /\ n.at = "handle" /\ n.active => n.request >= Pieces
      <3>1. CASE Read(c)
        <4>1. PICK k \in 1 .. conn[c].wire :
                LET size == conn[c].request + k
                    to == IF size > MaxSize THEN "close" ELSE IF size >= Pieces THEN "handle"
                          ELSE IF srv.prepare_shutdown THEN "close" ELSE "select"
                IN  /\ conn' = [conn EXCEPT ![c].wire = @ - k, ![c].at = to,
                                  ![c].request = IF size > MaxSize THEN MaxSize ELSE size]
                    /\ IncrementPending(to)
          BY <3>1 DEF Read
        <4> DEFINE size == conn[c].request + k
                   to == IF size > MaxSize THEN "close" ELSE IF size >= Pieces THEN "handle"
                         ELSE IF srv.prepare_shutdown THEN "close" ELSE "select"
                   request == IF size > MaxSize THEN MaxSize ELSE size
                   n == [conn[c] EXCEPT !.wire = @ - k, !.at = to, !.request = request]
        <4>2. /\ conn[c] \in Connections /\ conn[c].wire \in Nat
              /\ conn[c].request \in 0 .. MaxSize /\ k \in Nat
          BY <1>0 DEF Connections
        <4>3. conn[c].wire - k \in Nat /\ request \in 0 .. MaxSize
          BY <4>1, <4>2
        <4>4. to \in {"close", "handle", "select"} /\ (to = "handle" => request >= Pieces)
          BY <4>1, <4>2
        <4>5. conn' = [conn EXCEPT ![c] = n] /\ IncrementPending(to)
          BY <1>0, <4>1
        <4> HIDE DEF to, size, request
        <4>6. n \in Connections /\ n.at = to /\ n.request = request
          BY <4>2, <4>3, <4>4 DEF Connections, Live, Threaded, Pending
        <4> HIDE DEF n
        <4> QED
          BY <4>4, <4>5, <4>6
      <3>2. CASE ReadEnd(c)
        <4> DEFINE to == IF conn[c].request > 0 THEN "handle" ELSE "close"
                   n == [conn[c] EXCEPT !.at = to, !.active = FALSE]
        <4>1. conn' = [conn EXCEPT ![c] = n] /\ IncrementPending(to)
          BY <1>0, <3>2 DEF ReadEnd
        <4>2. n \in Connections /\ n.at = to /\ n.active = FALSE
          BY <1>0 DEF Connections, Live, Threaded, Pending
        <4>3. to \in {"close", "handle"}
          OBVIOUS
        <4> HIDE DEF n, to
        <4> QED
          BY <4>1, <4>2, <4>3
      <3> QED
        BY <1>11, <3>1, <3>2
    <2>3. /\ Delta(Live, conn[c].at, n.at) = 0
          /\ Delta(Pending, conn[c].at, n.at) = IF n.at = "handle" THEN 1 ELSE 0
      BY <2>1, <2>2 DEF Delta, Live, Threaded, Pending
    <2>4. /\ srv' \in Counting /\ srv'.max_connections = srv.max_connections
          /\ srv'.num_connections = srv.num_connections + 0
          /\ srv'.num_pending_requests =
               srv.num_pending_requests + IF n.at = "handle" THEN 1 ELSE 0
      BY <1>0, <2>2 DEF IncrementPending, Servers, Counting
    <2>5. srv'.num_connections <= srv.max_connections
      BY <1>0, <2>4 DEF CountInv, ConnectionsCounted, Servers
    <2>6. n.at \in Pending /\ n.active => n.request >= Pieces
      BY <2>2 DEF Pending
    <2> QED
      BY <1>0, <2>1, <2>2, <2>3, <2>4, <2>5, <2>6, CountStep
  <1>12. ASSUME NEW c \in Clients, ProcessShutdown(c) PROVE CountInv'
    <2>1. /\ srv' \in Servers /\ srv'.max_connections = srv.max_connections
          /\ srv'.num_connections = srv.num_connections
          /\ srv'.num_pending_requests = srv.num_pending_requests
      <3>1. ASSUME NEW loop \in BOOLEAN,
                   srv' = [srv EXCEPT !.prepare_shutdown = TRUE, !.shutdown_loop = loop]
            PROVE  /\ srv' \in Servers /\ srv'.max_connections = srv.max_connections
                   /\ srv'.num_connections = srv.num_connections
                   /\ srv'.num_pending_requests = srv.num_pending_requests
        BY <1>0, <3>1, ZenonT(60) DEF Servers
      <3>2. ASSUME srv' = [srv EXCEPT !.socket = FALSE]
            PROVE  /\ srv' \in Servers /\ srv'.max_connections = srv.max_connections
                   /\ srv'.num_connections = srv.num_connections
                   /\ srv'.num_pending_requests = srv.num_pending_requests
        BY <1>0, <3>2, ZenonT(60) DEF Servers
      <3> QED
        BY <1>12, <3>1, <3>2 DEF ProcessShutdown
    <2>2. main' \in Mains /\ usage' \in Usages
      BY <1>0, <1>12 DEF ProcessShutdown
    <2>3. CASE Go(c, "handle", "closing")
      BY <1>2, <2>1, <2>2, <2>3 DEF Live, Threaded, Pending
    <2>4. CASE Go(c, "closing", "write")
      BY <1>2, <2>1, <2>2, <2>4 DEF Live, Threaded, Pending
    <2> QED
      BY <1>12, <2>3, <2>4 DEF ProcessShutdown
  <1>13. ASSUME NEW c \in Clients, ProcessMethod(c) PROVE CountInv'
    <2>1. usage' \in Usages
      BY <1>0, <1>13, UsageBegins DEF ProcessMethod
    <2>2. srv' = srv /\ main' = main /\ Go(c, "handle", "method")
      BY <1>13 DEF ProcessMethod
    <2> QED
      BY <1>0, <1>2, <2>1, <2>2 DEF Live, Threaded, Pending
  <1>14. ASSUME NEW c \in Clients, MethodReturns(c) PROVE CountInv'
    <2>1. usage' \in Usages
      BY <1>0, <1>14, UsageEnds
    <2>2. srv' = srv /\ main' = main /\ Go(c, "method", "write")
      BY <1>14 DEF MethodReturns
    <2> QED
      BY <1>0, <1>2, <2>1, <2>2 DEF Live, Threaded, Pending
  <1>15. ASSUME NEW c \in Clients, EndRequest(c) PROVE CountInv'
    <2>1. conn[c].at = "written" /\ main' = main /\ usage' = usage
      BY <1>15 DEF EndRequest
    <2>2. PICK to \in {"select", "close"} :
            conn' = [conn EXCEPT ![c].at = to,
                       ![c].request = IF conn[c].active THEN @ - Pieces ELSE 0]
      BY <1>15 DEF EndRequest
    <2> DEFINE request == IF conn[c].active THEN conn[c].request - Pieces ELSE 0
               n == [conn[c] EXCEPT !.at = to, !.request = request]
    <2>3. conn' = [conn EXCEPT ![c] = n]
      BY <1>0, <2>2
    <2>4. conn[c] \in Connections /\ conn[c].request \in 0 .. MaxSize
      BY <1>0 DEF Connections
    <2>5. request \in 0 .. MaxSize
      BY <2>1, <2>4 DEF CountInv, PendingInv, Pending
    <2> HIDE DEF request
    <2>6. n \in Connections /\ n.at = to
      BY <2>4, <2>5 DEF Connections, Live, Threaded, Pending
    <2> HIDE DEF n
    <2>7. /\ Delta(Live, conn[c].at, n.at) = 0 /\ Delta(Pending, conn[c].at, n.at) = -1
          /\ n.at \notin Pending
      BY <2>1, <2>6 DEF Delta, Live, Threaded, Pending
    <2>8. /\ srv' \in Counting /\ srv'.max_connections = srv.max_connections
          /\ srv'.num_connections = srv.num_connections + 0
          /\ srv'.num_pending_requests = srv.num_pending_requests + (-1)
      BY <1>0, <1>15 DEF EndRequest, Servers, Counting
    <2>9. srv'.num_connections <= srv.max_connections
      BY <1>0, <2>8 DEF CountInv, ConnectionsCounted, Servers
    <2> QED
      BY <1>0, <2>1, <2>3, <2>6, <2>7, <2>8, <2>9, CountStep
  <1>16. ASSUME NEW c \in Clients, EndConnection(c) PROVE CountInv'
    <2> DEFINE n == [conn[c] EXCEPT !.at = "done"]
    <2>1. /\ conn[c].at = "close" /\ main' = main /\ usage' = usage
          /\ conn' = [conn EXCEPT ![c] = n]
      BY <1>0, <1>16 DEF EndConnection, Go
    <2>2. n \in Connections /\ n.at = "done"
      BY <1>0 DEF Connections
    <2> HIDE DEF n
    <2>3. /\ Delta(Live, conn[c].at, n.at) = -1 /\ Delta(Pending, conn[c].at, n.at) = 0
          /\ n.at \notin Pending
      BY <2>1, <2>2 DEF Delta, Live, Threaded, Pending
    <2>4. /\ srv' \in Counting /\ srv'.max_connections = srv.max_connections
          /\ srv'.num_connections = srv.num_connections + (-1)
          /\ srv'.num_pending_requests = srv.num_pending_requests + 0
      BY <1>0, <1>16 DEF EndConnection, Servers, Counting
    <2>5. srv'.num_connections <= srv.max_connections
      BY <1>0, <2>4 DEF CountInv, ConnectionsCounted, Servers
    <2> QED
      BY <1>0, <2>1, <2>2, <2>3, <2>4, <2>5, CountStep
  <1> QED
    BY <1>3, <1>4, <1>5, <1>6, <1>7, <1>8, <1>9, <1>10, <1>11, <1>12, <1>13, <1>14, <1>15, <1>16
    DEF Next, MainStep, ConnStep, Quiet

\* The table of calls is exact, and the ids in it have been given out.
UsageInv ==
  /\ UsageConserved
  /\ \A c \in Clients : usage.in_progress[c] <= usage.max_id

\* The connections with a call in the table.
InProgress == {c \in Clients : usage.in_progress[c] # 0}

\* A step that neither begins nor ends a call keeps the table exact.
LEMMA UsageStays ==
  ASSUME UsageInv, usage' = usage, At({"method"})' = At({"method"})
  PROVE  UsageInv'
  BY DEF UsageInv, UsageConserved

\* Every step keeps the table of calls exact.
LEMMA UsageNext ==
  ASSUME CountInv, UsageInv, [Next]_vars
  PROVE  UsageInv'
  <1>0. usage \in Usages /\ conn \in [Clients -> Connections]
    BY DEF CountInv, TypeOK
  <1>1. /\ usage.max_id \in Nat /\ usage.count \in Nat /\ usage.in_progress \in [Clients -> Nat]
    BY <1>0 DEF Usages
  <1>2. /\ usage.max_id = Cardinality(InProgress) + usage.count
        /\ InProgress = At({"method"})
        /\ \A d, e \in InProgress : usage.in_progress[d] = usage.in_progress[e] => d = e
    BY DEF UsageInv, UsageConserved, InProgress
  <1>3. IsFiniteSet(InProgress) /\ Cardinality(InProgress) \in Nat
    <2>1. IsFiniteSet(Clients) /\ InProgress \subseteq Clients
      BY RPCServerAssumption DEF RPCServerAssumption, InProgress
    <2> QED
      BY <2>1, FS_Subset, FS_CardinalityType
  <1>4. ASSUME NEW c \in Clients, ProcessMethod(c) PROVE UsageInv'
    <2>1. /\ usage'.max_id = usage.max_id + 1 /\ usage'.count = usage.count
          /\ usage'.in_progress = [usage.in_progress EXCEPT ![c] = usage.max_id + 1]
      BY <1>0, <1>4, UsageBegins DEF ProcessMethod
    <2>2. /\ usage'.in_progress[c] = usage.max_id + 1
          /\ \A d \in Clients \ {c} : usage'.in_progress[d] = usage.in_progress[d]
      BY <1>1, <2>1
    <2>3. conn[c].at = "handle" /\ conn'[c].at = "method"
          /\ \A d \in Clients \ {c} : conn'[d] = conn[d]
      BY <1>0, <1>4 DEF ProcessMethod, Go, Connections
    <2>4. At({"method"})' = At({"method"}) \cup {c} /\ c \notin At({"method"})
      BY <2>3 DEF At
    <2>5. InProgress' = InProgress \cup {c} /\ c \notin InProgress
      BY <1>1, <1>2, <2>2, <2>4 DEF InProgress
    <2>6. Cardinality(InProgress') = Cardinality(InProgress) + 1
      BY <1>3, <2>5, FS_AddElement
    <2>7. \A d \in Clients : usage.in_progress[d] <= usage.max_id
      BY DEF UsageInv
    <2>8. \A d, e \in InProgress' : usage'.in_progress[d] = usage'.in_progress[e] => d = e
      <3>1. \A d \in InProgress : usage'.in_progress[d] = usage.in_progress[d]
                                  /\ usage'.in_progress[d] # usage'.in_progress[c]
        BY <1>1, <2>2, <2>5, <2>7 DEF InProgress
      <3> QED
        BY <1>2, <2>5, <3>1
    <2>9. \A d \in Clients : usage'.in_progress[d] <= usage'.max_id
      BY <1>1, <2>1, <2>2, <2>7
    <2>10. usage'.max_id = Cardinality(InProgress') + usage'.count /\ InProgress' = At({"method"})'
      BY <1>1, <1>2, <1>3, <2>1, <2>4, <2>5, <2>6
    <2> QED
      BY <2>8, <2>9, <2>10 DEF UsageInv, UsageConserved, InProgress
  <1>5. ASSUME NEW c \in Clients, MethodReturns(c) PROVE UsageInv'
    <2>1. /\ usage'.max_id = usage.max_id /\ usage'.count = usage.count + 1
          /\ usage'.in_progress = [d \in Clients |->
               IF usage.in_progress[d] = usage.in_progress[c] THEN 0 ELSE usage.in_progress[d]]
      BY <1>0, <1>5, UsageEnds
    <2>2. conn[c].at = "method" /\ conn'[c].at = "write"
          /\ \A d \in Clients \ {c} : conn'[d] = conn[d]
      BY <1>0, <1>5 DEF MethodReturns, Go, Connections
    <2>3. At({"method"})' = At({"method"}) \ {c} /\ c \in At({"method"})
      BY <2>2 DEF At
    <2>4. c \in InProgress
      BY <1>2, <2>3
    <2>5. /\ usage'.in_progress[c] = 0
          /\ \A d \in Clients \ {c} : usage'.in_progress[d] = usage.in_progress[d]
      BY <1>1, <1>2, <2>1, <2>4 DEF InProgress
    <2>6. InProgress' = InProgress \ {c}
      BY <2>5 DEF InProgress
    <2>7. Cardinality(InProgress') = Cardinality(InProgress) - 1
      BY <1>3, <2>4, <2>6, FS_RemoveElement
    <2>8. \A d, e \in InProgress' : usage'.in_progress[d] = usage'.in_progress[e] => d = e
      BY <1>2, <2>5, <2>6 DEF InProgress
    <2>9. \A d \in Clients : usage'.in_progress[d] <= usage'.max_id
      BY <1>1, <2>1, <2>5 DEF UsageInv
    <2>10. usage'.max_id = Cardinality(InProgress') + usage'.count /\ InProgress' = At({"method"})'
      BY <1>1, <1>2, <1>3, <2>1, <2>3, <2>6, <2>7
    <2> QED
      BY <2>8, <2>9, <2>10 DEF UsageInv, UsageConserved, InProgress
  \* All other steps leave the table alone, and no connection in or out of "method".
  <1>6. ASSUME NEW c \in Clients, NEW from, NEW to, Go(c, from, to), usage' = usage,
               from # "method", to # "method"
        PROVE  UsageInv'
    <2>1. conn[c].at = from /\ conn'[c].at = to /\ \A d \in Clients \ {c} : conn'[d] = conn[d]
      BY <1>0, <1>6 DEF Go, Connections
    <2>2. At({"method"})' = At({"method"})
      BY <1>6, <2>1 DEF At
    <2> QED
      BY <1>6, <2>2, UsageStays
  <1>7. ASSUME NEW c \in Clients, usage' = usage,
               \A d \in Clients : conn'[d].at = "method" <=> conn[d].at = "method"
        PROVE  UsageInv'
    <2>1. At({"method"})' = At({"method"})
      BY <1>7 DEF At
    <2> QED
      BY <1>7, <2>1, UsageStays
  <1>8. CASE usage' = usage /\ conn' = conn
    <2>1. At({"method"})' = At({"method"})
      BY <1>8 DEF At
    <2> QED
      BY <1>8, <2>1, UsageStays
  <1>9. CASE Accept
    <2>1. CASE conn' = conn
      BY <1>8, <1>9, <2>1 DEF Accept
    <2>2. ASSUME NEW c \in Clients, Go(c, "knocking", "done") PROVE UsageInv'
      BY <1>6, <1>9, <2>2 DEF Accept
    <2>3. ASSUME NEW c \in Clients, Go(c, "knocking", IF srv.pooled THEN "queued" ELSE "select")
          PROVE  UsageInv'
      BY <1>6, <1>9, <2>3 DEF Accept
    <2> QED
      BY <1>9, <2>1, <2>2, <2>3 DEF Accept, At
  <1>10. CASE Select \/ LeaveLoop \/ Countdown \/ Sigterm \/ UNCHANGED vars
    BY <1>8, <1>10 DEF Select, LeaveLoop, Countdown, Sigterm, vars
  <1>11. ASSUME NEW c \in Clients, Connect(c) \/ SelectGivesUp(c) \/ PoolStarts(c)
                \/ ProcessPage(c) \/ WriteReply(c) \/ ProcessShutdown(c) \/ EndConnection(c)
         PROVE  UsageInv'
    BY <1>6, <1>11 DEF Connect, SelectGivesUp, PoolStarts, ProcessPage, WriteReply,
                       ProcessShutdown, EndConnection
  <1>12. ASSUME NEW c \in Clients, Send(c) \/ ClientCloses(c) PROVE UsageInv'
    <2>1. usage' = usage /\ \A d \in Clients : conn'[d].at = conn[d].at
      BY <1>0, <1>12 DEF Send, ClientCloses, Connections
    <2> QED
      BY <1>7, <2>1
  <1>13. ASSUME NEW c \in Clients, Read(c) \/ ReadEnd(c) PROVE UsageInv'
    <2>1. usage' = usage /\ conn[c].at = "select" /\ conn'[c].at \in {"close", "handle", "select"}
          /\ \A d \in Clients \ {c} : conn'[d].at = conn[d].at
      <3>1. CASE Read(c)
        BY <1>0, <3>1 DEF Read, Connections
      <3>2. CASE ReadEnd(c)
        BY <1>0, <3>2 DEF ReadEnd, Connections
      <3> QED
        BY <1>13, <3>1, <3>2
    <2> QED
      BY <1>7, <2>1
  <1>14. ASSUME NEW c \in Clients, EndRequest(c) PROVE UsageInv'
    <2>1. usage' = usage /\ conn[c].at = "written" /\ conn'[c].at \in {"close", "select"}
          /\ \A d \in Clients \ {c} : conn'[d].at = conn[d].at
      BY <1>0, <1>14 DEF EndRequest, Connections
    <2> QED
      BY <1>7, <2>1
  <1> QED
    BY <1>4, <1>5, <1>9, <1>10, <1>11, <1>12, <1>13, <1>14 DEF Next, MainStep, ConnStep, Quiet

\* However many clients connect, whatever they send, and at whatever point the
\* shutdown comes: num_connections_ is the number of connections that are open
\* and stays within max_connections_, num_pending_requests_ that of the
\* requests in the works, and the table of pending methods holds each running
\* call once (netserver.cc:158-169, :325, rpcserver.cc:606-650).
THEOREM CountsExact == Spec => []ServerCounts
  <1>1. Init => CountInv /\ UsageInv
    <2> SUFFICES ASSUME Init PROVE UsageInv
      BY CountInit
    <2>1. \A c \in Clients : usage.in_progress[c] = 0 /\ conn[c].at = "away"
      BY DEF Init
    <2>2. usage.max_id = 0 /\ usage.count = 0
      BY DEF Init
    <2>3. {c \in Clients : usage.in_progress[c] # 0} = {} /\ At({"method"}) = {}
      BY <2>1 DEF At
    <2> QED
      BY <2>1, <2>2, <2>3, FS_EmptySet DEF UsageInv, UsageConserved
  <1>2. CountInv /\ UsageInv /\ [Next]_vars => (CountInv /\ UsageInv)'
    BY CountNext, UsageNext
  <1>3. CountInv /\ UsageInv => ServerCounts
    BY DEF CountInv, UsageInv, ServerCounts
  <1> QED
    BY <1>1, <1>2, <1>3, PTL DEF Spec, Safety

\* The countdown of a shutdown ends early only when no request lacks its reply,
\* provided the process has a thread besides main() and those of connections,
\* as the code takes for granted when it calls num_threads - 2 the pending ones:
\* num_threads <= 2 then means that no connection has a thread
\* (netserver.cc:203-218).
THEOREM ShutdownIsGraceful ==
  ASSUME OtherThreads >= 1
  PROVE  Spec => GracefulShutdown
  <1>1. CountInv /\ [Next]_vars =>
          [main.at = "sleep" /\ main'.at = "exiting" /\ main.left > 0
             => At(Pending \ {"written"}) = {}]_vars
    <2> SUFFICES ASSUME CountInv, Next, main.at = "sleep", main'.at = "exiting", main.left > 0
                 PROVE  At(Pending \ {"written"}) = {}
      OBVIOUS
    <2>1. main \in Mains /\ srv \in Servers
      BY DEF CountInv, TypeOK
    <2>2. Countdown
      BY DEF Next, MainStep, ConnStep, Quiet, Select, Accept, LeaveLoop, Sigterm, Connect, Send,
             ClientCloses, PoolStarts, Read, ReadEnd, SelectGivesUp, ProcessPage, ProcessShutdown,
             ProcessMethod, MethodReturns, WriteReply, EndRequest, EndConnection, vars
    <2>3. MayStop
      BY <2>1, <2>2 DEF Countdown, Mains
    <2>4. ASSUME NEW S PROVE IsFiniteSet(At(S)) /\ Cardinality(At(S)) \in Nat
      <3>1. IsFiniteSet(Clients) /\ At(S) \subseteq Clients
        BY RPCServerAssumption DEF RPCServerAssumption, At
      <3> QED
        BY <3>1, FS_Subset, FS_CardinalityType
    <2>5. CASE srv.num_pending_requests <= 0
      <3>1. Cardinality(At(Pending)) = 0
        BY <2>4, <2>5 DEF CountInv, PendingInv
      <3>2. At(Pending) = {}
        BY <2>4, <3>1, FS_EmptySet
      <3> QED
        BY <3>2 DEF At
    <2>6. CASE num_threads <= 2
      <3>1. Cardinality(At(Threaded)) = 0
        BY <2>4, <2>6, RPCServerAssumption DEF num_threads, RPCServerAssumption
      <3>2. At(Threaded) = {}
        BY <2>4, <3>1, FS_EmptySet
      <3> QED
        BY <3>2 DEF At, Threaded
    <2> QED
      BY <2>3, <2>5, <2>6 DEF MayStop
  <1> QED
    BY <1>1, CountInit, CountNext, PTL DEF Spec, Safety, GracefulShutdown

=============================================================================
