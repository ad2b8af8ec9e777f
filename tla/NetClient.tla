----------------------------- MODULE NetClient -----------------------------
(***************************************************************************)
(* NetClient with its clients: RPCClient ("rpc": several calls on one      *)
(* connection), HttpBase<NetClient> ("http") and HttpBase<SSLClient>       *)
(* ("https": one call on a connection), against a peer that may refuse,    *)
(* be late, or close the connection at any time.  A reply is a sequence of *)
(* pieces <<call, i>>; the first one holds the size or the HTTP header.    *)
(***************************************************************************)
EXTENDS Integers, SequencesExt, FiniteSets

CONSTANTS
  Kinds,      \* subset of {"rpc", "http", "https"}
  MaxCalls,   \* bound: calls of the program
  MaxSockets, \* bound: sockets created
  Pieces,     \* pieces of a reply
  MaxReply,   \* max_reply_size_, in pieces
  Trials      \* of SSLClient to read or write, 10 in the code

VARIABLES
  cl,     \* the client: kind, at, socket_, reply_, the call and its result,
          \* whether a call was late and whether the peer had cut the reply
  net,    \* sockets that are open, created, and whose connection failed
  peer    \* of the current connection: requests to answer, pieces sent of
          \* the first, pieces on the wire, closed; cut when it closed within a reply

vars == <<cl, net, peer>>

NoPeer == [todo |-> <<>>, sent |-> 0, wire |-> <<>>, closed |-> FALSE, cut |-> FALSE]
NoResult == [ok |-> FALSE, reply |-> <<>>]

Init ==
  /\ \E k \in Kinds : cl = [kind |-> k, at |-> "idle", socket |-> 0, connected |-> FALSE,
                            reply |-> <<>>, call |-> 0, result |-> NoResult, late |-> FALSE, cut |-> FALSE,
                            trials |-> 0]
  /\ net = [open |-> {}, made |-> 0, failed |-> {}]
  /\ peer = NoPeer

-----------------------------------------------------------------------------
\* NetClient overwrites socket_; SSLClient closes the connection it has.
StillOpen == IF cl.kind = "https" THEN net.open \ {cl.socket} ELSE net.open

EstablishConnection ==
  LET s == net.made + 1 IN
  /\ cl.at = "idle" /\ ~cl.connected /\ s <= MaxSockets /\ cl.call < MaxCalls
  /\ cl' = [cl EXCEPT !.at = "connecting", !.socket = s, !.reply = <<>>, !.late = FALSE,
                      !.result = NoResult]
  /\ net' = [net EXCEPT !.made = s, !.open = StillOpen \cup {s}]
  /\ peer' = NoPeer

\* connect() succeeds: the HTTP clients go on with the call.
Connected ==
  /\ cl.at = "connecting"
  /\ cl' = [cl EXCEPT !.connected = TRUE, !.at = IF cl.kind = "rpc" THEN "idle" ELSE "send",
                      !.call = IF cl.kind = "rpc" THEN @ ELSE @ + 1, !.result = NoResult]
  /\ UNCHANGED <<net, peer>>

\* Unknown host, refused or timed out: false, and the socket stays open.
ConnectFails ==
  /\ cl.at = "connecting" /\ cl.kind # "https"
  /\ cl' = [cl EXCEPT !.at = "idle"]
  /\ net' = [net EXCEPT !.failed = @ \cup {cl.socket}]
  /\ UNCHANGED peer

\* The BIO of SSLClient keeps its socket until it is freed.
SecureConnectFails ==
  /\ cl.at = "connecting" /\ cl.kind = "https"
  /\ cl' = [cl EXCEPT !.at = "idle"]
  /\ UNCHANGED <<net, peer>>

CloseConnection(c) ==
  [c EXCEPT !.socket = 0, !.connected = FALSE, !.reply = <<>>, !.at = "idle", !.trials = 0]

\* RPCClient::Call() on the connection, or its caller closes it.
StartCall ==
  /\ cl.kind = "rpc" /\ cl.at = "idle" /\ cl.connected /\ cl.call < MaxCalls
  /\ cl' = [cl EXCEPT !.at = "send", !.call = @ + 1, !.result = NoResult]
  /\ UNCHANGED <<net, peer>>

CallerCloses ==
  /\ cl.at = "idle" /\ cl.socket # 0
  /\ net' = [net EXCEPT !.open = @ \ {cl.socket}]
  /\ cl' = CloseConnection(cl)
  /\ peer' = NoPeer

\* Call() returns; HttpGet(), HttpPost() and HttpPut() close the connection.
Return(ok, reply) ==
  LET c == [cl EXCEPT !.result = [ok |-> ok, reply |-> reply], !.cut = peer.cut] IN
  IF cl.kind = "rpc" THEN cl' = [c EXCEPT !.at = "idle"] /\ UNCHANGED <<net, peer>>
  ELSE /\ cl' = CloseConnection(c) /\ peer' = NoPeer
       /\ net' = [net EXCEPT !.open = @ \ {cl.socket}]

\* A bug: the reply of the call before is still in the buffer.
Sent_Uncleared(c) == [c EXCEPT !.at = "wait"]

\* SendMessage() clears reply_.
Sent(c) == [c EXCEPT !.at = "wait", !.reply = <<>>]

SendMessage ==
  /\ cl.at = "send" /\ cl.kind # "https"
  /\ \/ /\ cl' = Sent(cl)
        /\ peer' = [peer EXCEPT !.todo = Append(@, cl.call)]
        /\ UNCHANGED net
     \/ Return(FALSE, <<>>)   \* a short or a failed write()

\* That of SSLClient does not: its caller has just connected.
SecureSendMessage ==
  /\ cl.at = "send" /\ cl.kind = "https"
  /\ \/ /\ cl' = [cl EXCEPT !.at = "wait", !.trials = 0]
        /\ peer' = [peer EXCEPT !.todo = Append(@, cl.call)]
        /\ UNCHANGED net
     \/ Return(FALSE, <<>>)   \* a short write, or one that should not be retried

\* RPCMessageIsComplete(); HTTP replies end when the peer closes.
ReplyIsComplete == cl.kind = "rpc" /\ Len(cl.reply) >= Pieces

\* ReadMoreDataIfAvailable() of WaitForReply(): what exceeds max_reply_size_ is dropped.
ReadMoreData ==
  /\ cl.at = "wait" /\ ~ReplyIsComplete /\ peer.wire # <<>>
  /\ cl' = [cl EXCEPT !.reply = IF Len(@) < MaxReply THEN Append(@, Head(peer.wire)) ELSE @,
                      !.trials = 0]
  /\ peer' = [peer EXCEPT !.wire = Tail(@)]
  /\ UNCHANGED net

\* BIO_should_retry(): a part of a record was written or has arrived.  After so
\* many trials the call fails.
Retry ==
  /\ cl.kind = "https" /\ (cl.at = "send" \/ (cl.at = "wait" /\ peer.wire # <<>>))
  /\ \/ cl.trials + 1 < Trials /\ cl' = [cl EXCEPT !.trials = @ + 1] /\ UNCHANGED <<net, peer>>
     \/ cl.trials + 1 >= Trials /\ Return(FALSE, <<>>)

\* read() of SSLClient fails.
SecureReadFails ==
  cl.kind = "https" /\ cl.at = "wait" /\ (peer.wire # <<>> \/ peer.closed) /\ Return(FALSE, <<>>)

\* ParseRPCResponse() and ParseHttpResponse(): a whole message, or a whole header.
Parse ==
  /\ cl.at = "wait"
  /\ ReplyIsComplete \/ (peer.wire = <<>> /\ peer.closed)
  /\ Return(IF cl.kind = "rpc" THEN ReplyIsComplete ELSE cl.reply # <<>>, cl.reply)

\* select() times out; a reply of an RPC may still come, on the same connection.
Timeout ==
  /\ cl.at = "wait" /\ ~ReplyIsComplete /\ peer.wire = <<>> /\ ~peer.closed
  /\ IF cl.kind = "rpc"
     THEN cl' = [cl EXCEPT !.at = "idle", !.late = TRUE] /\ UNCHANGED <<net, peer>>
     ELSE Return(FALSE, <<>>)

-----------------------------------------------------------------------------
\* The peer answers requests in order, piece by piece.
Answer ==
  /\ cl.connected /\ ~peer.closed /\ peer.todo # <<>>
  /\ LET i == peer.sent + 1 IN
     peer' = [peer EXCEPT !.wire = Append(@, <<Head(peer.todo), i>>), !.sent = i % Pieces,
                          !.todo = IF i = Pieces THEN Tail(@) ELSE @,
                          !.closed = i = Pieces /\ cl.kind # "rpc"]
  /\ UNCHANGED <<cl, net>>

\* It fails or closes the connection, perhaps within a reply.
PeerCloses ==
  /\ cl.connected /\ ~peer.closed
  /\ peer' = [peer EXCEPT !.closed = TRUE, !.cut = TRUE]
  /\ UNCHANGED <<cl, net>>

Client ==
  \/ Connected \/ ConnectFails \/ SendMessage \/ ReadMoreData \/ Parse \/ Timeout
  \/ SecureConnectFails \/ SecureSendMessage \/ Retry \/ SecureReadFails
Next == EstablishConnection \/ StartCall \/ CallerCloses \/ Client \/ Answer \/ PeerCloses

\* A call goes on; nothing is assumed of its callers or of the peer.
Spec == Init /\ [][Next]_vars /\ WF_vars(Client)

-----------------------------------------------------------------------------
\* A call that succeeds returns the reply to its own request, unless a call on
\* the same connection had timed out before: its late reply comes first.
ReplyMatches ==
  cl.result.ok /\ ~cl.late => \A i \in DOMAIN cl.result.reply : cl.result.reply[i][1] = cl.call

\* A reply returned is whole and in order, unless the peer closed the connection
\* within it, which only an RPC notices, or it was longer than max_reply_size_.
WholeReply ==
  cl.result.ok /\ ~cl.late =>
    \/ [i \in DOMAIN cl.result.reply |-> cl.result.reply[i][2]] = [i \in 1..Pieces |-> i]
    \/ cl.kind # "rpc" /\ (cl.cut \/ Pieces > MaxReply)

\* The socket of a connection that was made is closed before the next one: only
\* those that could not be connected leak, and none of SSLClient.
SocketsClosed ==
  \A s \in net.open \ {cl.socket} : s \in net.failed /\ cl.kind # "https"

\* A call ends, whatever the peer does; not one of SSLClient, whose BIO_read()
\* may block after select().
CallsEnd == cl.kind # "https" /\ cl.at # "idle" ~> cl.at = "idle"
=============================================================================
