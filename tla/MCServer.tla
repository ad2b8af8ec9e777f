------------------------------ MODULE MCServer ------------------------------
(***************************************************************************)
(* The network server with two clients, the cached HTTP client with two    *)
(* threads, the text of HTTP on one connection, and the methods of a       *)
(* server with a browser, of which one runs in a behaviour.                *)
(***************************************************************************)
EXTENDS RPCServer

Q(verb, url, args, cookie, alive, gzip, sized, newline) ==
  [verb |-> verb, url |-> url, args |-> args, cookie |-> cookie, alive |-> alive, gzip |-> gzip,
   sized |-> sized, newline |-> newline]
Unix == <<"N">>
Dos == <<"R", "N">>
Args2 == <<<<<<"a">>, <<"x", "&", "y">>>>, <<<<"b">>, <<" ", "%">>>>>>
Q1 == Q("POST", <<"/", "m">>, Args2, <<"s", "=", "1">>, TRUE, TRUE, TRUE, Dos)
Q2 == Q("GET", <<"/", "m">>, Args2, <<>>, TRUE, FALSE, FALSE, Unix)
Q3 == Q("POST", <<"/", "m">>, <<>>, <<>>, FALSE, FALSE, TRUE, Dos)
Q4 == Q("GET", <<"/">>, <<>>, <<"s", "=", "1">>, FALSE, TRUE, FALSE, Dos)
Scripts == {<<Q1, Q2>>, <<Q2, Q3>>, <<Q4>>}
Answers ==
  {[code |-> "200", content |-> <<"x", "N", "N", "y">>, cookies |-> <<<<"c", "=", "1">>, <<"d">>>>],
   [code |-> "200", content |-> <<>>, cookies |-> <<>>], [code |-> "404", content |-> <<>>, cookies |-> <<>>]}

H(kind, mock, calls, target) == [kind |-> kind, mock |-> mock, calls |-> calls, target |-> target]
Handlers ==
  [leaf |-> H(1, TRUE, "none", ""), typed |-> H(1, FALSE, "type", "leaf"),
   named |-> H(1, FALSE, "name", "Go"), fwd |-> H(1, FALSE, "remote", "leaf"),
   new |-> H(2, FALSE, "none", ""), other |-> H(1, FALSE, "none", "")]
Fold == [n \in {"Leaf", "Go", "go", "typed", "named", "new"} |->
           CASE n = "Leaf" -> "leaf" [] n = "Go" -> "go" [] OTHER -> n]
Registrations ==
  <<<<"a", "Leaf", "leaf">>, <<"a", "go", "fwd">>, <<"b", "Go", "other">>, <<"b", "typed", "typed">>,
    <<"all", "named", "named">>, <<"all", "new", "new">>>>

VARIABLES which, h_cache, h_entry, h_call, h_now, x_script, x_eager,
          x_proxied, x_sent, x_wire, x_request, x_open, x_handled, x_answered,
          x_results, m_methods, m_all_methods, m_jar, m_call, m_made, m_asked   \* which: the component that runs

Http == INSTANCE CachedHttp WITH
  cache <- h_cache, entry <- h_entry, call <- h_call, now <- h_now,
  Threads <- {"t1", "t2"}, Keys <- {"k1", "k2"}, CacheSize <- 1,
  Lifetime <- 1, Timeout <- 1, MaxNow <- 2, MaxEntries <- 3

Exchange == INSTANCE HttpMessages WITH
  script <- x_script, eager <- x_eager, proxied <- x_proxied, sent <- x_sent,
  wire <- x_wire, request <- x_request, open <- x_open, handled <- x_handled,
  answered <- x_answered, results <- x_results, Scripts <- Scripts,
  Answers <- Answers, Large <- 3

Methods == INSTANCE ServerMethods WITH
  methods <- m_methods, all_methods <- m_all_methods, jar <- m_jar,
  call <- m_call, made <- m_made, asked <- m_asked, Names <- <<"a", "b">>,
  Registrations <- Registrations, Fold <- Fold, Handlers <- Handlers,
  Ops <- {"Go", "typed", "named", "new"}, Protocols <- {"json", "_rpc"},
  ArgSets <- {{"q", "mock"}, {"no_input", "header"}}, Tabs <- {1, 2},
  Sid <- <<"s1", "s2", "s3", "s4">>, MaxAsked <- 2

ServerVars == <<srv, main, conn, usage>>
HttpVars == <<h_cache, h_entry, h_call, h_now>>
ExchangeVars == <<x_script, x_eager, x_proxied, x_sent, x_wire, x_request,
                  x_open, x_handled, x_answered, x_results>>
MethodsVars == <<m_methods, m_all_methods, m_jar, m_call, m_made, m_asked>>

allVars == <<which, ServerVars, HttpVars, ExchangeVars, MethodsVars>>

AllInit ==
  /\ which \in {"server", "http", "exchange", "methods"}
  /\ Init
  /\ which # "server" => srv.max_connections = 1 /\ srv.pooled
  /\ Http!Init
  /\ IF which = "exchange" THEN Exchange!Init
     ELSE x_script = 0 /\ x_eager = 0 /\ x_proxied = 0 /\ x_sent = 0 /\ x_wire = 0 /\ x_request = 0 /\ x_open = 0 /\ x_handled = 0 /\ x_answered = 0 /\ x_results = 0
  /\ IF which = "methods" THEN Methods!Init
     ELSE m_methods = 0 /\ m_all_methods = 0 /\ m_jar = 0 /\ m_call = 0 /\ m_made = 0 /\ m_asked = 0

AllNext ==
  /\ UNCHANGED which
  /\ \/ /\ which = "server" /\ Next
        /\ UNCHANGED <<HttpVars, ExchangeVars, MethodsVars>>
     \/ /\ which = "http" /\ (Http!Next \/ UNCHANGED HttpVars)
        /\ UNCHANGED <<ServerVars, ExchangeVars, MethodsVars>>
     \/ /\ which = "exchange" /\ (Exchange!Next \/ UNCHANGED ExchangeVars)
        /\ UNCHANGED <<ServerVars, HttpVars, MethodsVars>>
     \/ /\ which = "methods" /\ (Methods!Next \/ UNCHANGED MethodsVars)
        /\ UNCHANGED <<ServerVars, HttpVars, ExchangeVars>>

\* The fairness of each component, when it is the one that runs.
AllFairness ==
  /\ WF_ServerVars(which = "server" /\ MainStep)
  /\ WF_ServerVars(which = "server" /\ (srv.sigterm = "closing" /\ Sigterm))
  /\ \A c \in Clients : WF_ServerVars(which = "server" /\ ConnStep(c))
  /\ \A c \in Clients : WF_ServerVars(which = "server" /\ (srv.pooled /\ MethodReturns(c)))
  /\ \A t \in {"t1", "t2"} : WF_HttpVars(which = "http" /\ Http!InCall(t))

AllSpec == AllInit /\ [][AllNext]_allVars /\ AllFairness

-----------------------------------------------------------------------------
\* A thread that is told of a success has a reply that was stored before it
\* looked and is within its lifetime; a failed entry is found by no call after
\* its owner has returned; and a thread that waits for the request of another
\* returns, also when that request never ends (cached_httpclient.h).
HttpRepliesShared ==
  [](Http!TypeOK /\ Http!RepliesStored /\ Http!NoFailureCached /\
    Http!FreshReply) /\ Http!PollsEnd

\* However the text of requests is cut in pieces, each reaches its handler as
\* it was meant, and no piece of one is taken for another; one that has arrived
\* is answered, unless the client did not wait for the reply before it; and the
\* client gets the code, the content and the cookies of the answer, compressed,
\* in chunks or neither (webserver.cc, httputil.cc, netserver.cc).
ExchangeExact ==
  which = "exchange" => (Exchange!Framed /\ Exchange!Answered /\
    Exchange!Returned)

\* The method that runs for a name is the one of the first of the servers names
\* that has it; all methods that run for a request see one session, the one
\* that was sent, and a browser keeps it; and a success is not an error, but
\* for the JSON of the new kind of handler (server_method_handler.h,
\* server_method.cc, rpcserver.cc).
MethodsServed ==
  [](which = "methods" => Methods!OwnMethods /\ Methods!OneSession /\
    Methods!Reported) /\ [][which = "methods" =>
    Methods!SessionKept]_MethodsVars
=============================================================================
