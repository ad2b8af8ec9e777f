--------------------------- MODULE ServerMethods ---------------------------
(***************************************************************************)
(* The methods of an RPC server: how they are registered and found, what   *)
(* a method object knows of its request, methods that call methods by type *)
(* or by name or forward the call to another server, mocks, and the reply. *)
(* A browser with several tabs asks, and keeps the cookies it is given.    *)
(*                                                                         *)
(* A cookie text is a sequence of tokens: names, "=", values and ";".      *)
(***************************************************************************)
EXTENDS Integers, Sequences, FiniteSets, SequencesExt, FiniteSetsExt

CONSTANTS
  Names,         \* the names of this server, in the order of Initialize()
  Registrations, \* sequence of <<server, name, handler>>
  Fold,          \* of each name, the name without its case
  Handlers,      \* of each handler: kind, mock, calls and target
  Ops,           \* the names asked for
  Protocols,     \* subset of {"json", "rpc", "_rpc"}
  ArgSets,       \* sets of CGI arguments
  Tabs,
  Sid,           \* sequence of session ids that may be generated
  MaxAsked       \* bound: requests

VARIABLES
  methods,     \* method_collection_: of each name without case, its handler
  all_methods, \* the static of GetMethod(), <<>> until its first call
  jar,         \* the cookies of the browser
  call,        \* of each tab, its request and what became of it
  made,        \* session ids generated
  asked        \* requests

vars == <<methods, all_methods, jar, call, made, asked>>

-----------------------------------------------------------------------------
\* Register(): into the collection of a server; a name that is there, in
\* whatever case, fails an assertion.
Register(colls, r) ==
  LET c == colls[r[1]] IN
  IF Fold[r[2]] \in DOMAIN c THEN Assert(FALSE, "Duplicate handler op-name")
  ELSE [colls EXCEPT ![r[1]] = [n \in DOMAIN c \cup {Fold[r[2]]} |->
                                  IF n \in DOMAIN c THEN c[n] ELSE r[3]]]

Collections ==
  FoldLeft(Register, [s \in ToSet(Names) \cup {r[1] : r \in ToSet(Registrations)} \cup {"all"} |-> <<>>],
           Registrations)

\* insert() of a map: what is there stays.
AddCollection(c, d) ==
  [n \in DOMAIN c \cup DOMAIN d |-> IF n \in DOMAIN c THEN c[n] ELSE d[n]]

\* Initialize(): the names of the server and "all".
Initialize == FoldLeft(LAMBDA c, s : AddCollection(c, Collections[s]), <<>>, Append(Names, "all"))

\* GetMethod(): the collections of all servers, in the order of a hash table.
AllMethods ==
  {FoldLeft(LAMBDA c, s : AddCollection(c, Collections[s]), <<>>, order) :
     order \in SetToSeqs(DOMAIN Collections)}

NoCall == [at |-> "idle"]

Init ==
  /\ methods = Initialize /\ all_methods = <<>>
  /\ jar = <<>> /\ call = [t \in Tabs |-> NoCall]
  /\ made = 0 /\ asked = 0

-----------------------------------------------------------------------------
\* ParseInputCookie(): names and values up to a text without "=".
ParseCookie(text) ==
  LET Parse[s \in {SubSeq(text, i, Len(text)) : i \in 1 .. Len(text) + 1}] ==
        LET equal == Min({i \in DOMAIN s : s[i] = "="} \cup {Len(s) + 1})
            end == Min({i \in DOMAIN s : i > equal /\ s[i] = ";"} \cup {Len(s) + 1})
            more == Parse[SubSeq(s, end + 1, Len(s))]
            name == SubSeq(s, 1, equal - 1)
        IN  IF equal > Len(s) THEN <<>>
            ELSE [n \in DOMAIN more \cup {name} |->
                    IF n \in DOMAIN more THEN more[n] ELSE SubSeq(s, equal + 1, end - 1)]
  IN  Parse[text]

SessionOf(input) == IF <<"sid">> \in DOMAIN input THEN input[<<"sid">>] ELSE <<>>

SessionCookie(id) == <<"sid", "=", id>>

Join(a, b) == IF a = <<>> THEN b ELSE a \o <<";">> \o b

\* Mutant of GetServerMethod: the text of the cookies does not get the session.
GetServerMethod_Text(req, id) ==
  LET input == ParseCookie(req.cookie)
      new == SessionOf(input) = <<>>
  IN  [input |-> [n \in DOMAIN input \cup {<<"sid">>} |-> IF new /\ n = <<"sid">> THEN <<id>> ELSE input[n]],
       cookie |-> req.cookie, out |-> IF new THEN {SessionCookie(id)} ELSE {},
       args |-> req.args]

\* The method object of a request: without a session it makes one, for itself
\* and for the browser.
GetServerMethod(req, id) ==
  LET input == ParseCookie(req.cookie)
      new == SessionOf(input) = <<>>
  IN  [input |-> [n \in DOMAIN input \cup {<<"sid">>} |-> IF new /\ n = <<"sid">> THEN <<id>> ELSE input[n]],
       cookie |-> IF new THEN Join(req.cookie, SessionCookie(id)) ELSE req.cookie,
       out |-> IF new THEN {SessionCookie(id)} ELSE {},
       args |-> req.args]

\* Cascade(): the text of the cookies is not passed on.
Cascade(m) == [m EXCEPT !.cookie = <<>>, !.out = {}]

\* The body of a method that calls no other: it may fail, and set a cookie.
Ran(h, m, route) == [h |-> h, session |-> SessionOf(m.input), route |-> route]
Leaf(h, m, route) ==
  {[err |-> e, out |-> m.out \cup c, ran |-> {Ran(h, m, route)}] :
     e \in BOOLEAN, c \in {{}, {<<"c", "=", h>>}}}

\* ServerMethodForward: an RPC with the text of the cookies and nothing else;
\* of the cookies of a reply the first is kept, and "" is one of them.
Forward(h, m, id, route) ==
  LET remote == GetServerMethod([cookie |-> m.cookie, args |-> {}], id)
      Kept(out) == IF out = {} THEN {<<>>} ELSE out
  IN  {[err |-> TRUE, out |-> m.out \cup {<<>>}, ran |-> {Ran(h, m, route)}]} \cup
      UNION {{[err |-> r.err, ran |-> r.ran \cup {Ran(h, m, route)},
               out |-> m.out \cup {IF r.err THEN <<>> ELSE c}] : c \in Kept(r.out)} :
             r \in Leaf(Handlers[h].target, remote, route \o <<"remote">>)}

Body1(h, m, id, route) ==
  IF Handlers[h].calls = "remote" THEN Forward(h, m, id, route) ELSE Leaf(h, m, route)

\* ParseMock() and TryRunMock(): for its name or for all; a method that has
\* none, or whose mock does not know the type, runs itself.  The mock runs on a
\* copy, whose cookies are lost.
RunServerMethod(h, m, body) ==
  (IF "mock" \in m.args /\ Handlers[h].mock
   THEN {[err |-> e, out |-> m.out, ran |-> {}] : e \in BOOLEAN} ELSE {}) \cup body

\* A body that calls another method, which calls no third: one of a type, whose
\* cookies it may pass on, or one of a name, whose cookies are lost.  A method of
\* the new kind that is called by name does nothing.
Body2(h, m, id, table) ==
  LET inner == Cascade(m)
      name == Handlers[h].target
      named == table[Fold[name]]
      nested == CASE Handlers[h].calls = "type" -> Body1(name, inner, id, <<"type">>)
                  [] Handlers[named].kind = 2 -> {[err |-> FALSE, out |-> {}, ran |-> {}]}
                  [] OTHER -> RunServerMethod(named, inner, Body1(named, inner, id, <<"name">>))
  IN  IF Handlers[h].calls \notin {"type", "name"} THEN Body1(h, m, id, <<>>)
      ELSE {[err |-> r.err, ran |-> r.ran \cup {Ran(h, m, <<>>)},
             out |-> m.out \cup (IF Handlers[h].calls = "type" /\ pass THEN r.out ELSE {})] :
              r \in nested, pass \in BOOLEAN}

-----------------------------------------------------------------------------
\* The texts of the cookies of the browser, and MergeMetaData(): the text of the
\* header goes before the other one, as it is.
CookieText == FoldSet(LAMBDA n, text : Join(text, n \o <<"=">> \o jar[n]), <<>>, DOMAIN jar)

MergeMetaData(own, header) == header \o own

\* A tab asks: as a browser, or a program with the cookies in the message, in
\* the header of the HTTP request around it, or in both.
Ask(t) ==
  /\ call[t].at = "idle" /\ asked < MaxAsked
  /\ \E p \in Protocols, op \in Ops, args \in ArgSets, own \in BOOLEAN, header \in BOOLEAN :
       /\ p # "_rpc" => header = (p = "json") /\ own = (p = "rpc")
       /\ call' = [call EXCEPT ![t] =
            [at |-> "asked", protocol |-> p, op |-> op, had |-> IF own \/ header THEN jar ELSE <<>>, own |-> own, header |-> header,
             req |-> [cookie |-> MergeMetaData(IF own THEN CookieText ELSE <<>>,
                                               IF header THEN CookieText ELSE <<>>),
                      args |-> args]]]
  /\ asked' = asked + 1
  /\ UNCHANGED <<methods, all_methods, jar, made>>

Reply(t, success, out, ran, err) ==
  call' = [call EXCEPT ![t] = [at |-> "replied", protocol |-> @.protocol, had |-> @.had, req |-> @.req,
                               op |-> @.op, both |-> @.own /\ @.header, success |-> success, out |-> out,
                               ran |-> ran, err |-> err]]

\* ProcessRequest() before the method: a file of that name, arguments that
\* cannot be parsed, no input, or an error that was asked for.
Refuse(t) ==
  /\ call[t].at = "asked"
  /\ \/ Fold[call[t].op] \notin DOMAIN methods
     \/ /\ call[t].protocol = "json"
        /\ \/ call[t].req.args \cap {"bad", "e"} # {}
           \/ call[t].req.args \cap {"q", "no_input"} = {}
  /\ Reply(t, FALSE, {}, {}, TRUE)
  /\ UNCHANGED <<methods, all_methods, jar, made, asked>>

Accepted(t) ==
  /\ call[t].at = "asked" /\ Fold[call[t].op] \in DOMAIN methods
  /\ call[t].protocol = "json" =>
       call[t].req.args \cap {"bad", "e"} = {} /\ call[t].req.args \cap {"q", "no_input"} # {}

\* ProcessJSON() and ProcessRPC() of both handlers: the input is parsed, the
\* method runs, and its error is the reply, but for the JSON of the new kind,
\* which goes on and replies with the output.
Process(t) ==
  LET c == call[t]
      h == methods[Fold[c.op]]
      m == GetServerMethod(c.req, Sid[made + 1])
      new == {[err |-> e, out |-> cookies, ran |-> {}] : e \in BOOLEAN, cookies \in {{}, {<<"c", "=", h>>}}}
      Old(table) == RunServerMethod(h, m, Body2(h, m, Sid[made + 2], table))
      fails == c.protocol = "json" /\ "q" \notin c.req.args
  IN
  /\ Accepted(t) /\ made + 2 <= Len(Sid)
  /\ made' = made + 2
  /\ IF fails THEN Reply(t, FALSE, {}, {}, TRUE) /\ UNCHANGED all_methods
     ELSE \E table \in (IF all_methods # <<>> THEN {all_methods}
                        ELSE IF Handlers[h].calls = "name" THEN AllMethods ELSE {<<>>}) :
            /\ all_methods' = table
            /\ \E r \in (IF Handlers[h].kind = 2 THEN new ELSE Old(table)) :
                 Reply(t, ~r.err \/ (Handlers[h].kind = 2 /\ c.protocol = "json"), r.out, r.ran, r.err)
  /\ UNCHANGED <<methods, jar, asked>>

\* The reply arrives: all cookies in the header of an HTTP reply, unless none
\* was wanted, or the first of those of a successful RPC.
Receive(t) ==
  LET c == call[t]
      cookies == {x \in c.out : x # <<>>}
      Set(S) == [n \in DOMAIN jar \cup {<<x[1]>> : x \in S} |->
                   IF \E x \in S : <<x[1]>> = n
                   THEN <<(CHOOSE x \in S : <<x[1]>> = n)[3]>> ELSE jar[n]]
  IN
  /\ c.at = "replied"
  /\ \/ c.protocol = "json" /\ jar' = (IF "header" \in c.req.args THEN jar ELSE Set(cookies))
     \/ /\ c.protocol # "json"
        /\ \E x \in (IF ~c.success \/ c.out = {} THEN {<<>>} ELSE c.out) :
             jar' = IF x = <<>> THEN jar ELSE Set({x})
  /\ call' = [call EXCEPT ![t] = NoCall]
  /\ UNCHANGED <<methods, all_methods, made, asked>>

TabStep(t) == Ask(t) \/ Refuse(t) \/ Process(t) \/ Receive(t)
Next == \E t \in Tabs : TabStep(t)
Spec == Init /\ [][Next]_vars

-----------------------------------------------------------------------------
\* The method that runs for a name is the one that the first of the server's
\* names has for it, or else that of "all" (Initialize).
OwnMethods ==
  \A n \in DOMAIN methods :
    LET order == Append(Names, "all")
        first == Min({i \in DOMAIN order : n \in DOMAIN Collections[order[i]]})
    IN  methods[n] = Collections[order[first]][n]

\* All methods that run for a request see one session, the one of the browser
\* if it sent one; not those that a method called by name forwards, which get no
\* cookies, nor when the texts of two cookies were joined without a ";".
OneSession ==
  \A t \in Tabs : call[t].at = "replied" /\ ~call[t].both =>
    \A r \in call[t].ran : r.route # <<"name", "remote">> =>
      /\ r.session # <<>>
      /\ SessionOf(call[t].had) # <<>> => r.session = SessionOf(call[t].had)
      /\ \A q \in call[t].ran : q.route # <<"name", "remote">> => q.session = r.session

\* A browser keeps its session: only a reply to a request that was sent without
\* one replaces it.
SessionKept ==
  SessionOf(jar) # <<>> /\ SessionOf(jar') # SessionOf(jar) =>
    \E t \in Tabs : call[t].at = "replied" /\ (SessionOf(call[t].had) = <<>> \/ call[t].both)

\* A success is reported for a method without an error, but for the new kind.
Reported ==
  \A t \in Tabs : call[t].at = "replied" /\ call[t].success /\ call[t].err =>
    Handlers[methods[Fold[call[t].op]]].kind = 2 /\ call[t].protocol = "json"
=============================================================================
