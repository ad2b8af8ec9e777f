---------------------------- MODULE HttpMessages ----------------------------
(***************************************************************************)
(* HTTP on one connection: a client writes requests, NetServer reads them  *)
(* in pieces, WebServer finds their end and takes them apart, a handler    *)
(* answers, and HttpUtil takes the reply apart, which a proxy may have     *)
(* sent on in chunks.                                                      *)
(*                                                                         *)
(* Text is a sequence of tokens: a word is one of them, and so is each     *)
(* character that means something: "N" and "R" are \n and \r.              *)
(***************************************************************************)
EXTENDS Integers, Sequences, FiniteSetsExt, SequencesExt

CONSTANTS
  Scripts,   \* sequences of requests that a client may send
  Answers,   \* what a handler may answer: code, content and cookies
  Large      \* the size from which content is compressed (1024 bytes)

VARIABLES
  script,    \* what the client sends
  eager,     \* it does not wait for a reply before the next request
  proxied,   \* the proxy uses chunks
  sent,      \* the number of requests written
  wire,      \* text on its way to the server
  request,   \* what NewConnection() has read and not yet processed
  open,      \* the connection
  handled,   \* the requests that reached a handler
  answered,  \* what the handler returned
  results    \* what the client made of the replies

vars == <<script, eager, proxied, sent, wire, request, open, handled, answered, results>>

From(s, i) == SubSeq(s, i, Len(s))
Upto(s, i) == SubSeq(s, 1, i)
Concat(ss) == FoldLeft(LAMBDA acc, s : acc \o s, <<>>, ss)

\* The first place of a pattern (strstr), or 0.
Find(s, pat) ==
  LET at == {i \in 1 .. Len(s) - Len(pat) + 1 : SubSeq(s, i, i + Len(pat) - 1) = pat}
  IN  IF at = {} THEN 0 ELSE Min(at)

\* The first place whose token is in S, or the one behind the end.
Scan(s, S) == Min({i \in DOMAIN s : s[i] \in S} \cup {Len(s) + 1})

Blank == {" ", "N", "R"}

GetTrimmedString(s) ==
  LET text == {i \in DOMAIN s : s[i] \notin Blank}
  IN  IF text = {} THEN <<>> ELSE SubSeq(s, Min(text), Max(text))

\* A number as text, and atoi() or strtol() of one.
Numerals == <<"1", "2", "3", "4", "5", "6", "7", "8", "9", "10", "11", "12">>
Numeral(n) == IF n = 0 THEN "0" ELSE Numerals[n]
Number(t) == IF \E n \in DOMAIN Numerals : Numerals[n] = t
             THEN CHOOSE n \in DOMAIN Numerals : Numerals[n] = t ELSE 0

-----------------------------------------------------------------------------
\* CGI arguments: letters and digits stay, a space is "+", the rest is %nn.
Hex == [c \in {"=", "&", "#", "+", "%"} |->
          CASE c = "=" -> "3D" [] c = "&" -> "26" [] c = "#" -> "23" [] c = "+" -> "2B" [] c = "%" -> "25"]

EscapeString_CGI(s) ==
  Concat([i \in DOMAIN s |-> CASE s[i] = " " -> <<"+">>
                               [] s[i] \in DOMAIN Hex -> <<"%", Hex[s[i]]>>
                               [] OTHER -> <<s[i]>>])

\* "%" and what follows it is one character; a lone "%" is dropped.
UnescapeString_CGI(s) ==
  LET Char(i) == CHOOSE c \in DOMAIN Hex : Hex[c] = s[i]
      IsHex(i) == i \in DOMAIN s /\ \E c \in DOMAIN Hex : Hex[c] = s[i]
  IN  Concat([i \in DOMAIN s |->
                CASE s[i] = "%" -> IF IsHex(i + 1) THEN <<Char(i + 1)>> ELSE <<>>
                  [] s[i] = "+" -> <<" ">>
                  [] i > 1 /\ s[i - 1] = "%" /\ IsHex(i) -> <<>>
                  [] OTHER -> <<s[i]>>])

GenerateCGIString(args) ==
  Concat([i \in DOMAIN args |->
            (IF i > 1 THEN <<"&">> ELSE <<>>) \o EscapeString_CGI(args[i][1]) \o
            <<"=">> \o EscapeString_CGI(args[i][2])])

\* One argument after the other: a name that is empty or comes twice, or a "&"
\* before the "=", is an error, and so is what is left without one.
ParseCGIArguments(raw) ==
  LET s0 == Upto(raw, Scan(raw, {"#"}) - 1)
      text == From(s0, Min({i \in DOMAIN s0 : s0[i] \notin Blank} \cup {Len(s0) + 1}))
      Arg[s \in {From(text, i) : i \in 1 .. Len(text) + 1}] ==
        LET equal == Scan(s, {"="})
            amp == Scan(s, {"&"})
            name == Upto(s, equal - 1)
            value == UnescapeString_CGI(SubSeq(s, equal + 1, amp - 1))
            more == Arg[From(s, amp + 1)]
        IN  IF s = <<>> THEN [ok |-> TRUE, map |-> <<>>]
            ELSE IF equal > Len(s) \/ equal = 1 \/ amp < equal THEN [ok |-> FALSE, map |-> <<>>]
            ELSE [ok |-> more.ok /\ \A p \in ToSet(more.map) : p[1] # name,
                  map |-> <<<<name, value>>>> \o more.map]
  IN  Arg[text]

-----------------------------------------------------------------------------
\* HttpBase::Get() and Post(), and browsers: the text of a request.
Line(s, q) == s \o q.newline
RequestText(q) ==
  LET args == GenerateCGIString(q.args)
      body == IF q.verb = "POST" THEN args ELSE <<>>
      path == q.url \o (IF q.verb = "GET" /\ args # <<>> THEN <<"?">> \o args ELSE <<>>)
  IN  Line(<<q.verb, " ">> \o path \o <<" ", "HTTP/1.1">>, q)
      \o (IF q.gzip THEN Line(<<"Accept-Encoding", ":", " ", "gzip">>, q) ELSE <<>>)
      \o (IF q.verb = "POST" /\ q.sized
          THEN Line(<<"Content-Length", ":", " ", Numeral(Len(body))>>, q) ELSE <<>>)
      \o Line(<<"Connection", ":", " ", IF q.alive THEN "keep-alive" ELSE "Close">>, q)
      \o (IF q.cookie # <<>> THEN Line(<<"Cookie", ":", " ">> \o q.cookie, q) ELSE <<>>)
      \o q.newline \o body

\* The end of the header: two newlines of either kind, whichever come first.
HeaderLength(r) ==
  LET nn == Find(r, <<"N", "N">>)
      rnrn == Find(r, <<"R", "N", "R", "N">>)
  IN  IF nn = 0 /\ rnrn = 0 THEN 0
      ELSE IF rnrn = 0 \/ (nn # 0 /\ nn < rnrn) THEN nn + 1 ELSE rnrn + 3

\* The lines of a header but the first, and those with a ":" as keys and values.
Lines(text) ==
  LET ends == {i \in DOMAIN text : text[i] = "N"}
      LineAt(i) == SubSeq(text, i + 1, Min({j \in ends : j > i} \cup {Len(text) + 1}) - 1)
  IN  [n \in 1 .. Cardinality(ends) |->
         GetTrimmedString(LineAt(CHOOSE i \in ends : Cardinality({j \in ends : j <= i}) = n))]

HeaderLines(text) ==
  LET fields == SelectSeq(Lines(text), LAMBDA l : Find(l, <<":">>) # 0)
  IN  [n \in DOMAIN fields |->
         <<GetTrimmedString(Upto(fields[n], Find(fields[n], <<":">>) - 1)),
           GetTrimmedString(From(fields[n], Find(fields[n], <<":">>) + 1))>>]

\* The value that the last line with the key gives it.
Header(r, key) ==
  LET fields == HeaderLines(Upto(r, HeaderLength(r)))
      at == {n \in DOMAIN fields : fields[n][1] = <<key>>}
  IN  IF at = {} THEN <<>> ELSE fields[Max(at)][2]

IsPost(r) == r # <<>> /\ r[1] = "POST"

\* A request without a length has one byte of content.
ContentLength(r) ==
  LET cl == Find(Upto(r, HeaderLength(r)), <<"Content-Length", ":", " ">>)
  IN  IF cl = 0 THEN 1 ELSE Number(r[cl + 3])

\* Mutant of RequestSize: the content is left for the next request.
RequestSize_Header(r) == HeaderLength(r)

RequestSize(r) == HeaderLength(r) + (IF IsPost(r) THEN ContentLength(r) ELSE 0)

HttpRequestIsComplete(r) == HeaderLength(r) # 0 /\ Len(r) >= RequestSize(r)

\* What a complete request says.
ParseRequest(r) ==
  LET url_begin == Scan(r, Blank) + 1
      url_end == url_begin - 1 + Scan(From(r, url_begin), Blank \cup {"?"})
      rest == From(r, url_end + 1)
  IN  [post |-> IsPost(r),
       url |-> SubSeq(r, url_begin, url_end - 1),
       args |-> IF IsPost(r) THEN SubSeq(r, HeaderLength(r) + 1, RequestSize(r))
                ELSE IF r[url_end] = "?" THEN Upto(rest, Scan(rest, Blank) - 1) ELSE <<>>,
       cookie |-> Header(r, "Cookie"),
       gzip |-> Find(Header(r, "Accept-Encoding"), <<"gzip">>) # 0,
       alive |-> Find(Header(r, "Connection"), <<"keep-alive">>) # 0]

\* Compression, which is external, puts a mark before the content.
Compress(content) == <<"gz">> \o content

\* The pages of the other codes have their own content.
ConstructHttpResponse(a, gzip) ==
  LET content == IF a.code = "200" THEN a.content ELSE <<"page">>
      zip == gzip /\ Len(content) > Large
      body == IF zip THEN Compress(content) ELSE content
  IN  <<"HTTP/1.1", " ", a.code, "N">> \o
      Concat([i \in DOMAIN a.cookies |-> <<"Set-Cookie", ":", " ">> \o a.cookies[i] \o <<"N">>]) \o
      (IF zip THEN <<"Content-Encoding", ":", " ", "gzip", "N">> ELSE <<>>) \o
      <<"Content-length", ":", " ", Numeral(Len(body)), "N", "N">> \o body

-----------------------------------------------------------------------------
\* A proxy (external) that sends the reply on, its content in chunks of two.
Rechunk(reply) ==
  LET header == HeaderLength(reply)
      body == From(reply, header + 1)
      Chunk(i) == SubSeq(body, 2 * i - 1, Min({2 * i, Len(body)}))
  IN  Upto(reply, header - 1) \o <<"Transfer-Encoding", ":", " ", "chunked", "N", "N">> \o
      Concat([i \in 1 .. (Len(body) + 1) \div 2 |->
                <<Numeral(Len(Chunk(i))), " ", "R", "N">> \o Chunk(i) \o <<"R", "N">>]) \o
      <<"0", "R", "N", "R", "N">>

\* One newline, or an error.
SkipNewline(s) ==
  IF s # <<>> /\ s[1] = "N" THEN [ok |-> TRUE, rest |-> From(s, 2)]
  ELSE IF Len(s) > 1 /\ s[1] = "R" /\ s[2] = "N" THEN [ok |-> TRUE, rest |-> From(s, 3)]
  ELSE [ok |-> FALSE, rest |-> <<>>]

\* Chunks up to one of size zero; an error gives nothing at all.
ParseChunkedResponse(raw) ==
  LET Chunks[s \in {From(raw, i) : i \in 1 .. Len(raw) + 1}] ==
        LET size == IF s = <<>> THEN 0 ELSE Number(s[1])
            digits == From(s, 2)
            line == SkipNewline(From(digits, Min({i \in DOMAIN digits : digits[i] # " "} \cup
                                                 {Len(digits) + 1})))
            after == SkipNewline(From(line.rest, size + 1))
            more == Chunks[after.rest]
        IN  IF size = 0 THEN [ok |-> TRUE, text |-> <<>>]
            ELSE IF ~line.ok \/ size >= Len(line.rest) \/ ~after.ok THEN [ok |-> FALSE, text |-> <<>>]
            ELSE [ok |-> more.ok, text |-> Upto(line.rest, size) \o more.text]
      all == Chunks[raw]
  IN  IF all.ok THEN all.text ELSE <<>>

\* ParseHttpHeader(): line by line up to an empty one.
ReplyHeaderLength(r) ==
  LET After(i) == SkipNewline(From(r, i + 1))
      ends == {i \in DOMAIN r : r[i] = "N" /\ After(i).ok}
  IN  IF ends = {} THEN 0 ELSE Len(r) - Len(After(Min(ends)).rest)

\* The values of a key that comes again are joined by newlines, and a line
\* without one is an error; chunks are joined and then uncompressed.
ParseHttpResponse(reply) ==
  LET header == ReplyHeaderLength(reply)
      fields == HeaderLines(Upto(reply, header))
      Values(key) == SelectSeq(fields, LAMBDA f : f[1] = <<key>>)
      Value(key) == Concat([n \in DOMAIN Values(key) |->
                      (IF n > 1 THEN <<"N">> ELSE <<>>) \o Values(key)[n][2]])
      raw == From(reply, header + 1)
      whole == IF Find(Value("Transfer-Encoding"), <<"chunked">>) # 0
               THEN ParseChunkedResponse(raw) ELSE raw
      bad == \E l \in ToSet(Lines(Upto(reply, header))) : l # <<>> /\ Find(l, <<":">>) = 0
  IN  IF header = 0 \/ bad THEN [ok |-> FALSE]
      ELSE [ok |-> TRUE, code |-> reply[3], cookies |-> Value("Set-Cookie"),
            content |-> IF Find(Value("Content-Encoding"), <<"gzip">>) # 0 /\ whole # <<>>
                        THEN From(whole, 2) ELSE whole]

-----------------------------------------------------------------------------
Init ==
  /\ script \in Scripts /\ eager \in BOOLEAN /\ proxied \in BOOLEAN
  /\ sent = 0 /\ wire = <<>> /\ request = <<>> /\ open = TRUE
  /\ handled = <<>> /\ answered = <<>> /\ results = <<>>

Send ==
  /\ open /\ sent < Len(script) /\ (eager \/ Len(results) = sent)
  /\ sent' = sent + 1
  /\ wire' = wire \o RequestText(script[sent + 1])
  /\ UNCHANGED <<script, eager, proxied, request, open, handled, answered, results>>

\* ProcessRequest() of one request, and what its reply is taken for.
Process(r, last) ==
  \E a \in Answers :
    LET q == ParseRequest(r)
        reply == ConstructHttpResponse(a, q.gzip)
    IN  /\ handled' = Append(handled, q)
        /\ answered' = Append(answered, a)
        /\ results' = Append(results, ParseHttpResponse(IF proxied THEN Rechunk(reply) ELSE reply))
        /\ open' = (q.alive /\ ~last)

\* NewConnection(): some text is read, and the first request processed if it
\* has arrived; what follows it stays, to be looked at when more is read.
ReadMore ==
  /\ open /\ wire # <<>>
  /\ \E k \in 1 .. Len(wire) :
       LET r == request \o Upto(wire, k)
       IN  /\ wire' = From(wire, k + 1)
           /\ IF HttpRequestIsComplete(r)
              THEN Process(Upto(r, RequestSize(r)), FALSE) /\ request' = From(r, RequestSize(r) + 1)
              ELSE request' = r /\ UNCHANGED <<handled, answered, results, open>>
  /\ UNCHANGED <<script, eager, proxied, sent>>

\* The client closes its end: what is left is processed as one request.
ReadEnd ==
  /\ open /\ wire = <<>> /\ sent = Len(script)
  /\ IF HttpRequestIsComplete(request) THEN Process(request, TRUE)
     ELSE open' = FALSE /\ UNCHANGED <<handled, answered, results>>
  /\ request' = <<>>
  /\ UNCHANGED <<script, eager, proxied, sent, wire>>

Next == Send \/ ReadMore \/ ReadEnd
Spec == Init /\ [][Next]_vars

-----------------------------------------------------------------------------
\* Requests reach their handlers as they were meant, in order, however the text
\* was cut in pieces, and the pieces of one are never taken for another.
Framed ==
  \A i \in DOMAIN handled :
    /\ i <= sent
    /\ handled[i].url = script[i].url /\ handled[i].cookie = script[i].cookie
    /\ handled[i].post = (script[i].verb = "POST")
    /\ handled[i].alive = script[i].alive /\ handled[i].gzip = script[i].gzip
    /\ LET args == ParseCGIArguments(handled[i].args)
       IN  args.ok /\ ToSet(args.map) = ToSet(script[i].args)

\* To a client that waits for replies, every request that has arrived has been
\* answered; one that does not wait may have requests left in the buffer.
Answered == ~eager /\ wire = <<>> /\ open => Len(results) = sent

\* A client gets the code, the content and the cookies of the answer, whether
\* they were compressed, sent on in chunks, or neither.
Returned ==
  \A i \in DOMAIN results :
    /\ results[i].ok /\ results[i].code = answered[i].code
    /\ answered[i].code = "200" => results[i].content = answered[i].content
    /\ \A c \in ToSet(answered[i].cookies) : Find(results[i].cookies, c) # 0
=============================================================================
