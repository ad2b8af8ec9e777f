----------------------------- MODULE TimeDomain -----------------------------
(***************************************************************************)
(* TimeDomain: expressions of time domains with union, intersection and    *)
(* subtraction, and the search for the boundaries around a time.  Seconds  *)
(* are natural numbers; a TimePoint is the set of times that match it.     *)
(***************************************************************************)
EXTENDS Integers, FiniteSetsExt, SequencesExt

CONSTANTS
  Leaves,      \* TimeDomainSingle objects: [starts, len] or [starts, ends]
  MaxTime,     \* the times asked about are 0..MaxTime
  Iterations   \* 50, the limit of CheckTime()

VARIABLES tree, answer

vars == <<tree, answer>>

Past == -1000
Future == 1000
Finite(t) == t # Past /\ t # Future
Empty == [op |-> "empty"]
Ops == {"+", "*", "-"}
Node(o, a, b) == [op |-> o, a |-> a, b |-> b]
Leaf(l) == [op |-> "leaf", element |-> l]

-----------------------------------------------------------------------------
\* TimePoint::GetNext() and GetPrevious() of a set of times.
GetNext(S, t) == LET n == {s \in S : s >= t} IN IF n = {} THEN Future ELSE Min(n)
GetPrevious(S, t) == LET p == {s \in S : s <= t} IN IF p = {} THEN Past ELSE Max(p)

\* TimeDomainSingle: the end of the domain that starts at s.
DomainEnd(l, s) ==
  IF "len" \in DOMAIN l THEN s + l.len ELSE GetNext(l.ends, s + 1)

\* CheckTime() and CheckDomain() of the two formats.
CheckSingle(l, t) ==
  LET start == GetPrevious(l.starts, t)
      end == DomainEnd(l, start) IN
  IF start = Past \/ end = Future
  THEN [in |-> FALSE, prev |-> Past, next |-> GetNext(l.starts, t + 1)]
  ELSE IF t < end THEN [in |-> TRUE, prev |-> start, next |-> end]
  ELSE [in |-> FALSE, prev |-> end, next |-> GetNext(l.starts, t + 1)]

Earlier(x, y) == IF x < y THEN x ELSE y
Later(x, y) == IF x > y THEN x ELSE y

\* Inside both operands the union lasts to the later end, outside of both to the
\* earlier start; for the intersection it is the other way round.
Wide(x, y) == [prev |-> Earlier(x.prev, y.prev), next |-> Later(x.next, y.next)]
Narrow(x, y) == [prev |-> Later(x.prev, y.prev), next |-> Earlier(x.next, y.next)]

Bounds(isUnion, x, y) ==
  CASE x.in = y.in -> IF x.in = isUnion THEN Wide(x, y) ELSE Narrow(x, y)
    [] x.in = isUnion -> [prev |-> x.prev, next |-> x.next]
    [] OTHER -> [prev |-> y.prev, next |-> y.next]

\* a - b is a * ~b.
RECURSIVE CheckTime_Subtree(_, _)
CheckTime_Subtree(n, t) ==
  CASE n.op = "empty" -> [in |-> FALSE, prev |-> Past, next |-> Future]
    [] n.op = "leaf" -> CheckSingle(n.element, t)
    [] OTHER ->
       LET x == CheckTime_Subtree(n.a, t)
           y0 == CheckTime_Subtree(n.b, t)
           y == IF n.op = "-" THEN [y0 EXCEPT !.in = ~@] ELSE y0
           b == Bounds(n.op = "+", x, y) IN
       [in |-> IF n.op = "+" THEN x.in \/ y.in ELSE x.in /\ y.in,
        prev |-> b.prev, next |-> b.next]

\* The loops of CheckTime(): from trial to trial until the domain changes.
RECURSIVE PrevBoundary(_, _, _, _)
PrevBoundary(n, in, trial, i) ==
  IF ~Finite(trial) \/ i = Iterations THEN Past
  ELSE LET c == CheckTime_Subtree(n, trial - 1) IN
       IF c.in # in THEN trial ELSE PrevBoundary(n, in, c.prev, i + 1)

RECURSIVE NextBoundary(_, _, _, _)
NextBoundary(n, in, trial, i) ==
  IF ~Finite(trial) \/ i = Iterations THEN Future
  ELSE LET c == CheckTime_Subtree(n, trial) IN
       IF c.in # in THEN trial ELSE NextBoundary(n, in, c.next, i + 1)

\* A bug: inside of a domain the hint of the subtree is taken for its start.
CheckTime_Hint(n, t) ==
  LET c == CheckTime_Subtree(n, t) IN
  [in |-> c.in, prev |-> IF c.in THEN c.prev ELSE PrevBoundary(n, c.in, c.prev, 0),
   next |-> NextBoundary(n, c.in, c.next, 0)]

CheckTime(n, t) ==
  LET c == CheckTime_Subtree(n, t) IN
  [in |-> c.in, prev |-> PrevBoundary(n, c.in, c.prev, 0),
   next |-> NextBoundary(n, c.in, c.next, 0)]

\* GetNextDomain(): past the domain of t, if any; the asserts as conditions.
NoDomain == [found |-> FALSE, ok |-> TRUE]

Outside(n, t) == LET c == CheckTime(n, t) IN IF c.in THEN c.next ELSE t

Between(o, s) == [found |-> Finite(s.next), ok |-> s.in /\ ~o.in, start |-> o.next, end |-> s.next]
DomainAfter(n, o) == IF Finite(o.next) THEN Between(o, CheckTime(n, o.next)) ELSE NoDomain
DomainFrom(n, out) == IF Finite(out) THEN DomainAfter(n, CheckTime(n, out)) ELSE NoDomain
GetNextDomain(n, t) == DomainFrom(n, Outside(n, t))

ForwardIntoDomain(n, t) == LET c == CheckTime(n, t) IN IF c.in THEN t ELSE c.next

ReverseIntoDomain(n, t) == LET c == CheckTime(n, t) IN IF c.in THEN t ELSE c.prev - 1

-----------------------------------------------------------------------------
\* PrintSubTree() as tokens; a TimeDomainSingle is one token.
Tok(o) == <<[op |-> o]>>
Brackets(n, s) == Tok("[") \o s \o Tok("]")

RECURSIVE PrintSubTree(_)
PrintSubTree(n) ==
  CASE n.op = "empty" -> <<>>
    [] n.op = "leaf" -> <<n>>
    [] OTHER -> Brackets(n, PrintSubTree(n.a) \o Tok(n.op) \o PrintSubTree(n.b))

\* ParseExp(), ParseTerm() and ParseFactor(): the tree, empty on an error, and
\* the unparsed tokens.
TokenOp(s) == IF s = <<>> THEN "end" ELSE Head(s).op

RECURSIVE ParseRest(_, _, _), ParseFactor(_)
ParseTerm(s) == LET f == ParseFactor(s) IN ParseRest({"*"}, f.tree, f.rest)
ParseExp(s) == LET f == ParseTerm(s) IN ParseRest({"+", "-"}, f.tree, f.rest)

ParseRest(ops, first, s) ==
  IF first = Empty \/ TokenOp(s) \notin ops THEN [tree |-> first, rest |-> s]
  ELSE LET second == IF ops = {"*"} THEN ParseFactor(Tail(s)) ELSE ParseTerm(Tail(s)) IN
       IF second.tree = Empty THEN second
       ELSE ParseRest(ops, Node(Head(s).op, first, second.tree), second.rest)

ParseFactor(s) ==
  CASE TokenOp(s) = "leaf" -> [tree |-> Head(s), rest |-> Tail(s)]
    [] TokenOp(s) = "[" ->
       LET e == ParseExp(Tail(s)) IN
       IF TokenOp(e.rest) = "]" THEN [tree |-> e.tree, rest |-> Tail(e.rest)]
       ELSE [tree |-> Empty, rest |-> e.rest]
    [] OTHER -> [tree |-> Empty, rest |-> s]

-----------------------------------------------------------------------------
Singles == {Leaf(l) : l \in Leaves}
Pairs == {Node(o, a, b) : o \in Ops, a \in Singles, b \in Singles}
Trees == {Empty} \cup Singles \cup Pairs
         \cup {Node(o, a, b) : o \in Ops, a \in Pairs, b \in Singles}
         \cup {Node(o, a, b) : o \in Ops, a \in Singles, b \in Pairs}

Init == tree \in Trees /\ answer = [q |-> "none"]

Ask == \E t \in 0..MaxTime :
  \/ answer' = [q |-> "check", t |-> t, r |-> CheckTime(tree, t)]
  \/ answer' = [q |-> "next", t |-> t, r |-> GetNextDomain(tree, t)]
  \/ answer' = [q |-> "into", t |-> t, r |-> <<ReverseIntoDomain(tree, t), ForwardIntoDomain(tree, t)>>]

\* CopyFrom(): the printed domain is parsed again.
CopyFrom == answer' = [q |-> "copy", r |-> ParseExp(PrintSubTree(tree)).tree]

Next == answer.q = "none" /\ (Ask \/ CopyFrom) /\ UNCHANGED tree
Spec == Init /\ [][Next]_vars

-----------------------------------------------------------------------------
\* The reference: a domain is a set of times.
RECURSIVE In(_, _)
In(n, t) ==
  CASE n.op = "empty" -> FALSE
    [] n.op = "leaf" -> \E s \in n.element.starts :
         s <= t /\ DomainEnd(n.element, s) # Future /\ t < DomainEnd(n.element, s)
    [] n.op = "+" -> In(n.a, t) \/ In(n.b, t)
    [] n.op = "*" -> In(n.a, t) /\ In(n.b, t)
    [] n.op = "-" -> In(n.a, t) /\ ~In(n.b, t)

Horizon == 0..2 * MaxTime + 1
NextChange(n, t) ==
  LET S == {b \in Horizon : b > t /\ In(n, b) # In(n, t)} IN IF S = {} THEN Future ELSE Min(S)
PrevChange(n, t) ==
  LET S == {b \in Horizon : b <= t /\ In(n, b - 1) # In(n, t)} IN IF S = {} THEN Past ELSE Max(S)

\* CheckTime() tells whether the time is in the set, and where the set changes
\* before and after it.
BoundariesExact == answer.q = "check" =>
  answer.r = [in |-> In(tree, answer.t), prev |-> PrevChange(tree, answer.t),
              next |-> NextChange(tree, answer.t)]

\* GetNextDomain() finds the first domain that starts after the time, whole, and
\* its asserts hold.
NextDomainExact == answer.q = "next" =>
  LET out == IF In(tree, answer.t) THEN NextChange(tree, answer.t) ELSE answer.t
      s == NextChange(tree, out) IN
  /\ answer.r.ok
  /\ answer.r.found =>
       /\ answer.r.start = s /\ answer.r.end = NextChange(tree, s)
       /\ \A t \in answer.r.start..answer.r.end - 1 : In(tree, t)
  /\ ~answer.r.found => out = Future \/ s = Future

\* ReverseIntoDomain() and ForwardIntoDomain() are the closest times in the set.
IntoDomain == answer.q = "into" =>
  /\ answer.r[2] = LET S == {t \in Horizon : t >= answer.t /\ In(tree, t)} IN IF S = {} THEN Future ELSE Min(S)
  /\ answer.r[1] = LET S == {t \in Horizon : t <= answer.t /\ In(tree, t)} IN IF S = {} THEN Past - 1 ELSE Max(S)

\* A copy, which is printed and parsed, is the same expression.
CopySame == answer.q = "copy" => answer.r = tree
=============================================================================
