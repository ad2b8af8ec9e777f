------------------------------- MODULE AStar -------------------------------
(***************************************************************************)
(* AStar and AStarTwoWay: searches for the path of the lowest cost from a  *)
(* source to a destination.  A search object is a record: the stored nodes *)
(* with their links to parents and f-values, the open heap, the closed     *)
(* list; ok is false once an ASSERT has failed.                            *)
(***************************************************************************)
EXTENDS Integers, SequencesExt, FiniteSetsExt, TLC

CONSTANTS
  Nodes,       \* the nodes of the graph, in the order in which they are expanded
  Edges,       \* pairs of nodes that may have an edge
  Costs,       \* costs of an edge, or None
  None,
  Src, Dst,
  Estimates,   \* values of the heuristics
  Modes,       \* "oneway", "twoway"
  Consistent   \* the heuristics is consistent, or only admissible

VARIABLES
  graph,   \* [cost, h, hr, strong]: edge costs, estimates, StrongDuplicate()
  fwd,     \* the search object, the forward one of a two-way search
  rev,     \* the reverse one
  run      \* [mode, at, plan, best]: the state of Search() and its result

vars == <<graph, fwd, rev, run>>

Far == 1000   \* no path
Weight(u, v) == IF <<u, v>> \in Edges /\ graph.cost[<<u, v>>] # None THEN graph.cost[<<u, v>>] ELSE Far

-----------------------------------------------------------------------------
(***************************************************************************)
(* NodeList, the open list of a search: a binary heap of nodes.  The heap  *)
(* is a sequence h of nodes, F the f-value of each; nodelist_index of a    *)
(* node is its place in h.                                                 *)
(***************************************************************************)
SwapWithParent(h, i) == [h EXCEPT ![i] = h[i \div 2], ![i \div 2] = h[i]]

RECURSIVE MoveUpItem(_, _, _)
MoveUpItem(h, F, i) ==
  IF i = 1 \/ F[h[i \div 2]] <= F[h[i]] THEN h
  ELSE MoveUpItem(SwapWithParent(h, i), F, i \div 2)

\* The child with the lower value, the left one of equals.
LowerChild(h, F, i) ==
  IF 2 * i + 1 \in DOMAIN h /\ F[h[2 * i + 1]] < F[h[2 * i]] THEN 2 * i + 1 ELSE 2 * i

RECURSIVE MoveDownItem(_, _, _)
MoveDownItem(h, F, i) ==
  IF 2 * i \notin DOMAIN h \/ F[h[i]] <= F[h[LowerChild(h, F, i)]] THEN h
  ELSE MoveDownItem(SwapWithParent(h, LowerChild(h, F, i)), F, LowerChild(h, F, i))

AddNode(h, F, n) == MoveUpItem(Append(h, n), F, Len(h) + 1)

AdjustItemLocation(h, F, i) ==
  IF i = 1 \/ F[h[i \div 2]] <= F[h[i]] THEN MoveDownItem(h, F, i) ELSE MoveUpItem(h, F, i)

\* The last node takes the place of the removed one.
RemoveItem(h, F, i) ==
  LET g == Front([h EXCEPT ![i] = Last(h)]) IN
  IF i \in DOMAIN g THEN AdjustItemLocation(g, F, i) ELSE g

InList(h, n) == n \in Range(h)
AdjustPosition(h, F, n) == AdjustItemLocation(h, F, CHOOSE i \in DOMAIN h : h[i] = n)

IsHeap(h, F) == \A i \in DOMAIN h : i > 1 => F[h[i \div 2]] <= F[h[i]]

-----------------------------------------------------------------------------
\* A reference: the costs of the best paths from a node, by rounds over all edges.
CostsFrom(v) ==
  LET Round(d) == [u \in Range(Nodes) |-> Min({d[u]} \cup {d[w] + Weight(w, u) : w \in Range(Nodes)})] IN
  FoldLeft(LAMBDA d, n : Round(d), [u \in Range(Nodes) |-> IF u = v THEN 0 ELSE Far], Tail(Nodes))
Shortest == CostsFrom(Src)[Dst]

-----------------------------------------------------------------------------
\* tAStarNode::CumulativeCost()
CumulativeCost(e) == IF e.links = <<>> THEN 0 ELSE e.links[1].cum
FValues(s) == [n \in DOMAIN s.store |-> s.store[n].f]
NewSearch == [store |-> [n \in {} |-> 0], open |-> <<>>, closed |-> <<>>, ok |-> TRUE]

\* The links of a node that is found again: the primary one is the cheapest.
Merged(d, e, better, strong) ==
  LET new == e.links[1] IN
  CASE better /\ strong -> [d EXCEPT !.links[1] = new, !.f = e.f, !.conn = e.conn]
    [] better /\ ~strong -> [d EXCEPT !.links = <<new>> \o Tail(@) \o <<Head(@)>>, !.f = e.f]
    [] ~better /\ ~strong -> [d EXCEPT !.links = Append(@, new)]
    [] OTHER -> d

Reopen(s, n) == [s EXCEPT !.open = AdjustPosition(@, FValues(s), n)]

RegisterNode(s, n, e) ==
  LET d == s.store[n]
      better == CumulativeCost(e) < CumulativeCost(d)
      t == [s EXCEPT !.store[n] = Merged(d, e, better, graph.strong)] IN
  CASE ~s.ok -> s
    [] n \notin DOMAIN s.store ->
         LET t0 == [s EXCEPT !.store = n :> e @@ @] IN
         [t0 EXCEPT !.open = AddNode(@, FValues(t0), n)]
    [] e.links = <<>> \/ (~graph.strong /\ e.conn)
       \/ (better /\ (d.links = <<>> \/ ~InList(s.open, n))) -> [s EXCEPT !.ok = FALSE]
    [] OTHER -> IF better THEN Reopen(t, n) ELSE t

AddSrcNode(s, n) == RegisterNode(s, n, [links |-> <<>>, f |-> 0, conn |-> FALSE])

MoveFirstOpenNodeToClosedList(s) ==
  [s EXCEPT !.closed = Append(@, Head(s.open)), !.open = RemoveItem(@, FValues(s), 1)]

\* The candidates of ExpandNode(), and of ExpandNode_Reverse() against the edges.
Candidates(u, reverse) ==
  SelectSeq(Nodes, LAMBDA v : (IF reverse THEN Weight(v, u) ELSE Weight(u, v)) < Far)
EdgeCost(u, v, reverse) == IF reverse THEN Weight(v, u) ELSE Weight(u, v)

ExpandNode(s, u, reverse) ==
  LET g == CumulativeCost(s.store[u])
      Child(v) == LET c == EdgeCost(u, v, reverse) IN
        [links |-> <<[parent |-> u, cost |-> c, cum |-> g + c]>>,
         f |-> g + c + (IF reverse THEN graph.hr[v] ELSE graph.h[v]), conn |-> FALSE] IN
  FoldLeft(LAMBDA t, v : RegisterNode(t, v, Child(v)),
           MoveFirstOpenNodeToClosedList(s), Candidates(u, reverse))

\* TracePlanFromNode(): the nodes from a root, each with the cost of its edge.
RECURSIVE TracePlanFromNode(_, _)
TracePlanFromNode(s, n) ==
  LET l == s.store[n].links IN
  IF l = <<>> THEN <<[node |-> n, cost |-> 0]>>
  ELSE Append(TracePlanFromNode(s, l[1].parent), [node |-> n, cost |-> l[1].cost])

PlanCost(p) == FoldLeft(LAMBDA c, step : c + step.cost, 0, p)

-----------------------------------------------------------------------------
\* Heuristics: never above the rest of the cost; consistent if no edge is
\* cheaper than what the estimate falls by.
Admissible(h) == h[Dst] = 0 /\ \A u \in Range(Nodes) : h[u] <= CostsFrom(u)[Dst]
IsConsistent(h) == h[Dst] = 0 /\ \A e \in Edges : h[e[1]] <= Weight(e[1], e[2]) + h[e[2]]

Init ==
  /\ \E cost \in [Edges -> Costs \cup {None}], h \in [Range(Nodes) -> Estimates], strong \in BOOLEAN :
       graph = [cost |-> cost, h |-> h, hr |-> [n \in Range(Nodes) |-> 0], strong |-> strong]
  /\ IF Consistent THEN IsConsistent(graph.h) ELSE Admissible(graph.h)
  /\ fwd = AddSrcNode(NewSearch, Src)
  /\ run \in [mode : Modes, at : {"searching"}, plan : {<<>>}, best : {-1}]
  /\ run.mode = "twoway" => graph.strong /\ graph.h = graph.hr
  /\ rev = IF run.mode = "twoway" THEN AddSrcNode(NewSearch, Dst) ELSE NewSearch

Done(plan, best) == run' = [run EXCEPT !.at = "done", !.plan = plan, !.best = best]
Aborted == ~fwd.ok \/ ~rev.ok

\* AStar::SearchOneStep() of a one-way search.
IsTarget(u) == u = Dst

SearchOneStep ==
  /\ run.mode = "oneway" /\ run.at = "searching" /\ ~Aborted
  /\ IF fwd.open = <<>> THEN Done(<<>>, -1) /\ UNCHANGED fwd
     ELSE LET u == Head(fwd.open) IN
          IF IsTarget(u)
          THEN /\ fwd' = MoveFirstOpenNodeToClosedList(fwd)
               /\ Done(TracePlanFromNode(fwd, u), CumulativeCost(fwd.store[u]))
          ELSE fwd' = ExpandNode(fwd, u, FALSE) /\ UNCHANGED run
  /\ UNCHANGED <<graph, rev>>

-----------------------------------------------------------------------------
\* FindInClosedList()
InClosedList(s, n) == n \in DOMAIN s.store /\ ~InList(s.open, n)

\* CheckForConnector(): a node closed on the other side is joined to its root.
Connect(this, other, u) ==
  LET root == TracePlanFromNode(other, u)[1].node
      c == CumulativeCost(other.store[u])
      g == CumulativeCost(this.store[u]) + c IN
  RegisterNode(MoveFirstOpenNodeToClosedList(this), root,
               [links |-> <<[parent |-> u, cost |-> c, cum |-> g]>>, f |-> g, conn |-> TRUE])

\* CheckSuccess(): the plan of this side, then that of the other backwards.
JoinedPlan(this, other, u) ==
  LET mine == TracePlanFromNode(this, u)
      theirs == TracePlanFromNode(other, u) IN
  mine \o [i \in 1..Len(theirs) - 1 |->
             [node |-> theirs[Len(theirs) - i].node, cost |-> theirs[Len(theirs) - i + 1].cost]]

\* ReversePlanSteps().
ReversePlanSteps(p) ==
  LET r == Reverse(p) IN
  [i \in DOMAIN r |-> [node |-> r[i].node, cost |-> IF i = 1 THEN 0 ELSE r[i - 1].cost]]

\* One turn of AStarTwoWay::Search() for one of the objects.
Turn(this, other, reverse) ==
  LET u == Head(this.open)
      common == this.store[u].links[1].parent IN
  IF this.store[u].conn
  THEN LET p == JoinedPlan(this, other, common)
           q == IF reverse THEN ReversePlanSteps(p) ELSE p IN
       this' = this /\ Done(q, PlanCost(q))
  ELSE /\ this' = IF InClosedList(other, u) THEN Connect(this, other, u)
                  ELSE ExpandNode(this, u, reverse)
       /\ UNCHANGED run

TopValue(s) == IF s.open = <<>> THEN Far ELSE s.store[Head(s.open)].f

Search ==
  /\ run.mode = "twoway" /\ run.at = "searching" /\ ~Aborted
  /\ \/ fwd.open = <<>> /\ rev.open = <<>> /\ Done(<<>>, -1) /\ UNCHANGED <<fwd, rev>>
     \/ fwd.open # <<>> /\ TopValue(fwd) <= TopValue(rev) /\ Turn(fwd, rev, FALSE) /\ UNCHANGED rev
     \/ rev.open # <<>> /\ TopValue(rev) < TopValue(fwd) /\ Turn(rev, fwd, TRUE) /\ UNCHANGED fwd
  /\ UNCHANGED graph

Next == SearchOneStep \/ Search
Spec == Init /\ [][Next]_vars
FoundBest == run.best = (IF Shortest >= Far THEN -1 ELSE Shortest)

-----------------------------------------------------------------------------
\* The open list is a heap of stored nodes, each of them once, apart from the
\* closed ones.
OpenIsHeap ==
  ~Aborted => \A s \in {fwd, rev} :
    /\ IsHeap(s.open, FValues(s))
    /\ IsInjective(s.open) /\ Range(s.open) \cap Range(s.closed) = {}
    /\ DOMAIN s.store = Range(s.open) \cup Range(s.closed)

\* With a consistent heuristics (not with one that is only admissible, which is
\* what the interface asks for) no ASSERT fails, and the cost of a closed node
\* is that of the best path to it.
ClosedFinal ==
  /\ ~Aborted
  /\ LET d == CostsFrom(Src) IN
     \A n \in Range(fwd.closed) : CumulativeCost(fwd.store[n]) = d[n]

\* A one-way search ends with the lowest cost, or with -1 if there is no path.
OneWayBest == run.mode = "oneway" /\ run.at = "done" => FoundBest

\* The plan is a path of the graph from the source to the destination, and its
\* steps add up to the cost returned.
PlanIsPath ==
  run.at = "done" /\ run.best >= 0 =>
    /\ run.plan[1] = [node |-> Src, cost |-> 0] /\ Last(run.plan).node = Dst
    /\ \A i \in 2..Len(run.plan) : run.plan[i].cost = Weight(run.plan[i - 1].node, run.plan[i].node)
    /\ run.best = PlanCost(run.plan)

\* "If a plan has been found, return value will be the lowest cost" and "If no
\* plan has been found, return value will be -1", of a two-way search.
TwoWayBest == run.mode = "twoway" /\ run.at = "done" => FoundBest
=============================================================================
