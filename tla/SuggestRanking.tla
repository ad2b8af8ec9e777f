--------------------------- MODULE SuggestRanking ---------------------------
(***************************************************************************)
(* The completions of one suggest request: the primary suggestions, their  *)
(* attributes as children, and how sorting, trimming, deduping and         *)
(* FixPositions() make the list of the reply from them.  Scores are        *)
(* integers: a primary suggestion has a multiple of Whole, its child a     *)
(* share of it.                                                            *)
(***************************************************************************)
EXTENDS Integers, FiniteSets, SequencesExt

CONSTANTS
  Ids,            \* primary suggestions
  Kids,           \* attributes in the index
  Scores,         \* scores of primary suggestions, after the twiddlers
  Whole, Shares,  \* a child has share/Whole of the score of its parent
  Types,          \* src_type of suggestions: breaks ties
  MaxAsked,       \* bound of num_suggestions
  MaxCandidates,  \* max_attribute_candidates
  MinSecondary,   \* gFlag_suggest_min_secondary_suggestions
  Multiplier      \* gFlag_suggest_max_suggestions_multiplier

VARIABLES at, asked, response, enable_instant

vars == <<at, asked, response, enable_instant>>

None == "none"
Completion == [id : (Ids \cup (Ids \X Kids)), parent : Ids \cup {None},
               score : Nat, type : Types]

\* No variable leaves its range.
TypeOK ==
  /\ at \in {"primary", "secondary", "finalize", "reply", "undefined"}
  /\ asked \in 1..MaxAsked
  /\ \A i \in DOMAIN response : response[i] \in Completion
  /\ enable_instant \in BOOLEAN

Init ==
  /\ at = "primary" /\ asked \in 1..MaxAsked
  /\ response = <<>> /\ enable_instant = FALSE

-----------------------------------------------------------------------------
\* greater_score; suggestions equal in both are in any order.
better_completion(l, r) ==
  l.score > r.score \/ (l.score = r.score /\ l.type < r.type)

TrimResponse(s, max) == SubSeq(s, 1, IF Len(s) < max THEN Len(s) ELSE max)
SortAndTrimResponse(S, max) == TrimResponse(SetToSortSeq(S, better_completion), max)

\* SuggestDedupDuplicate::Dedup(): the first completion with an id stays.
DedupResponse(s) ==
  LET first(i) == \A k \in 1..i - 1 : s[k].id # s[i].id
      kept == {i \in DOMAIN s : first(i)} IN
  [n \in 1..Cardinality(kept) |-> s[SetToSortSeq(kept, LAMBDA a, b : a < b)[n]]]

\* SortAndTrimResponse(), DedupResponse() and TrimResponse() at the end of a flow.
Ranked(S) ==
  TrimResponse(DedupResponse(SortAndTrimResponse(S, asked * Multiplier)), asked)

\* RunPrimaryFlow(): the group has one completion for each id; the twiddled scores.
RunPrimaryFlow ==
  /\ at = "primary"
  /\ \E found \in SUBSET Ids : \E f \in [found -> Scores \X Types] :
       LET C == {[id |-> i, parent |-> None, score |-> f[i][1] * Whole, type |-> f[i][2]] : i \in found} IN
       /\ response' = Ranked(C)
       /\ at' = IF found = {} THEN "reply" ELSE "secondary"
  /\ UNCHANGED <<asked, enable_instant>>

\* SuggestAttribute: the children of the first candidates, with ids of their own.
Candidates == {i \in DOMAIN response : i <= MaxCandidates}
Child(i, k, share, type) ==
  [id |-> <<response[i].id, k>>, parent |-> response[i].id,
   score |-> (response[i].score * share) \div Whole, type |-> type]

\* RunSecondaryFlow(): the best children join the response, which is ranked again.
RunSecondaryFlow ==
  /\ at = "secondary"
  /\ \E has \in [Candidates \X Kids -> {{}} \cup {{v} : v \in Shares \X Types}] :
       LET C == UNION {{Child(p[1], p[2], v[1], v[2]) : v \in has[p]} : p \in Candidates \X Kids}
           more == asked - Len(response)
           second == SortAndTrimResponse(C, IF more > MinSecondary THEN more ELSE MinSecondary) IN
       response' = IF C = {} THEN response ELSE Ranked(Range(response) \cup Range(second))
  /\ at' = "finalize"
  /\ UNCHANGED <<asked, enable_instant>>

\* The parents in their order, each with its children in theirs.  A bug: the last
\* child of a parent replaces the others.
FixPositions_LastChild(s) ==
  FlattenSeq([n \in DOMAIN s |->
    IF s[n].parent = None
    THEN LET kids == SelectSeq(s, LAMBDA c : c.parent = s[n].id) IN
         IF kids = <<>> THEN <<s[n]>> ELSE <<s[n], Last(kids)>>
    ELSE <<>>])

FixPositions(s) ==
  FlattenSeq([n \in DOMAIN s |->
    IF s[n].parent = None
    THEN <<s[n]>> \o SelectSeq(s, LAMBDA c : c.parent = s[n].id)
    ELSE <<>>])

\* CheckTopCompletionInstantWorthy() of a list whose first is often searched.
InstantWorthy(s) ==
  5 * s[1].score >= 2 * FoldSeq(LAMBDA c, sum : IF c.parent = None THEN c.score + sum ELSE sum, 0, s)

\* Finalize(): completions[0] of an empty list is undefined.
Finalize ==
  /\ at = "finalize"
  /\ LET s == FixPositions(TrimResponse(response, asked)) IN
       /\ response' = s
       /\ at' = IF s = <<>> THEN "undefined" ELSE "reply"
       /\ enable_instant' \in IF s # <<>> /\ InstantWorthy(s) THEN BOOLEAN ELSE {FALSE}
  /\ UNCHANGED asked

Next == RunPrimaryFlow \/ RunSecondaryFlow \/ Finalize
Spec == Init /\ [][Next]_vars

-----------------------------------------------------------------------------
\* "We already know we have at least 1 completion": the check of the top
\* completion never reads an empty list.
AtLeastOne == at # "undefined"

\* The reply has no more suggestions than were asked for and none twice, and
\* every child follows its parent with only children of that parent between:
\* FindOrDie() finds the parent of each child.
WellFormed == at = "reply" =>
  /\ Len(response) <= asked
  /\ \A i, j \in DOMAIN response : response[i].id = response[j].id => i = j
  /\ \A i \in DOMAIN response : response[i].parent # None =>
       \E j \in 1..i - 1 : /\ response[j].id = response[i].parent
                           /\ \A k \in j + 1..i : response[k].parent = response[j].id

\* FixPositions() only rearranges: no completion of the ranked list is dropped.
Rearranged == at = "finalize" => Range(response') = Range(response)
NoneDropped == [][Rearranged]_vars

\* Wherever the children go, no primary suggestion overtakes a better one.
ParentsRanked == at = "reply" =>
  \A i, j \in DOMAIN response :
    i < j /\ response[i].parent = None /\ response[j].parent = None =>
      ~better_completion(response[j], response[i])
=============================================================================
