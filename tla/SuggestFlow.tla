---------------------------- MODULE SuggestFlow -----------------------------
(***************************************************************************)
(* One suggest request in time.  Its thread fetches the primary            *)
(* completions, has them scored by a group of twiddlers on the pool, ranks *)
(* them, fetches their attributes from an algorithm on the pool, has those *)
(* scored too, and makes the reply.  The twiddlers and the attribute       *)
(* algorithm read the very list that the thread goes on to rearrange, and  *)
(* after a timeout they may still be at it.                                *)
(*                                                                         *)
(* SuggestPool has the group of algorithms; the list is ranked as in       *)
(* SuggestRanking.  A rearrangement is one step: who began to read the     *)
(* list before it, and has not ended, has read freed or moved memory.      *)
(***************************************************************************)
EXTENDS Integers, FiniteSets, SequencesExt

CONSTANTS
  Indexed,          \* what the key-value index may have for the query: items with index_score
  Falcon,         \* the complete suggestions, by id
  AttributeIndex, \* the attributes of a suggestion, and those of "default"
  Twiddlers,      \* the params of the group: kind, required, weight, op
  Boost,          \* the factor of a country for the user
  User,           \* country of the user
  CountryName, StateName,   \* names; "" if there is none
  Numeric,        \* state codes that are numbers
  asked, MaxCandidates, MinSecondary, Multiplier   \* as in SuggestRanking

VARIABLES flow,       \* the thread: where it is, and whether a wait timed out
          response,   \* response_ and how often its list was rearranged
          secondary,  \* secondary_response_, likewise
          reader      \* the functions on the pool

vars == <<flow, response, secondary, reader>>

Groups == {"primary", "secondary"}
Readers == (Groups \X DOMAIN Twiddlers) \cup {<<"attributes", 1>>}
Queued == [pc |-> "none", i |-> 1, ver |-> 0, out |-> <<>>, success |-> FALSE]
Empty == [list |-> <<>>, ver |-> 0]

Ranking == INSTANCE SuggestRanking WITH
  Ids <- DOMAIN Falcon, Kids <- DOMAIN Falcon, Scores <- {}, Whole <- 1, Shares <- {}, Types <- {},
  MaxAsked <- asked, at <- flow.at, response <- response.list, enable_instant <- FALSE

Init ==
  /\ flow = [at |-> "find", group |-> "primary", late |-> FALSE, before |-> <<>>, reply |-> <<>>]
  /\ response = Empty /\ secondary = Empty
  /\ reader = [r \in Readers |-> Queued]

-----------------------------------------------------------------------------
\* FindCompletions(): the score of an item is its index score, if it has one.
FindCompletions(items) ==
  [n \in DOMAIN items |->
     [id |-> items[n].id, sug |-> items[n].id, parent |-> Ranking!None, score |-> items[n].index_score, type |-> 0]]

\* AddCompleteSuggestions(): what has no suggestion is removed, what has no
\* score gets the base score.
AddCompleteSuggestions(list) ==
  LET known == SelectSeq(list, LAMBDA c : c.sug \in DOMAIN Falcon)
  IN  [n \in DOMAIN known |->
         [known[n] EXCEPT !.type = Falcon[known[n].sug].type,
                          !.score = IF @ = 0 THEN Falcon[known[n].sug].base_score ELSE @]]

\* The primary algorithm; what it found may be nothing.
GetPrimarySuggestions ==
  /\ flow.at = "find"
  /\ \E items \in Indexed :
       LET list == AddCompleteSuggestions(FindCompletions(items))
       IN  /\ response' = [response EXCEPT !.list = list]
           /\ flow' = [flow EXCEPT !.at = IF list = <<>> THEN "reply" ELSE "twiddle"]
  /\ UNCHANGED <<secondary, reader>>

\* The list that a group twiddles.
Twiddled(g) == IF g = "primary" THEN response ELSE secondary

\* SuggestTwiddlerGroup::GetScore(): a function for each twiddler.
LaunchTwiddlers ==
  /\ flow.at = "twiddle"
  /\ flow' = [flow EXCEPT !.at = "required", !.before = Twiddled(flow.group).list]
  /\ reader' = [r \in Readers |-> IF r[1] = flow.group THEN [reader[r] EXCEPT !.pc = "queued"] ELSE reader[r]]
  /\ UNCHANGED <<response, secondary>>

Notified(required) ==
  \A t \in DOMAIN Twiddlers :
    Twiddlers[t].required = required => reader[<<flow.group, t>>].pc = "done"

\* Mutant of WaitOptional: the optional twiddlers are not waited for.
WaitOptional_Not ==
  /\ flow.at = "optional"
  /\ flow' = [flow EXCEPT !.at = "combine"]
  /\ UNCHANGED <<response, secondary, reader>>

\* Both waits, each with a timeout.
WaitRequired ==
  /\ flow.at = "required"
  /\ flow' = [flow EXCEPT !.at = "optional", !.late = @ \/ ~Notified(TRUE)]
  /\ UNCHANGED <<response, secondary, reader>>

WaitOptional ==
  /\ flow.at = "optional"
  /\ flow' = [flow EXCEPT !.at = "combine", !.late = @ \/ ~Notified(FALSE)]
  /\ UNCHANGED <<response, secondary, reader>>

Operate(op, a, b) ==
  CASE op = "*" -> a * b [] op = "+" -> a + b [] op = "<" -> IF b < a THEN b ELSE a [] op = ">" -> IF b > a THEN b ELSE a

\* CombineTwiddlerScore(): the first response is taken as it is.
CombineTwiddlerScore(t, scores, combined) ==
  [n \in DOMAIN scores |->
     IF combined = <<>> THEN scores[n] * Twiddlers[t].weight
     ELSE Operate(Twiddlers[t].op, combined[n], scores[n] * Twiddlers[t].weight)]

\* The scores of the twiddlers that succeeded with one for each completion.
Combined(g) ==
  LET n == Len(Twiddled(g).list)
      valid(t) == LET r == reader[<<g, t>>] IN r.success /\ r.out # <<>> /\ Len(r.out) = n
      add(acc, t) == IF valid(t) THEN CombineTwiddlerScore(t, reader[<<g, t>>].out, acc) ELSE acc
  IN  FoldLeft(add, <<>>, [t \in DOMAIN Twiddlers |-> t])

\* UpdateCompletionsWithTwiddlerResponse()
UpdateCompletions(list, scores) ==
  IF Len(scores) # Len(list) THEN list
  ELSE [n \in DOMAIN list |-> [list[n] EXCEPT !.score = @ * scores[n]]]

Combine ==
  /\ flow.at = "combine"
  /\ flow' = [flow EXCEPT !.at = "rank"]
  /\ reader' = [r \in Readers |-> IF r[1] = flow.group THEN [reader[r] EXCEPT !.out = <<>>] ELSE reader[r]]
  /\ LET g == flow.group
         list == UpdateCompletions(Twiddled(g).list, Combined(g))
     IN  IF g = "primary" THEN response' = [response EXCEPT !.list = list] /\ UNCHANGED secondary
         ELSE secondary' = [secondary EXCEPT !.list = list] /\ UNCHANGED response

-----------------------------------------------------------------------------
\* The end of RunPrimaryFlow(), and the attribute algorithm for the best.
RankPrimary ==
  /\ flow.at = "rank" /\ flow.group = "primary"
  /\ response' = [list |-> Ranking!Ranked(ToSet(response.list)), ver |-> response.ver + 1]
  /\ reader' = [reader EXCEPT ![<<"attributes", 1>>].pc = "queued"]
  /\ flow' = [flow EXCEPT !.at = "attributes"]
  /\ UNCHANGED secondary

\* GetSecondarySuggestions(): a copy of what the algorithm has by then.
GetSecondarySuggestions ==
  /\ flow.at = "attributes"
  /\ LET r == reader[<<"attributes", 1>>]
         got == r.pc = "done" /\ r.out # <<>>
     IN  /\ secondary' = [secondary EXCEPT !.list = IF got THEN r.out ELSE <<>>]
         /\ flow' = [flow EXCEPT !.at = IF got THEN "twiddle" ELSE "finalize",
                                 !.group = "secondary", !.late = @ \/ r.pc # "done"]
  /\ UNCHANGED <<response, reader>>

\* The end of RunSecondaryFlow(): both lists in one.
RankSecondary ==
  /\ flow.at = "rank" /\ flow.group = "secondary"
  /\ LET more == asked - Len(response.list)
         best == Ranking!SortAndTrimResponse(ToSet(secondary.list), IF more > MinSecondary THEN more ELSE MinSecondary)
     IN  /\ secondary' = [list |-> best, ver |-> secondary.ver + 1]
         /\ response' = [list |-> Ranking!Ranked(ToSet(response.list) \cup ToSet(best)), ver |-> response.ver + 1]
  /\ flow' = [flow EXCEPT !.at = "finalize"]
  /\ UNCHANGED reader

\* FormatAnnotations(): the parts that are shown after the name.
FormatAnnotations(name_count, ann) ==
  LET n == Len(ann)
      rest == IF n > 2 THEN <<SubSeq(ann, 1, n - 2)>> ELSE <<>>
      code == IF n > 0 THEN ann[n] ELSE ""
      country == IF code \notin {"", User} THEN CountryName[code] ELSE ""
      state == IF n > 1 /\ code # "" THEN ann[n - 1] ELSE ""
      named == state # "" /\ (country # "" \/ state \in Numeric)
      shown == IF named THEN StateName[state] ELSE state
  IN  rest \o (IF (code = User \/ name_count > 1) /\ shown # "" THEN <<shown>> ELSE <<>>)
           \o (IF country # "" THEN <<country>> ELSE IF code \notin {"", User} THEN <<code>> ELSE <<>>)

\* The name that suggestions may share: it includes the country.
NameKey(s) == <<s.name, IF s.ann # <<>> THEN Last(s.ann) ELSE "">>

\* GetSuggestions::operator(): cities of one name are counted, a child is shown
\* with its parent, whose place it gets if it has none.
Reply(list) ==
  LET sug(n) == Falcon[list[n].sug]
      count(key) == Cardinality({n \in DOMAIN list : /\ list[n].parent = Ranking!None
                                                     /\ sug(n).city /\ NameKey(sug(n)) = key})
      parent(n) == CHOOSE p \in DOMAIN list : list[p].parent = Ranking!None /\ list[p].id = list[n].parent
      times(n) == IF count(NameKey(sug(n))) = 0 THEN 1 ELSE count(NameKey(sug(n)))
  IN  [n \in DOMAIN list |->
         IF list[n].parent = Ranking!None
         THEN [src |-> list[n].id, child |-> FALSE, place |-> sug(n).place,
               query |-> <<sug(n).name>> \o FormatAnnotations(times(n), sug(n).ann)]
         ELSE [src |-> list[n].id, child |-> TRUE,
               place |-> IF sug(n).place = 0 THEN sug(parent(n)).place ELSE sug(n).place,
               query |-> <<sug(parent(n)).name, sug(n).name>>]]

\* Finalize(), and the reply.
Finalize ==
  /\ flow.at = "finalize"
  /\ response' = [list |-> Ranking!FixPositions(response.list), ver |-> response.ver + 1]
  /\ flow' = [flow EXCEPT !.at = "reply", !.reply = Reply(response'.list)]
  /\ UNCHANGED <<secondary, reader>>

-----------------------------------------------------------------------------
\* What a function on the pool reads.
Source(r) == IF r[1] = "secondary" THEN secondary ELSE response

\* A worker takes the function: its loop is over the list of that time.
Begin(r) ==
  /\ reader[r].pc = "queued"
  /\ reader' = [reader EXCEPT ![r].pc = "run", ![r].ver = Source(r).ver]
  /\ UNCHANGED <<flow, response, secondary>>

\* The list was rearranged under the loop.
Torn(r) ==
  /\ reader[r].pc = "run" /\ reader[r].ver # Source(r).ver
  /\ reader' = [reader EXCEPT ![r].pc = "undefined"]
  /\ UNCHANGED <<flow, response, secondary>>

\* The response of a twiddler has a reader: later nobody sees what is written.
Awaited(r) == flow.group = r[1] /\ flow.at \in {"required", "optional", "combine"}

\* SuggestDomainBoostTwiddler: a score for each completion, then success.
BoostStep(r) ==
  /\ reader[r].pc = "run" /\ reader[r].ver = Source(r).ver
  /\ r[1] \in Groups /\ Twiddlers[r[2]].kind = "boost"
  /\ LET list == Source(r).list
         i == reader[r].i
     IN  reader' = IF i > Len(list) THEN [reader EXCEPT ![r].pc = "done", ![r].success = TRUE]
                   ELSE [reader EXCEPT ![r].i = i + 1, 
                                       ![r].out = IF Awaited(r) THEN Append(@, Boost[Falcon[list[i].sug].country]) ELSE @]
  /\ UNCHANGED <<flow, response, secondary>>

\* SuggestIdentityTwiddler: looks at the size only.
IdentityStep(r) ==
  /\ reader[r].pc = "run" /\ reader[r].ver = Source(r).ver
  /\ r[1] \in Groups /\ Twiddlers[r[2]].kind = "identity"
  /\ LET n == Len(Source(r).list)
     IN  reader' = [reader EXCEPT ![r].pc = "done", ![r].out = IF Awaited(r) THEN [k \in 1 .. n |-> 1] ELSE @,
                                 ![r].success = n # 0]
  /\ UNCHANGED <<flow, response, secondary>>

\* GetAttributes(): those of the parent, or the default ones unless it is a hotel.
Attributes(parent) ==
  LET own == IF parent.sug \in DOMAIN AttributeIndex THEN AddCompleteSuggestions(FindCompletions(AttributeIndex[parent.sug])) ELSE <<>>
      all == IF own # <<>> \/ Falcon[parent.sug].hotel THEN own
             ELSE AddCompleteSuggestions(FindCompletions(AttributeIndex["default"]))
  IN  [n \in DOMAIN all |-> [all[n] EXCEPT !.parent = parent.id, !.id = <<parent.id, @>>, !.score = @ * parent.score]]

\* SuggestAttribute::GetCompletions(): the children of the first candidates.
AttributeStep(r) ==
  /\ reader[r].pc = "run" /\ reader[r].ver = Source(r).ver /\ r[1] = "attributes"
  /\ LET list == Source(r).list
         i == reader[r].i
     IN  reader' = IF i > Len(list) \/ i > MaxCandidates THEN [reader EXCEPT ![r].pc = "done", ![r].success = TRUE]
                   ELSE [reader EXCEPT ![r].i = i + 1, ![r].out = @ \o Attributes(list[i])]
  /\ UNCHANGED <<flow, response, secondary>>

Function(r) == Begin(r) \/ Torn(r) \/ BoostStep(r) \/ IdentityStep(r) \/ AttributeStep(r)

Thread ==
  \/ GetPrimarySuggestions \/ LaunchTwiddlers \/ WaitRequired \/ WaitOptional \/ Combine
  \/ RankPrimary \/ GetSecondarySuggestions \/ RankSecondary \/ Finalize

Next == Thread \/ \E r \in Readers : Function(r)

Spec == Init /\ [][Next]_vars

-----------------------------------------------------------------------------
\* A function on the pool reads a list that the thread rearranges only if a wait
\* for it has timed out: the thread waits for all that it has started.
UnracedInTime == (\E r \in Readers : reader[r].pc = "undefined") => flow.late

\* The scores of a list are multiplied with what some of the twiddlers say, the
\* same ones for each completion, and with what all say if no wait timed out.
AllOrNone ==
  LET g == flow.group
      list == Twiddled(g).list
      factor(t, c) == Twiddlers[t].weight * (IF Twiddlers[t].kind = "boost" THEN Boost[Falcon[c.sug].country] ELSE 1)
      all(S, c) == FoldLeft(LAMBDA acc, t : IF acc = 0 THEN factor(t, c) ELSE Operate(Twiddlers[t].op, acc, factor(t, c)),
                            0, SetToSortSeq(S, LAMBDA a, b : a < b))
  IN  flow.at = "rank" =>
        \E S \in SUBSET DOMAIN Twiddlers :
          /\ ~flow.late => S = DOMAIN Twiddlers
          /\ \A n \in DOMAIN list : list[n].score = flow.before[n].score * (IF S = {} THEN 1 ELSE all(S, list[n]))

\* Two suggestions for cities of one name are shown differently, if their
\* states are and have something to show.
ToldApart ==
  LET list == response.list
      reply == flow.reply
      city(n) == list[n].parent = Ranking!None /\ Falcon[list[n].sug].city
      ann(n) == Falcon[list[n].sug].ann
      shown(n) == Len(ann(n)) = 2 /\ ann(n)[1] # "" /\ StateName[ann(n)[1]] # ""
  IN  flow.at = "reply" =>
        /\ \A m, n \in DOMAIN list :
             city(m) /\ city(n) /\ shown(m) /\ shown(n) /\ ann(m) # ann(n) => reply[m].query # reply[n].query
        /\ \A n \in DOMAIN list : reply[n].child =>
             \E p \in 1 .. n - 1 : ~reply[p].child /\ (reply[n].place = 0 => reply[p].place = 0)
=============================================================================
