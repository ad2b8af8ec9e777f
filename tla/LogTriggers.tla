---------------------------- MODULE LogTriggers ----------------------------
(***************************************************************************)
(* LogManager and EventTriggerCollection: the elements of a log request    *)
(* are parsed and validated one after the other, and the triggers of all   *)
(* events, of the category and of the (category, action) run merged by     *)
(* priority.  One action is one round of the loop of ExecuteTriggers().    *)
(***************************************************************************)
EXTENDS Integers, SequencesExt, FiniteSetsExt

CONSTANTS
  Triggers,        \* "good" ones want valid data, "bad" ones the others
  Priorities,      \* bound: the priorities in use
  IntMax,             \* numeric_limits<int>::max()
  MaxTriggers,     \* bound: registrations
  MaxLogs          \* bound: elements of a request

VARIABLES
  triggers_map,    \* by key and priority, in the order of registration
  header,          \* the status bits of the request
  left,            \* elements of the request still to come
  element,         \* facts about the element: [parser, event, valid]
  log_status,
  iters,           \* the iterators: what is left of each map
  ran,             \* ghost: <<priority, rank of the key, index>> of what ran
  at               \* "register", "elements", "triggers" or "abort"

vars == <<triggers_map, header, left, element, log_status, iters, ran, at>>

Good(status) ==
  /\ {"header", "element"} \subseteq status
  /\ "parser" \in status => "data" \in status
DataValidationCompatible(trigger, status) == (trigger = "good") <=> Good(status)

-----------------------------------------------------------------------------
Init ==
  /\ triggers_map = [k \in 1..3 |-> [p \in Priorities |-> <<>>]]
  /\ header \in SUBSET {"header"}
  /\ left \in 1..MaxLogs
  /\ element = [parser |-> FALSE, event |-> FALSE, valid |-> FALSE]
  /\ log_status = {} /\ iters = <<>> /\ ran = <<>> /\ at = "register"

Registered == {<<p, k, i>> \in Priorities \X (1..3) \X (1..MaxTriggers) :
                 i <= Len(triggers_map[k][p])}

RegisterTriggerForCategoryAction(k, p, trigger) ==
  /\ at = "register" /\ Cardinality(Registered) < MaxTriggers
  /\ triggers_map' = [triggers_map EXCEPT ![k][p] = Append(@, trigger)]
  /\ UNCHANGED <<header, left, element, log_status, iters, ran, at>>

\* An iterator stands before the priorities of its map that have triggers.
Iterator(k) ==
  [key |-> k,
   todo |-> SetToSortSeq({p \in Priorities : triggers_map[k][p] # <<>>}, LAMBDA a, b : a < b)]

\* ProcessLogs() adds to its status only what ValidateElementData() says.
StatusBefore == header \cup {"element"}

\* The next element is validated: a validator is called if there is an event,
\* and an event without one is valid.
ProcessLogElement(e) ==
  /\ at \in {"register", "elements"} /\ left > 0
  /\ left' = left - 1
  /\ element' = e
  /\ log_status' = StatusBefore \cup (IF e.parser THEN {"parser"} ELSE {})
                   \cup (IF e.event THEN {"event"} ELSE {})
                   \cup (IF e.event /\ e.valid THEN {"data"} ELSE {})
  /\ iters' = [k \in 1..3 |-> Iterator(k)]
  /\ ran' = <<>>
  /\ at' = "triggers"
  /\ UNCHANGED <<triggers_map, header>>

-----------------------------------------------------------------------------
\* One iteration of the inner loop, which goes down over the iterators, erases
\* those at their end, and looks for the lowest priority.
Look(s, i) ==
  LET it == s.iters[i] IN
  IF it.todo = <<>> THEN [s EXCEPT !.iters = RemoveAt(@, i), !.index = @ - 1]
  ELSE IF Head(it.todo) < s.best THEN [s EXCEPT !.best = Head(it.todo), !.index = i]
  ELSE s

Scan == FoldLeft(Look, [iters |-> iters, best |-> IntMax, index |-> 0], Reverse([i \in DOMAIN iters |-> i]))

\* The compatible triggers of the priority run, and the iterator moves on.
ExecuteTriggers ==
  LET s == Scan
      it == s.iters[s.index]
      all == triggers_map[it.key][s.best]
      run == SelectSeq([i \in DOMAIN all |-> i],
                       LAMBDA i : DataValidationCompatible(all[i], log_status)) IN
  /\ at = "triggers" /\ s.index > 0
  /\ iters' = [s.iters EXCEPT ![s.index].todo = Tail(@)]
  /\ ran' = ran \o [n \in DOMAIN run |-> <<s.best, it.key, run[n]>>]
  /\ UNCHANGED <<triggers_map, header, left, element, log_status, at>>

\* No iterator was found: all of them have ended, or the assertion fails.
EndTriggers ==
  /\ at = "triggers" /\ Scan.index <= 0
  /\ at' = IF Scan.iters = <<>> THEN "elements" ELSE "abort"
  /\ iters' = <<>>
  /\ UNCHANGED <<triggers_map, header, left, element, log_status, ran>>

Facts == {e \in [parser : BOOLEAN, event : BOOLEAN, valid : BOOLEAN] :
            (e.event => e.parser) /\ (e.valid => e.event)}

Next ==
  \/ \E k \in 1..3, p \in Priorities, t \in Triggers : RegisterTriggerForCategoryAction(k, p, t)
  \/ \E e \in Facts : ProcessLogElement(e)
  \/ ExecuteTriggers \/ EndTriggers

Spec == Init /\ [][Next]_vars

-----------------------------------------------------------------------------
\* "Priorities are executed in the increasing order", ties in the order
\* CategoryAction, Category, All: when the loop ends each registered trigger that
\* wants the element has run exactly once, in that order, although iterators are
\* erased from the list during the scan that looks for the best one, and the
\* assertion that all of them have been removed holds.
MergedInOrder ==
  /\ at # "abort"
  /\ at = "elements" =>
    LET runs == {r \in Registered : DataValidationCompatible(triggers_map[r[2]][r[1]][r[3]], log_status)}
    IN ran = SetToSortSeq(runs, LAMBDA a, b :
         \/ a[1] < b[1]
         \/ a[1] = b[1] /\ a[2] > b[2]
         \/ a[1] = b[1] /\ a[2] = b[2] /\ a[3] < b[3])

\* "triggers will receive only the events for which all parts of data are valid":
\* what an element is taken for follows from its own header, parser, event and
\* validator, never from the elements before it in the request.
OwnStatus ==
  \A i \in DOMAIN ran :
    (triggers_map[ran[i][2]][ran[i][1]][ran[i][3]] = "good") <=>
       header # {} /\ (element.parser => element.event /\ element.valid)
=============================================================================
