----------------------------- MODULE SuggestPool -----------------------------
(***************************************************************************)
(* The suggest server: requests run in their own threads and hand the      *)
(* algorithms and the twiddlers of their groups to one pool of threads,    *)
(* wait for them on counters, with a timeout, and combine what is ready.   *)
(* The bag of words, itself a function of the pool, adds one function for  *)
(* each word to the same pool and waits for them without a timeout.  The   *)
(* groups are those of the default flags, with one algorithm for each      *)
(* kind; completions are abstracted to whether a response has none, some   *)
(* or all of them.                                                         *)
(***************************************************************************)
EXTENDS Integers, Sequences, FiniteSets, SequencesExt

CONSTANTS
  Requests,   \* the requests, each in a thread of the server
  PoolSizes,  \* values of gFlag_suggestion_manager_threadpool_size
  Words       \* the functions for the words of a query: a bound of their number

VARIABLES
  req,    \* for each request: the place of its thread and what it combined
  job,    \* for each request and function: its place and its response
  queue,  \* the functions that no thread of the pool has taken yet
  workers \* the threads of the pool

vars == <<req, job, queue, workers>>

\* The groups, in the order in which Suggestions::GetCompletions() runs them.
Stages == {"primary", "boost", "secondary", "identity"}
Group == [primary |-> <<"prefix", "bow">>, boost |-> <<"domain_boost">>,
          secondary |-> <<"filters", "sorts">>, identity |-> <<"identity">>]
Optional == {"bow"}
Grouped == UNION {Range(Group[s]) : s \in Stages}
Jobs == Grouped \cup Words
StageOf(j) == CHOOSE s \in Stages : j \in Range(Group[s])

\* The Counter in the context of a function.
CounterOf(j) ==
  CASE j \in Words -> "words" [] j \in Optional -> "optional" [] OTHER -> StageOf(j)
Counters == Stages \cup {"words", "optional"}
Required(s) == Range(Group[s]) \ Optional

\* What a function of the pool reads while it runs and a request writes:
\* response_ and secondary_response_.
Reads(j) ==
  CASE j \in {"domain_boost", "filters", "sorts"} -> {"response"}
    [] j = "identity" -> {"secondary"}
    [] OTHER -> {}

SuggestPoolAssumption ==
  /\ IsFiniteSet(Requests) /\ IsFiniteSet(Words) /\ Words \cap Grouped = {}
  /\ PoolSizes \subseteq Nat

Running == {"running", "found", "waiting", "notify"}
Busy == {f \in Requests \X Jobs : job[f[1]][f[2]].at \in Running}

\* No variable leaves its range: no counter is negative, no more functions run
\* than the pool has threads.
TypeOK ==
  /\ req \in [Requests -> [at : {"group", "required", "optional", "write", "returned"},
                           stage : Stages, words : SUBSET Words,
                           merged : SUBSET Jobs, timed : BOOLEAN,
                           count : [Counters -> 0..Cardinality(Jobs)]]]
  /\ job \in [Requests -> [Jobs -> [at : {"none", "queued", "done"} \cup Running,
                                    completions : {"none", "some", "all"},
                                    success : BOOLEAN]]]
  /\ queue \in Seq(Requests \X Jobs)
  /\ workers \in PoolSizes /\ Cardinality(Busy) <= workers

Init ==
  /\ req \in [Requests -> [at : {"group"}, stage : {"primary"},
                           words : SUBSET Words, merged : {{}}, timed : {FALSE},
                           count : {[c \in Counters |-> 0]}]]
  /\ job = [r \in Requests |-> [j \in Jobs |->
              [at |-> "none", completions |-> "none", success |-> FALSE]]]
  /\ queue = <<>>
  /\ workers \in PoolSizes

-----------------------------------------------------------------------------
\* The threads of the requests.

\* ThreadPool::Add(): r adds the functions of js.  A loop of Add() calls is one
\* step: a thread of the pool that takes the first function before the last one
\* is added does the same after it.
Added(r, js) == queue \o [i \in DOMAIN js |-> <<r, js[i]>>]
Queued(r, js) == [j \in Jobs |-> IF j \in Range(js) THEN [job[r][j] EXCEPT !.at = "queued"]
                                ELSE job[r][j]]

\* GetCompletions() or GetScore() of a group: a counter for the required and
\* one for the optional algorithms, and a function of the pool for each of
\* them.
RunGroup(r) ==
  LET s == req[r].stage IN
  /\ req[r].at = "group"
  /\ queue' = Added(r, Group[s])
  /\ job' = [job EXCEPT ![r] = Queued(r, Group[s])]
  /\ req' = [req EXCEPT ![r].at = "required", ![r].count[s] = Cardinality(Required(s)),
                        ![r].count["optional"] = IF s = "primary" THEN Cardinality(Optional) ELSE @]

\* MergeSuggestionsFromAlgo(), CombineTwiddlerScore(): the responses with success.
Merge(r, S) == {j \in S : job[r][j].success}
Found(r, S) == \E j \in S : job[r][j].completions # "none"

\* Counter::WaitWithTimeout(): its results.  A bug: the timeout is left out.
WaitWithTimeout_None(r, c) == IF req[r].count[c] = 0 THEN {TRUE} ELSE {}
WaitWithTimeout(r, c) == IF req[r].count[c] = 0 THEN {TRUE} ELSE {FALSE}

\* The wait for the required algorithms or twiddlers, and their results.
\* A bug: the first of the required ones ends the wait.
WaitRequired_Any(r) ==
  /\ req[r].at = "required"
  /\ req[r].count[req[r].stage] < Cardinality(Required(req[r].stage))
  /\ req' = [req EXCEPT ![r].at = "optional", ![r].merged = @ \cup Merge(r, Required(req[r].stage))]
  /\ UNCHANGED <<job, queue>>

WaitRequired(r) ==
  /\ req[r].at = "required"
  /\ \E ok \in WaitWithTimeout(r, req[r].stage) :
       req' = [req EXCEPT ![r].at = "optional", ![r].timed = @ \/ ~ok,
                          ![r].merged = @ \cup Merge(r, Required(req[r].stage))]
  /\ UNCHANGED <<job, queue>>

\* The wait for the optional ones, unless the required ones found enough (the
\* number of completions is abstracted), and their results.
WaitOptional(r) ==
  LET optional == IF req[r].stage = "primary" THEN Optional ELSE {} IN
  /\ req[r].at = "optional"
  /\ optional = {} \/ Found(r, req[r].merged) \/ WaitWithTimeout(r, "optional") # {}
  /\ req' = [req EXCEPT ![r].at = "write", ![r].merged = @ \cup Merge(r, optional)]
  /\ UNCHANGED <<job, queue>>

\* What the thread writes between a group and the next: the twiddled scores,
\* SortAndTrimResponse(), DedupResponse(), the merge and Finalize().
Successful(r) == Found(r, req[r].merged \cap Range(Group[req[r].stage]))
Writes(r) ==
  CASE req[r].stage = "boost" -> {"response"}
    [] req[r].stage = "identity" -> {"response", "secondary"}
    [] req[r].stage = "secondary" /\ ~Successful(r) -> {"response"}
    [] OTHER -> {}

\* RunPrimaryFlow(), RunSecondaryFlow(): on to the next group, or the end.
NextGroup(r) ==
  /\ req[r].at = "write"
  /\ req' = [req EXCEPT ![r] =
       CASE @.stage = "primary" /\ Successful(r) -> [@ EXCEPT !.stage = "boost", !.at = "group"]
         [] @.stage = "boost" -> [@ EXCEPT !.stage = "secondary", !.at = "group"]
         [] @.stage = "secondary" /\ Successful(r) -> [@ EXCEPT !.stage = "identity", !.at = "group"]
         [] OTHER -> [@ EXCEPT !.at = "returned"]]
  /\ UNCHANGED <<job, queue>>

-----------------------------------------------------------------------------
\* The threads of the pool.

\* The function j of r goes on, with its response.
Becomes(r, j, at, completions, success) ==
  job' = [job EXCEPT ![r][j] = [at |-> at, completions |-> completions, success |-> success]]

TakeFunction ==
  /\ queue # <<>> /\ Cardinality(Busy) < workers
  /\ LET r == Head(queue)[1]
         j == Head(queue)[2]
     IN  Becomes(r, j, "running", job[r][j].completions, job[r][j].success)
  /\ queue' = Tail(queue)
  /\ UNCHANGED req

\* An algorithm or a twiddler at work: an index that has nothing returns 0; the
\* attributes succeed all the same; a twiddler has a score for each completion.
\* The flag success is a plain bool that the waiting thread may read after its
\* time-out without any lock: that the completions written before it are seen
\* with it is assumed of the build.
\* A bug: the response is marked before it is complete.
Search_Early(r, j) ==
  /\ j # "bow" /\ job[r][j].at = "running"
  /\ Becomes(r, j, "found", "some", TRUE)
  /\ UNCHANGED <<req, queue>>

Search(r, j) ==
  /\ j # "bow" /\ job[r][j].at = "running"
  /\ \/ Becomes(r, j, "found", "some", job[r][j].success)
     \/ /\ j \in Words \cup {"prefix"}
        /\ Becomes(r, j, "notify", job[r][j].completions, job[r][j].success)
     \/ /\ j \in {"filters", "sorts"}
        /\ Becomes(r, j, "found", job[r][j].completions, job[r][j].success)
  /\ UNCHANGED <<req, queue>>

Succeed(r, j) ==
  /\ job[r][j].at = "found"
  /\ LET c == job[r][j].completions
     IN  Becomes(r, j, "notify", IF c = "some" THEN "all" ELSE c, TRUE)
  /\ UNCHANGED <<req, queue>>

\* ~ScopedCNotify: the function ends.
NotifyCounter(r, j) ==
  /\ job[r][j].at = "notify"
  /\ Becomes(r, j, "done", job[r][j].completions, job[r][j].success)
  /\ req' = [req EXCEPT ![r].count[CounterOf(j)] = @ - 1]
  /\ UNCHANGED queue

\* SuggestBagOfWords::GetCompletions(): no words, or one function for each.
NoWords(r) ==
  /\ job[r]["bow"].at = "running" /\ req[r].words = {}
  /\ Becomes(r, "bow", "notify", job[r]["bow"].completions, job[r]["bow"].success)
  /\ UNCHANGED <<req, queue>>

SplitQuery(r) ==
  /\ job[r]["bow"].at = "running" /\ req[r].words # {}
  /\ LET js == SetToSeq(req[r].words) IN
       /\ queue' = Added(r, js)
       /\ job' = [job EXCEPT ![r] = [Queued(r, js) EXCEPT !["bow"].at = "waiting"]]
  /\ req' = [req EXCEPT ![r].count["words"] = Cardinality(req[r].words)]

\* Counter::Wait(), without a timeout; the words may match no suggestion.
WaitWords(r) ==
  /\ job[r]["bow"].at = "waiting" /\ req[r].count["words"] = 0
  /\ \E c \in IF Found(r, Merge(r, Words)) THEN {"none", "some"} ELSE {"none"} :
       Becomes(r, "bow", "found", c, job[r]["bow"].success)
  /\ UNCHANGED <<req, queue>>

-----------------------------------------------------------------------------
Function(r, j) == Search(r, j) \/ Succeed(r, j) \/ NotifyCounter(r, j)
BagOfWords(r) == NoWords(r) \/ SplitQuery(r) \/ WaitWords(r)
Thread(r) == RunGroup(r) \/ WaitRequired(r) \/ WaitOptional(r) \/ NextGroup(r)

Next ==
  /\ \/ TakeFunction
     \/ \E r \in Requests : Thread(r) \/ BagOfWords(r) \/ \E j \in Jobs : Function(r, j)
  /\ UNCHANGED workers

\* The threads of the process are scheduled fairly, and a timeout comes.
Fairness ==
  /\ WF_vars(TakeFunction /\ UNCHANGED workers)
  /\ \A r \in Requests : /\ WF_vars(Thread(r) /\ UNCHANGED workers)
                         /\ WF_vars(BagOfWords(r) /\ UNCHANGED workers)
  /\ \A r \in Requests, j \in Jobs : WF_vars(Function(r, j) /\ UNCHANGED workers)

Spec == Init /\ [][Next]_vars /\ Fairness

-----------------------------------------------------------------------------
\* A counter is the number of its functions that have not ended: late ones
\* count in the group that added them and in no later one.
CountersConserved ==
  \A r \in Requests : \A s \in Stages :
    req[r].stage = s /\ req[r].at \in {"required", "optional", "write"} =>
      req[r].count[s] = Cardinality({j \in Required(s) : job[r][j].at # "done"})

\* No function for a word runs once the bag of words it belongs to has gone on:
\* the functions refer to variables of its frame (words by reference).
WordsOutlived ==
  \A r \in Requests : job[r]["bow"].at \in {"found", "notify", "done"} =>
    \A w \in Words : job[r][w].at \in {"none", "done"}

\* A request whose waits did not time out does not sort, trim or merge a
\* response that a function of the pool reads.
ResponseUnshared ==
  \A r \in Requests : req[r].at = "write" /\ ~req[r].timed =>
    \A j \in Jobs : job[r][j].at \in {"running", "found"} => Reads(j) \cap Writes(r) = {}

\* A response is combined when it is complete, also after a timeout.
MergedWhole ==
  [][\A r \in Requests : \A j \in req'[r].merged \ req[r].merged :
       job[r][j].completions # "some"]_vars

\* What the proofs of these need.  The functions of a counter that have not
\* ended, and the groups that have been run before a group.
Pending(r, c) == {j \in Jobs : CounterOf(j) = c /\ job[r][j].at \notin {"none", "done"}}
Before == [primary |-> {}, boost |-> {"primary"}, secondary |-> {"primary", "boost"},
           identity |-> {"primary", "boost", "secondary"}]

\* Every counter is exact, not only that of the group that is running.
CountInv == \A r \in Requests, c \in Counters : req[r].count[c] = Cardinality(Pending(r, c))

\* A group is run once: its functions have been added when it has begun.
StageInv ==
  \A r \in Requests, s \in Stages : \A j \in Range(Group[s]) :
    job[r][j].at # "none" <=> s \in Before[req[r].stage] \/ (s = req[r].stage /\ req[r].at # "group")

\* Without a timeout the required functions of the groups before have ended.
DoneInv ==
  \A r \in Requests, s \in Stages :
    /\ ~req[r].timed
    /\ s \in Before[req[r].stage] \/ (s = req[r].stage /\ req[r].at \notin {"group", "required"})
    => \A j \in Required(s) : job[r][j].at = "done"

\* The words are added once, and have ended when the bag of words goes on.
WordsInv ==
  \A r \in Requests, w \in Words :
    /\ job[r]["bow"].at \in {"none", "queued", "running"} => job[r][w].at = "none"
    /\ job[r]["bow"].at \in {"found", "notify", "done"} => job[r][w].at \in {"none", "done"}

\* What is in the queue has not been taken, and is in it once.
QueueInv ==
  /\ \A i \in DOMAIN queue : job[queue[i][1]][queue[i][2]].at = "queued"
  /\ \A i, k \in DOMAIN queue : queue[i] = queue[k] => i = k

\* A response is marked when it is complete, and changes no more.
SuccessInv ==
  \A r \in Requests, j \in Jobs : job[r][j].success =>
    job[r][j].at \in {"notify", "done"} /\ job[r][j].completions # "some"

Inv == TypeOK /\ CountInv /\ StageInv /\ DoneInv /\ WordsInv /\ QueueInv /\ SuccessInv

\* Every request is answered, also when no thread of the pool ever returns.
RequestsReturn == \A r \in Requests : req[r].at = "group" ~> req[r].at = "returned"

\* "the algorithm calls Notify() once valid results have been filled into the
\* response": the functions that have been added to the pool come to their end.
FunctionsFinish == []<>(queue = <<>> /\ Busy = {})

\* They do when the pool has more threads than there are requests at a time: one
\* thread is then left for the words.
PoolSuffices ==
  []<>(workers > Cardinality(Requests) => queue = <<>> /\ Busy = {})
=============================================================================
