------------------------------- MODULE Caches -------------------------------
(***************************************************************************)
(* What works in the background of a request, of which one runs in a       *)
(* behaviour: the AutoProxyCache with its callers and workers, the         *)
(* GroupCache with its evictions, and the threads of suggest requests with *)
(* their functions on a pool. The proofs about the three are at the end.   *)
(***************************************************************************)
EXTENDS ProxyCache, TLC

CONSTANTS
  GroupKeys, Groups, Grouper, MaxGroups, MaxLife, Second, IntSize, MaxNow, MaxEvictors,
  Requests, PoolSizes, Words,
  SmallThreads   \* bound: the threads that use an AutoProxyCache without room

\* Two keys in a group, and one in another.
SmallGrouper == "k1" :> "g1" @@ "k2" :> "g1" @@ "k3" :> "g2"

VARIABLES which, g_cache, g_now, g_evictors, g_flushing, g_last, p_req, p_job,
          p_queue, p_workers   \* which: the component that runs

Group == INSTANCE GroupCache WITH
  cache <- g_cache, now <- g_now, evictors <- g_evictors,
  flushing <- g_flushing, last <- g_last, Keys <- GroupKeys,
  Groups <- Groups, Grouper <- Grouper, MaxGroups <- MaxGroups, MaxLife <- MaxLife,
  Second <- Second, IntSize <- IntSize, MaxNow <- MaxNow, MaxEvictors <- MaxEvictors

Suggest == INSTANCE SuggestPool WITH
  req <- p_req, job <- p_job, queue <- p_queue, workers <- p_workers,
  Requests <- Requests, PoolSizes <- PoolSizes, Words <- Words

ASSUME AutoProxyCacheAssumption
ASSUME GroupAssumption == Group!GroupCacheAssumption
ASSUME SuggestAssumption == Suggest!SuggestPoolAssumption

ProxyVars == <<max_size, lru, pc, call, v, clock, thrown, orphaned, tasks, unserved>>
GroupVars == <<g_cache, g_now, g_evictors, g_flushing, g_last>>
SuggestVars == <<p_req, p_job, p_queue, p_workers>>

allVars == <<which, ProxyVars, GroupVars, SuggestVars>>

AllInit ==
  /\ which \in {"proxy", "group", "suggest"}
  /\ AutoInit
  /\ Group!Init
  /\ Suggest!Init
  /\ which # "proxy" => max_size = (CHOOSE n \in Sizes : TRUE)
  /\ which # "suggest" => p_workers = (CHOOSE n \in PoolSizes : TRUE) /\ \A r \in Requests : p_req[r].words = {}

\* Bound: a cache that has no room for the keys is used by few threads.
FewThreads == Room \/ \A t \in Threads \ SmallThreads : pc'[t] = "idle"

AllNext ==
  /\ UNCHANGED which
  /\ \/ /\ which = "proxy" /\ AutoNext /\ FewThreads
        /\ UNCHANGED <<GroupVars, SuggestVars>>
     \/ /\ which = "group" /\ Group!Next
        /\ UNCHANGED <<ProxyVars, SuggestVars>>
     \/ /\ which = "suggest" /\ (Suggest!Next \/ UNCHANGED SuggestVars)
        /\ UNCHANGED <<ProxyVars, GroupVars>>

\* The fairness of each component, when it is the one that runs.
AllFairness ==
  /\ \A w \in Workers : WF_ProxyVars(which = "proxy" /\ WorkerTake(w))
  /\ \A t \in Threads : WF_ProxyVars(which = "proxy" /\ AutoStep(t))
  /\ WF_GroupVars(which = "group" /\ Group!EvictTest)
  /\ WF_GroupVars(which = "group" /\ Group!Evict)
  /\ WF_SuggestVars(which = "suggest" /\ (Suggest!TakeFunction /\ UNCHANGED p_workers))
  /\ \A r \in Requests : WF_SuggestVars(which = "suggest" /\ (Suggest!Thread(r) /\ UNCHANGED p_workers))
  /\ \A r \in Requests : WF_SuggestVars(which = "suggest" /\ (Suggest!BagOfWords(r) /\ UNCHANGED p_workers))
  /\ \A r \in Requests, j \in Suggest!Jobs : WF_SuggestVars(which = "suggest" /\ (Suggest!Function(r, j) /\ UNCHANGED p_workers))

AllSpec == AllInit /\ [][AllNext]_allVars /\ AllFairness

-----------------------------------------------------------------------------
\* In a cache that has room for the keys every call returns and is followed by a
\* background query whose answer is saved (auto_proxy_cache.h); the number of
\* groups comes back to the limit (group_cache.h).
BackgroundServes == CallReturns /\ QueryRefreshes /\ Group!SizeShrinks

\* Whatever is evicted, flushed, cleared or restarted in between, a lookup
\* finds the entry last inserted, unless it was erased or has expired; and a
\* dirty group is in memory (group_cache.h).
GroupKeepsWrites == Group!TypeOK /\ Group!NoLostWrite /\ Group!DirtyCached

\* A counter stands at the number of functions that have not notified it,
\* nothing a function still writes is freed or merged while it may write to it
\* (suggest_algo_group.cc, suggest_bag_of_words.cc).
CountersExact ==
  Suggest!TypeOK /\ Suggest!CountersConserved /\ Suggest!WordsOutlived /\
    Suggest!ResponseUnshared

\* A response is combined when it is complete, also after a timeout
\* (suggest_algo_group.cc).
MergedWhole == Suggest!MergedWhole

\* Every suggest request is answered, also when no thread of the pool ever
\* returns, and all functions finish if the pool has more threads than there
\* are bags of words (suggest_algo_group.cc).
RequestsAnswered ==
  (which = "suggest" => Suggest!RequestsReturn) /\ Suggest!PoolSuffices

-----------------------------------------------------------------------------
\* The behaviours of the threads of suggest requests only.
SuggestSpec == which = "suggest" /\ AllSpec

\* The functions that a suggest request has put into the pool end.
FunctionsFinish == Suggest!FunctionsFinish

-----------------------------------------------------------------------------
(* Proofs about the AutoProxyCache, for all threads, keys and times.       *)

(* What one round of the loop under mutex_ does, in terms of the entries.  *)
LEMMA LookupFacts ==
  ASSUME ListInv, NEW t \in Threads, Lookup(t)
  PROVE  \E e \in Entries :
           /\ pc[t] = "lookup" /\ call[t] \in Calls /\ e.key = call[t].key
           /\ \A x \in EntriesIn(lru) : x.key = e.key => x = e
           /\ e \in EntriesIn(lru) \/ e = Fresh(call[t].key)
           /\ \/ /\ Leave(t) /\ Goto(t, "idle")
                 /\ lru' = Touch(lru, e.key) /\ UNCHANGED orphaned
              \/ /\ UNCHANGED <<call, v>> /\ Goto(t, "waiting")
                 /\ lru' = Touch(lru, e.key) /\ UNCHANGED orphaned
              \/ /\ ~e.inProgress
                 /\ v' = [v EXCEPT ![t] = Mark(e)]
                 /\ lru' = Put(lru, Mark(e), max_size) /\ Orphan(t)
                 /\ Goto(t, "get") /\ UNCHANGED call
           /\ UNCHANGED <<max_size, clock, thrown>>
  <1> DEFINE k == call[t].key
             e == Cached(k)
  <1>1. pc[t] = "lookup" /\ call[t] \in Calls /\ k \in Keys
    BY DEF Lookup, ListInv, TypeOK, ThreadOK, Calls
  <1>2. CASE k \in KeysIn(lru)
    <2>1. e = EntryOf(lru, k)
      BY <1>2 DEF Cached
    <2>2. e \in EntriesIn(lru) /\ e.key = k /\ \A x \in EntriesIn(lru) : x.key = k => x = e
      <3>1. Distinct(lru)
        BY DEF ListInv
      <3> HIDE DEF e, k
      <3> QED
        BY <1>2, <2>1, <3>1, PositionFacts
    <2>3. e \in Entries
      BY <2>2 DEF EntriesIn, ListInv
    <2> HIDE DEF e
    <2> QED
      BY <1>1, <2>2, <2>3 DEF Lookup, MustWait, e
  <1>3. CASE k \notin KeysIn(lru)
    <2>1. e = Fresh(k)
      BY <1>3 DEF Cached
    <2>2. e \in Entries /\ e.key = k
      BY <1>1, <2>1, ProxyCacheAssumption DEF Fresh, Entries, Times, ProxyCacheAssumption
    <2>3. \A x \in EntriesIn(lru) : x.key # k
      BY <1>3 DEF EntriesIn, KeysIn
    <2> QED
      BY <1>1, <2>1, <2>2, <2>3 DEF Lookup, MustWait
  <1> QED
    BY <1>2, <1>3

(* The list keeps one entry per key and every variable its type.           *)
LEMMA ListStep ==
  ASSUME ListInv, [Next]_vars
  PROVE  ListInv'
  <1> USE ProxyCacheAssumption DEF ProxyCacheAssumption
  <1>0. /\ pc \in [Threads -> PCs]
        /\ \A t \in Threads : ThreadOK(pc[t], call[t], v[t])
        /\ clock \in 1 .. MaxTime /\ thrown \in BOOLEAN
        /\ max_size \in Sizes /\ \A u \in orphaned : u \in Threads /\ Computing(u)
        /\ lru \in Seq(Entries) /\ Distinct(lru)
        /\ call \in [Threads -> Calls \cup {None}] /\ v \in [Threads -> Entries \cup {None}]
    BY DEF ListInv, TypeOK
  <1>1. ASSUME NEW t \in Threads, ThreadOK(pc'[t], call'[t], v'[t]),
               \A u \in Threads \ {t} : ThreadOK(pc'[u], call'[u], v'[u]),
               pc' \in [Threads -> PCs],
               clock' \in 1 .. MaxTime /\ thrown' \in BOOLEAN,
               max_size' = max_size, \A u \in orphaned' : u \in Threads /\ Computing(u)',
               lru' \in Seq(Entries) /\ Distinct(lru'),
               call' \in [Threads -> Calls \cup {None}], v' \in [Threads -> Entries \cup {None}]
        PROVE  ListInv'
    <2>1. \A i \in 1 .. Len(lru') : lru'[i] \in Entries
      BY <1>1
    <2>2. \A u \in Threads : ThreadOK(pc'[u], call'[u], v'[u])
      BY <1>1, Zenon
    <2> QED
      BY <1>1, <2>1, <2>2, Zenon DEF ListInv, TypeOK
  <1>2. CASE UNCHANGED vars
    <2>1. UNCHANGED <<max_size, lru, pc, call, v, clock, thrown, orphaned>>
      BY <1>2 DEF vars
    <2> QED
      BY <2>1 DEF ListInv, TypeOK, Computing
  <1>3. ASSUME NEW t \in Threads, NEW k \in Keys, NEW b \in BOOLEAN, NEW now \in 1 .. clock,
               Begin(t, k, b, now)
        PROVE  ListInv'
    <2>1. [key |-> k, noBlock |-> b, now |-> now] \in Calls
      BY <1>0 DEF Calls, Times
    <2>2. /\ pc' = [pc EXCEPT ![t] = "lookup"] /\ UNCHANGED <<max_size, lru, v, clock, thrown, orphaned>>
          /\ call' = [call EXCEPT ![t] = [key |-> k, noBlock |-> b, now |-> now]] /\ pc[t] = "idle"
      BY <1>3 DEF Begin, Goto
    <2>3. pc' \in [Threads -> PCs] /\ call' \in [Threads -> Calls \cup {None}]
      BY <1>0, <2>1, <2>2 DEF PCs
    <2>4. ThreadOK(pc'[t], call'[t], v'[t])
      BY <1>0, <2>1, <2>2 DEF ThreadOK
    <2>5. \A u \in Threads \ {t} : ThreadOK(pc'[u], call'[u], v'[u])
      BY <1>0, <2>2
    <2>6. \A u \in orphaned' : u \in Threads /\ Computing(u)'
      BY <1>0, <2>2 DEF Computing
    <2> QED
      BY <1>0, <1>1, <2>2, <2>3, <2>4, <2>5, <2>6
  <1>4. ASSUME NEW t \in Threads, Lookup(t) PROVE ListInv'
    <2>1. PICK e \in Entries :
            /\ pc[t] = "lookup" /\ call[t] \in Calls /\ e.key = call[t].key
            /\ \/ Leave(t) /\ Goto(t, "idle") /\ lru' = Touch(lru, e.key) /\ UNCHANGED orphaned
               \/ /\ UNCHANGED <<call, v>> /\ Goto(t, "waiting")
                  /\ lru' = Touch(lru, e.key) /\ UNCHANGED orphaned
               \/ /\ ~e.inProgress
                  /\ v' = [v EXCEPT ![t] = Mark(e)]
                  /\ lru' = Put(lru, Mark(e), max_size) /\ Orphan(t)
                  /\ Goto(t, "get") /\ UNCHANGED call
            /\ UNCHANGED <<max_size, clock, thrown>>
      BY <1>4, LookupFacts
    <2>2. Mark(e) \in Entries /\ Mark(e).inProgress /\ Mark(e).key = e.key
      BY DEF Mark, Entries
    <2>3. Touch(lru, e.key) \in Seq(Entries) /\ Distinct(Touch(lru, e.key))
      BY <1>0, TouchFacts
    <2>4. Put(lru, Mark(e), max_size) \in Seq(Entries) /\ Distinct(Put(lru, Mark(e), max_size))
      BY <1>0, <2>2, PutFacts
    <2>5. lru' \in Seq(Entries) /\ Distinct(lru')
      BY <2>1, <2>3, <2>4
    <2>6. /\ pc' \in [Threads -> PCs] /\ call' \in [Threads -> Calls \cup {None}]
          /\ v' \in [Threads -> Entries \cup {None}]
      BY <1>0, <2>1, <2>2 DEF PCs, Leave, Goto
    <2>7. ThreadOK(pc'[t], call'[t], v'[t])
      BY <1>0, <2>1, <2>2 DEF ThreadOK, Leave, Goto
    <2>8. \A u \in Threads \ {t} : pc'[u] = pc[u] /\ call'[u] = call[u] /\ v'[u] = v[u]
      BY <1>0, <2>1 DEF Leave, Goto
    <2>9. ASSUME NEW u \in orphaned' PROVE u \in Threads /\ Computing(u)'
      <3>1. u \in orphaned \/ (u \in Threads \ {t} /\ Computing(u) /\ Goto(t, "get"))
        BY <2>1 DEF Orphan
      <3>2. u \in Threads \ {t} /\ Computing(u)
        BY <1>0, <2>1, <3>1 DEF Computing
      <3> QED
        BY <2>8, <3>2 DEF Computing
    <2> QED
      BY <1>0, <1>1, <2>1, <2>5, <2>6, <2>7, <2>8, <2>9
  <1>5. ASSUME NEW t \in Threads, Get(t) PROVE ListInv'
    <2> DEFINE e == [v[t] EXCEPT !.expire = call[t].now + Ttl, !.value = clock]
    <2>1. v[t] \in Entries /\ call[t] \in Calls /\ v[t].inProgress /\ v[t].key = call[t].key
      BY <1>0, <1>5 DEF Get, ThreadOK
    <2>2. e \in Entries /\ e.inProgress /\ e.key = call[t].key
      <3>1. call[t].now + Ttl \in 0 .. MaxTime + Ttl /\ clock \in Times
        BY <1>0, <2>1 DEF Calls, Times
      <3> QED
        BY <2>1, <3>1 DEF Entries
    <2>3. /\ pc' = [pc EXCEPT ![t] = "running"]
          /\ UNCHANGED <<max_size, lru, call, clock, thrown, orphaned>>
          /\ v' = [v EXCEPT ![t] = e]
      BY <1>0, <1>5 DEF Get, Goto
    <2> HIDE DEF e
    <2>4. pc' \in [Threads -> PCs] /\ v' \in [Threads -> Entries \cup {None}]
      BY <1>0, <2>2, <2>3 DEF PCs
    <2>5. ThreadOK(pc'[t], call'[t], v'[t])
      BY <1>0, <2>1, <2>2, <2>3 DEF ThreadOK
    <2>6. \A u \in Threads \ {t} : ThreadOK(pc'[u], call'[u], v'[u])
      BY <1>0, <2>3
    <2>7. \A u \in orphaned' : u \in Threads /\ Computing(u)'
      BY <1>0, <2>3 DEF Computing
    <2> QED
      BY <1>0, <1>1, <2>3, <2>4, <2>5, <2>6, <2>7
  <1>6. ASSUME NEW t \in Threads, Save(t) PROVE ListInv'
    <2>1. v[t] \in Entries
      BY <1>0, <1>6 DEF Save, ThreadOK
    <2>2. Result(v[t]) \in Entries
      BY <2>1 DEF Result, Entries
    <2>3. lru' \in Seq(Entries) /\ Distinct(lru')
      BY <1>0, <1>6, <2>2, PutFacts DEF Save
    <2>4. /\ pc' = [u \in Threads |-> IF u = t THEN "idle" ELSE IF u \in Woken(t) THEN "lookup" ELSE pc[u]]
          /\ call' = [call EXCEPT ![t] = None] /\ v' = [v EXCEPT ![t] = None]
          /\ UNCHANGED <<max_size, clock, thrown>>
      BY <1>6 DEF Save, Leave
    <2>5. /\ pc' \in [Threads -> PCs] /\ call' \in [Threads -> Calls \cup {None}]
          /\ v' \in [Threads -> Entries \cup {None}]
      BY <1>0, <2>4 DEF PCs
    <2>6. ThreadOK(pc'[t], call'[t], v'[t])
      BY <1>0, <2>4 DEF ThreadOK
    <2>7. ASSUME NEW u \in Threads \ {t} PROVE ThreadOK(pc'[u], call'[u], v'[u])
      <3>1. call'[u] = call[u] /\ v'[u] = v[u]
        BY <1>0, <2>4
      <3>2. pc'[u] = pc[u] \/ (pc[u] = "waiting" /\ pc'[u] = "lookup")
        BY <2>4 DEF Woken
      <3>3. ThreadOK(pc[u], call[u], v[u])
        BY <1>0
      <3> QED
        BY <3>1, <3>2, <3>3 DEF ThreadOK
    <2>8. ASSUME NEW u \in orphaned' PROVE u \in Threads /\ Computing(u)'
      <3>1. u \in Threads \ {t} /\ Computing(u)
        BY <1>0, <1>6 DEF Save, Orphan
      <3> QED
        BY <2>4, <3>1 DEF Computing, Woken
    <2> QED
      BY <1>0, <1>1, <2>3, <2>4, <2>5, <2>6, <2>7, <2>8
  <1>7. ASSUME NEW t \in Threads, GetThrows(t) PROVE ListInv'
    <2>1. /\ pc' = [pc EXCEPT ![t] = "idle"] /\ call' = [call EXCEPT ![t] = None]
          /\ v' = [v EXCEPT ![t] = None] /\ UNCHANGED <<max_size, lru, clock>>
          /\ thrown' = TRUE /\ orphaned' = orphaned \ {t}
      BY <1>7 DEF GetThrows, Leave, Goto
    <2>2. /\ pc' \in [Threads -> PCs] /\ call' \in [Threads -> Calls \cup {None}]
          /\ v' \in [Threads -> Entries \cup {None}]
      BY <1>0, <2>1 DEF PCs
    <2>3. ThreadOK(pc'[t], call'[t], v'[t])
      BY <1>0, <2>1 DEF ThreadOK
    <2>4. \A u \in Threads \ {t} : ThreadOK(pc'[u], call'[u], v'[u])
      BY <1>0, <2>1
    <2>5. \A u \in orphaned' : u \in Threads /\ Computing(u)'
      BY <1>0, <2>1 DEF Computing
    <2> QED
      BY <1>0, <1>1, <2>1, <2>2, <2>3, <2>4, <2>5
  <1>8. ASSUME NEW t \in Threads, SpuriousWake(t) PROVE ListInv'
    <2>1. /\ pc[t] = "waiting" /\ pc' = [pc EXCEPT ![t] = "lookup"]
          /\ UNCHANGED <<max_size, lru, call, v, clock, thrown, orphaned>>
      BY <1>8 DEF SpuriousWake, Goto
    <2>2. pc' \in [Threads -> PCs]
      BY <1>0, <2>1 DEF PCs
    <2>3. ThreadOK(pc'[t], call'[t], v'[t])
      BY <1>0, <2>1 DEF ThreadOK
    <2>4. \A u \in Threads \ {t} : ThreadOK(pc'[u], call'[u], v'[u])
      BY <1>0, <2>1
    <2>5. \A u \in orphaned' : u \in Threads /\ Computing(u)'
      BY <1>0, <2>1 DEF Computing
    <2> QED
      BY <1>0, <1>1, <2>1, <2>2, <2>3, <2>4, <2>5
  <1>9. CASE Tick
    <2>1. clock' \in 1 .. MaxTime /\ UNCHANGED <<max_size, lru, pc, call, v, thrown, orphaned>>
      BY <1>0, <1>9 DEF Tick
    <2> QED
      BY <2>1 DEF ListInv, TypeOK, Computing
  <1> QED
    BY <1>2, <1>3, <1>4, <1>5, <1>6, <1>7, <1>8, <1>9 DEF Next, Step

(* What a step that puts e into the list leaves: e, and entries of other   *)
(* keys, as many as there is room for.                                     *)
LEMMA SavedFacts ==
  ASSUME ListInv, NEW e \in Entries, lru' = Put(lru, e, max_size)
  PROVE  /\ e \in EntriesIn(lru')
         /\ EntriesIn(lru') \subseteq {x \in EntriesIn(lru) : x.key # e.key} \cup {e}
  <1>1. lru \in Seq(Entries) /\ Distinct(lru) /\ max_size \in Nat \ {0}
    BY ProxyCacheAssumption DEF ListInv, TypeOK, ProxyCacheAssumption
  <1> QED
    BY <1>1, PutFacts

(* The other threads that own a mark after t has put an entry into the     *)
(* list are those that owned one before and whose key is marked still.     *)
LEMMA OrphanFacts ==
  ASSUME NEW t \in Threads, NEW u \in Threads \ {t}, Orphan(t),
         Computing(u)' <=> Computing(u), Computing(u) => call'[u] = call[u]
  PROVE  Owner(u)' <=> Owner(u) /\ Marked(lru', call[u].key)
  BY Zenon DEF Orphan, Owner

(* The marks of the list and the threads that own them stay in step.       *)
LEMMA FlightStep ==
  ASSUME FlightInv, [Next]_vars
  PROVE  FlightInv'
  <1>0. /\ ListInv /\ MarkInv /\ OwnerInv /\ pc \in [Threads -> PCs]
        /\ \A t \in Threads : ThreadOK(pc[t], call[t], v[t])
        /\ lru \in Seq(Entries) /\ Distinct(lru)
        /\ call \in [Threads -> Calls \cup {None}] /\ v \in [Threads -> Entries \cup {None}]
    BY DEF FlightInv, ListInv, TypeOK
  <1>1. ListInv'
    BY <1>0, ListStep
  <1>2. ASSUME EntriesIn(lru') = EntriesIn(lru), thrown' = thrown, orphaned' = orphaned,
               \A u \in Threads : /\ Computing(u)' <=> Computing(u)
                                  /\ Computing(u) => call'[u] = call[u]
        PROVE  FlightInv'
    <2>0. \A u \in Threads : (Owner(u)' <=> Owner(u)) /\ (Owner(u) => call'[u] = call[u])
      BY <1>2, Zenon DEF Owner
    <2>1. MarkInv'
      BY <1>0, <1>2, <2>0, Zenon DEF MarkInv, Marked
    <2>2. OwnerInv'
      BY <1>0, <1>2, <2>0, Zenon DEF OwnerInv
    <2> QED
      BY <1>1, <2>1, <2>2, Zenon DEF FlightInv
  <1>3. CASE UNCHANGED vars
    BY <1>2, <1>3 DEF vars, Computing
  <1>4. ASSUME NEW t \in Threads, NEW k \in Keys, NEW b \in BOOLEAN, NEW now \in 1 .. clock,
               Begin(t, k, b, now)
        PROVE  FlightInv'
    BY <1>0, <1>2, <1>4 DEF Begin, Goto, Computing
  <1>5. ASSUME NEW t \in Threads, Get(t) PROVE FlightInv'
    BY <1>0, <1>2, <1>5 DEF Get, Goto, Computing
  <1>6. ASSUME NEW t \in Threads, SpuriousWake(t) PROVE FlightInv'
    BY <1>0, <1>2, <1>6 DEF SpuriousWake, Goto, Computing
  <1>7. CASE Tick
    BY <1>2, <1>7 DEF Tick, Computing
  <1>8. ASSUME NEW t \in Threads, GetThrows(t) PROVE FlightInv'
    <2>0. /\ UNCHANGED lru /\ thrown' /\ orphaned' = orphaned \ {t} /\ ~Computing(t)'
          /\ \A u \in Threads : Computing(u)' => Computing(u) /\ call'[u] = call[u]
      BY <1>0, <1>8 DEF GetThrows, Leave, Goto, Computing
    <2>1. \A u \in Threads : Owner(u)' => Owner(u) /\ call'[u] = call[u]
      BY <2>0, Zenon DEF Owner
    <2>2. MarkInv'
      BY <1>0, <2>0, <2>1, Zenon DEF MarkInv
    <2>3. ASSUME NEW u \in Threads, NEW w \in Threads,
                 Owner(u)', Owner(w)', call'[u].key = call'[w].key
          PROVE  u = w
      <3>1. Owner(u) /\ Owner(w) /\ call[u].key = call[w].key
        BY <2>1, <2>3, Zenon
      <3> QED
        BY <1>0, <3>1, Zenon DEF OwnerInv
    <2>4. OwnerInv'
      BY <2>0, <2>3, Zenon DEF OwnerInv
    <2> QED
      BY <1>1, <2>2, <2>4, Zenon DEF FlightInv
  <1>9. ASSUME NEW t \in Threads, Lookup(t) PROVE FlightInv'
    <2>1. PICK e \in Entries :
            /\ pc[t] = "lookup" /\ call[t] \in Calls /\ e.key = call[t].key
            /\ \A x \in EntriesIn(lru) : x.key = e.key => x = e
            /\ \/ Leave(t) /\ Goto(t, "idle") /\ lru' = Touch(lru, e.key) /\ UNCHANGED orphaned
               \/ /\ UNCHANGED <<call, v>> /\ Goto(t, "waiting")
                  /\ lru' = Touch(lru, e.key) /\ UNCHANGED orphaned
               \/ /\ ~e.inProgress
                  /\ lru' = Put(lru, Mark(e), max_size) /\ Orphan(t)
                  /\ Goto(t, "get") /\ UNCHANGED call
            /\ UNCHANGED <<clock, thrown>>
      BY <1>0, <1>9, LookupFacts
    <2>2. EntriesIn(Touch(lru, e.key)) = EntriesIn(lru)
      BY <1>0, TouchFacts
    <2>3. CASE Leave(t) /\ Goto(t, "idle") /\ lru' = Touch(lru, e.key) /\ UNCHANGED orphaned
      BY <1>0, <1>2, <2>1, <2>2, <2>3 DEF Leave, Goto, Computing
    <2>4. CASE /\ UNCHANGED <<call, v>> /\ Goto(t, "waiting")
               /\ lru' = Touch(lru, e.key) /\ UNCHANGED orphaned
      BY <1>0, <1>2, <2>1, <2>2, <2>4 DEF Goto, Computing
    <2>5. CASE /\ ~e.inProgress /\ lru' = Put(lru, Mark(e), max_size) /\ Orphan(t)
               /\ Goto(t, "get") /\ UNCHANGED call
      <3> DEFINE m == Mark(e)
      <3>1. m \in Entries /\ m.key = e.key /\ m.inProgress
        BY DEF Mark, Entries
      <3>2. m \in EntriesIn(lru') /\ EntriesIn(lru') \subseteq {x \in EntriesIn(lru) : x.key # m.key} \cup {m}
        BY <1>0, <2>5, <3>1, SavedFacts
      <3> HIDE DEF m
      <3>3. /\ call' = call /\ thrown' = thrown /\ Computing(t)' /\ ~Computing(t)
            /\ \A u \in Threads \ {t} : Computing(u)' <=> Computing(u)
        BY <1>0, <2>1, <2>5 DEF Goto, Computing
      <3>4. \A u \in Threads \ {t} : Owner(u)' <=> Owner(u) /\ Marked(lru', call[u].key)
        BY <2>5, <3>3, OrphanFacts, Zenon
      <3>5. ~Owner(t) /\ Owner(t)'
        BY <2>5, <3>3, Zenon DEF Owner, Orphan
      <3>6. \A u \in Threads : Owner(u) => call[u].key # e.key
        BY <1>0, <2>1, <2>5, Zenon DEF MarkInv, Marked
      <3>7. MarkInv'
        <4>1. Marked(lru', call[t].key)
          BY <2>1, <3>1, <3>2, Zenon DEF Marked
        <4>2. \A u \in Threads : Owner(u)' => Marked(lru', call'[u].key)
          BY <3>3, <3>4, <4>1, Zenon
        <4> QED
          BY <4>2, Zenon DEF MarkInv
      <3>8. OwnerInv'
        <4>1. ASSUME NEW u \in Threads, NEW w \in Threads,
                     Owner(u)', Owner(w)', call'[u].key = call'[w].key
              PROVE  u = w
          <5>1. u # t /\ w # t => u = w
            BY <1>0, <3>3, <3>4, <4>1, Zenon DEF OwnerInv
          <5>2. u = t => w = t
            BY <2>1, <3>3, <3>4, <3>6, <4>1, Zenon
          <5>3. w = t => u = t
            BY <2>1, <3>3, <3>4, <3>6, <4>1, Zenon
          <5> QED
            BY <5>1, <5>2, <5>3, Zenon
        <4>2. ASSUME ~thrown', NEW x \in EntriesIn(lru'), x.inProgress
              PROVE  \E u \in Threads : Owner(u)' /\ call'[u].key = x.key
          <5>1. CASE x = m
            BY <2>1, <3>1, <3>3, <3>5, <5>1, Zenon
          <5>2. CASE x \in EntriesIn(lru)
            <6>1. PICK u \in Threads : Owner(u) /\ call[u].key = x.key
              BY <1>0, <3>3, <4>2, <5>2, Zenon DEF OwnerInv
            <6>2. Marked(lru', call[u].key) /\ u # t
              BY <3>5, <4>2, <6>1, Zenon DEF Marked
            <6> QED
              BY <3>3, <3>4, <6>1, <6>2, Zenon
          <5> QED
            BY <3>2, <4>2, <5>1, <5>2, Zenon
        <4> QED
          BY <4>1, <4>2, Zenon DEF OwnerInv
      <3> QED
        BY <1>1, <3>7, <3>8, Zenon DEF FlightInv
    <2> QED
      BY <2>1, <2>3, <2>4, <2>5
  <1>10. ASSUME NEW t \in Threads, Save(t) PROVE FlightInv'
    <2> DEFINE r == Result(v[t])
    <2>1. v[t] \in Entries /\ v[t].key = call[t].key /\ Computing(t)
      BY <1>0, <1>10 DEF Save, ThreadOK, Computing
    <2>2. r \in Entries /\ r.key = call[t].key /\ ~r.inProgress
      BY <2>1 DEF Result, Entries
    <2>3. EntriesIn(lru') \subseteq {x \in EntriesIn(lru) : x.key # r.key} \cup {r}
      BY <1>0, <1>10, <2>2, SavedFacts DEF Save
    <2>4. /\ thrown' = thrown /\ ~Computing(t)' /\ Orphan(t)
          /\ \A u \in Threads \ {t} : (Computing(u)' <=> Computing(u)) /\ call'[u] = call[u]
      BY <1>0, <1>10 DEF Save, Leave, Woken, Computing
    <2> HIDE DEF r
    <2>5. \A u \in Threads \ {t} : Owner(u)' <=> Owner(u) /\ Marked(lru', call[u].key)
      BY <2>4, OrphanFacts, Zenon
    <2>6. ~Owner(t)'
      BY <2>4, Zenon DEF Owner
    <2>7. MarkInv'
      BY <2>4, <2>5, <2>6, Zenon DEF MarkInv
    <2>8. OwnerInv'
      <3>1. ASSUME NEW u \in Threads, NEW w \in Threads,
                   Owner(u)', Owner(w)', call'[u].key = call'[w].key
            PROVE  u = w
        <4>1. u # t /\ w # t
          BY <2>6, <3>1, Zenon
        <4>2. Owner(u) /\ Owner(w) /\ call[u].key = call[w].key
          BY <2>4, <2>5, <3>1, <4>1, Zenon
        <4> QED
          BY <1>0, <4>2, Zenon DEF OwnerInv
      <3>2. ASSUME ~thrown', NEW x \in EntriesIn(lru'), x.inProgress
            PROVE  \E u \in Threads : Owner(u)' /\ call'[u].key = x.key
        <4>1. x \in EntriesIn(lru) /\ x.key # r.key
          BY <2>2, <2>3, <3>2, Zenon
        <4>2. PICK u \in Threads : Owner(u) /\ call[u].key = x.key
          BY <1>0, <2>4, <3>2, <4>1, Zenon DEF OwnerInv
        <4>3. u # t /\ Marked(lru', call[u].key)
          BY <2>2, <3>2, <4>1, <4>2, Zenon DEF Marked
        <4> QED
          BY <2>4, <2>5, <4>2, <4>3, Zenon
      <3> QED
        BY <3>1, <3>2, Zenon DEF OwnerInv
    <2> QED
      BY <1>1, <2>7, <2>8, Zenon DEF FlightInv
  <1> QED
    BY <1>3, <1>4, <1>5, <1>6, <1>7, <1>8, <1>9, <1>10 DEF Next, Step

(* The list is empty at first and nobody calls.                            *)
LEMMA InitFacts ==
  ASSUME Init
  PROVE  ListInv /\ EntriesIn(lru) = {} /\ \A t \in Threads : pc[t] = "idle"
  <1> USE ProxyCacheAssumption DEF ProxyCacheAssumption
  <1>1. /\ lru = <<>> /\ clock = 1 /\ thrown = FALSE
        /\ pc = [t \in Threads |-> "idle"] /\ call = [t \in Threads |-> None]
        /\ v = [t \in Threads |-> None] /\ max_size \in Sizes /\ orphaned = {}
    BY DEF Init
  <1>2. Len(lru) = 0 /\ lru \in Seq(Entries)
    BY <1>1
  <1>3. EntriesIn(lru) = {} /\ Distinct(lru)
    BY <1>2 DEF EntriesIn, Distinct
  <1>4. TypeOK
    <2>1. pc \in [Threads -> PCs] /\ \A t \in Threads : ThreadOK(pc[t], call[t], v[t])
      BY <1>1 DEF ThreadOK, PCs
    <2>2. clock \in 1 .. MaxTime /\ \A i \in 1 .. Len(lru) : lru[i] \in Entries
      BY <1>1, <1>2
    <2> QED
      BY <1>1, <2>1, <2>2, Zenon DEF TypeOK
  <1> QED
    BY <1>1, <1>2, <1>3, <1>4 DEF ListInv

(* The calls of proxy_cache.h never run two queries of a key in parallel,  *)
(* unless the mark of one of them has gone from the list, and every mark   *)
(* has its query, for any size of the cache and any numbers of keys,       *)
(* threads and times.                                                      *)
THEOREM QueriesDoNotHerd == Spec => []OneQueryPerKey
  <1>1. Init => FlightInv
    BY InitFacts DEF FlightInv, MarkInv, OwnerInv, Owner, Computing
  <1>2. FlightInv /\ [Next]_vars => FlightInv'
    BY FlightStep
  <1>3. FlightInv => OneQueryPerKey
    <2> SUFFICES ASSUME FlightInv PROVE OneQueryPerKey
      OBVIOUS
    <2>1. TypeOK /\ OwnerInv
      BY DEF FlightInv, ListInv
    <2>2. SingleFlight
      BY <2>1 DEF SingleFlight, OwnerInv, Owner
    <2>3. ProgressHasOwner
      BY <2>1 DEF ProgressHasOwner, OwnerInv, Owner, EntriesIn
    <2> QED
      BY <2>1, <2>2, <2>3 DEF OneQueryPerKey
  <1> QED
    BY <1>1, <1>2, <1>3, PTL DEF Spec

(* A list without a key twice has one entry of a key.                      *)
LEMMA OneEntry ==
  ASSUME ListInv, NEW x \in EntriesIn(lru), NEW y \in EntriesIn(lru), x.key = y.key
  PROVE  x = y
  BY DEF ListInv, EntriesIn, Distinct

(* What can be in the list after a step: what was there, a marked entry,   *)
(* or the answer of the thread that saves.                                 *)
LEMMA SourceFacts ==
  ASSUME ListInv, [Next]_vars, NEW y \in EntriesIn(lru')
  PROVE  \/ y \in EntriesIn(lru)
         \/ \E t \in Threads : Lookup(t) /\ \E e \in Entries :
              y = Mark(e) /\ (e \in EntriesIn(lru) \/ e = Fresh(call[t].key))
         \/ \E t \in Threads : Save(t) /\ y = Result(v[t])
  <1>0. /\ lru \in Seq(Entries) /\ Distinct(lru) /\ max_size \in Nat \ {0}
        /\ \A t \in Threads : ThreadOK(pc[t], call[t], v[t])
    BY ProxyCacheAssumption DEF ListInv, TypeOK, ProxyCacheAssumption
  <1>1. CASE lru' = lru
    BY <1>1
  <1>2. ASSUME NEW t \in Threads, Lookup(t)
        PROVE  \/ y \in EntriesIn(lru)
               \/ \E e \in Entries : y = Mark(e) /\ (e \in EntriesIn(lru) \/ e = Fresh(call[t].key))
    <2>1. PICK e \in Entries :
            /\ e \in EntriesIn(lru) \/ e = Fresh(call[t].key)
            /\ lru' = Touch(lru, e.key) \/ lru' = Put(lru, Mark(e), max_size)
      BY <1>2, LookupFacts
    <2>2. CASE lru' = Touch(lru, e.key)
      BY <1>0, <2>2, TouchFacts
    <2>3. CASE lru' = Put(lru, Mark(e), max_size)
      <3>1. Mark(e) \in Entries
        BY DEF Mark, Entries
      <3>2. EntriesIn(lru') \subseteq {x \in EntriesIn(lru) : x.key # Mark(e).key} \cup {Mark(e)}
        BY <1>0, <2>3, <3>1, PutFacts
      <3> QED
        BY <2>1, <3>2, Zenon
    <2> QED
      BY <2>1, <2>2, <2>3
  <1>3. ASSUME NEW t \in Threads, Save(t)
        PROVE  y \in EntriesIn(lru) \/ y = Result(v[t])
    <2>1. Result(v[t]) \in Entries
      BY <1>0, <1>3 DEF Save, ThreadOK, Result, Entries
    <2>2. lru' = Put(lru, Result(v[t]), max_size)
      BY <1>3 DEF Save
    <2>3. EntriesIn(lru') \subseteq {x \in EntriesIn(lru) : x.key # Result(v[t]).key} \cup {Result(v[t])}
      BY <1>0, <2>1, <2>2, PutFacts
    <2> QED
      BY <2>3, Zenon
  <1>4. \/ lru' = lru
        \/ \E t \in Threads : Lookup(t) \/ Save(t)
    BY DEF Next, Step, vars, Begin, Get, GetThrows, SpuriousWake, Tick
  <1> QED
    BY <1>1, <1>2, <1>3, <1>4, Zenon

(* An answer is as fresh as its expiry says, also one that is under way.   *)
LEMMA FreshStep ==
  ASSUME FreshInv, [Next]_vars
  PROVE  FreshInv'
  <1> USE ProxyCacheAssumption DEF ProxyCacheAssumption
  <1>0. /\ ListInv /\ pc \in [Threads -> PCs] /\ clock \in 1 .. MaxTime
        /\ \A t \in Threads : ThreadOK(pc[t], call[t], v[t])
        /\ call \in [Threads -> Calls \cup {None}] /\ v \in [Threads -> Entries \cup {None}]
        /\ \A t \in Threads : pc[t] # "idle" => call[t].now <= clock
        /\ \A t \in Threads : pc[t] = "running" => v[t].value + Ttl >= v[t].expire
        /\ \A e \in EntriesIn(lru) : e.expire # 0 => e.value + Ttl >= e.expire
    BY DEF FreshInv, ListInv, TypeOK
  <1>1. ListInv'
    BY <1>0, ListStep
  <1>2. \A e \in EntriesIn(lru') : e.expire # 0 => e.value + Ttl >= e.expire
    <2> SUFFICES ASSUME NEW y \in EntriesIn(lru'), y.expire # 0 PROVE y.value + Ttl >= y.expire
      OBVIOUS
    <2>1. CASE y \in EntriesIn(lru)
      BY <1>0, <2>1
    <2>2. ASSUME NEW t \in Threads, NEW e \in Entries, y = Mark(e),
                 e \in EntriesIn(lru) \/ e = Fresh(call[t].key)
          PROVE  y.value + Ttl >= y.expire
      <3>1. y.value = e.value /\ y.expire = e.expire
        BY <2>2 DEF Mark, Entries
      <3>2. e \in EntriesIn(lru)
        BY <2>2, <3>1 DEF Fresh
      <3> QED
        BY <1>0, <3>1, <3>2
    <2>3. ASSUME NEW t \in Threads, Save(t), y = Result(v[t]) PROVE y.value + Ttl >= y.expire
      <3>1. v[t] \in Entries /\ v[t].value + Ttl >= v[t].expire
        BY <1>0, <2>3 DEF Save, ThreadOK
      <3> QED
        BY <2>3, <3>1 DEF Result, Entries
    <2> QED
      BY <1>0, <2>1, <2>2, <2>3, SourceFacts
  <1>3. ASSUME NEW u \in Threads
        PROVE  /\ pc'[u] # "idle" => call'[u].now <= clock'
               /\ pc'[u] = "running" => v'[u].value + Ttl >= v'[u].expire
    <2>0. ASSUME call'[u] = call[u], v'[u] = v[u], clock' >= clock, clock' \in Nat,
                 pc'[u] = pc[u] \/ (pc[u] # "idle" /\ pc'[u] # "running")
          PROVE  /\ pc'[u] # "idle" => call'[u].now <= clock'
                 /\ pc'[u] = "running" => v'[u].value + Ttl >= v'[u].expire
      <3>1. pc[u] # "idle" => call[u].now \in Nat
        BY <1>0 DEF ThreadOK, Calls, Times
      <3> QED
        BY <1>0, <2>0, <3>1
    <2>1. CASE UNCHANGED vars
      BY <1>0, <2>0, <2>1 DEF vars
    <2>2. ASSUME NEW t \in Threads, NEW k \in Keys, NEW b \in BOOLEAN, NEW now \in 1 .. clock,
                 Begin(t, k, b, now)
          PROVE  /\ pc'[u] # "idle" => call'[u].now <= clock'
                 /\ pc'[u] = "running" => v'[u].value + Ttl >= v'[u].expire
      <3>1. CASE u = t
        BY <1>0, <2>2, <3>1 DEF Begin, Goto
      <3>2. CASE u # t
        BY <1>0, <2>0, <2>2, <3>2 DEF Begin, Goto
      <3> QED
        BY <3>1, <3>2
    <2>3. ASSUME NEW t \in Threads, Lookup(t)
          PROVE  /\ pc'[u] # "idle" => call'[u].now <= clock'
                 /\ pc'[u] = "running" => v'[u].value + Ttl >= v'[u].expire
      <3>1. /\ pc[t] = "lookup" /\ clock' = clock
            /\ \/ Leave(t) /\ Goto(t, "idle")
               \/ UNCHANGED <<call, v>> /\ Goto(t, "waiting")
               \/ UNCHANGED call /\ (\E e \in Entries : v' = [v EXCEPT ![t] = e]) /\ Goto(t, "get")
        <4>1. PICK e \in Entries :
            /\ pc[t] = "lookup"
            /\ \/ Leave(t) /\ Goto(t, "idle") /\ lru' = Touch(lru, e.key)
               \/ UNCHANGED <<call, v>> /\ Goto(t, "waiting") /\ lru' = Touch(lru, e.key)
               \/ v' = [v EXCEPT ![t] = Mark(e)] /\ Goto(t, "get") /\ UNCHANGED call
            /\ UNCHANGED <<clock, thrown>>
          BY <1>0, <2>3, LookupFacts
        <4>2. Mark(e) \in Entries
          BY DEF Mark, Entries
        <4> QED
          BY <4>1, <4>2
      <3>2. CASE u = t
        BY <1>0, <3>1, <3>2 DEF Leave, Goto
      <3>3. CASE u # t
        <4>1. call'[u] = call[u] /\ v'[u] = v[u] /\ pc'[u] = pc[u]
          BY <1>0, <3>1, <3>3 DEF Leave, Goto
        <4> QED
          BY <1>0, <2>0, <3>1, <4>1
      <3> QED
        BY <3>2, <3>3
    <2>4. ASSUME NEW t \in Threads, Get(t)
          PROVE  /\ pc'[u] # "idle" => call'[u].now <= clock'
                 /\ pc'[u] = "running" => v'[u].value + Ttl >= v'[u].expire
      <3>1. CASE u = t
        <4>1. v[t] \in Entries /\ call[t] \in Calls /\ call[t].now <= clock
          BY <1>0, <2>4 DEF Get, ThreadOK
        <4>2. v'[t].value = clock /\ v'[t].expire = call[t].now + Ttl /\ call' = call /\ clock' = clock
          BY <1>0, <2>4, <4>1 DEF Get, Entries
        <4>3. call[t].now \in Nat
          BY <4>1 DEF Calls, Times
        <4> QED
          BY <1>0, <3>1, <4>1, <4>2, <4>3
      <3>2. CASE u # t
        BY <1>0, <2>0, <2>4, <3>2 DEF Get, Goto
      <3> QED
        BY <3>1, <3>2
    <2>5. ASSUME NEW t \in Threads, Save(t)
          PROVE  /\ pc'[u] # "idle" => call'[u].now <= clock'
                 /\ pc'[u] = "running" => v'[u].value + Ttl >= v'[u].expire
      <3>1. CASE u = t
        BY <1>0, <2>5, <3>1 DEF Save
      <3>2. CASE u # t
        BY <1>0, <2>0, <2>5, <3>2 DEF Save, Leave, Woken
      <3> QED
        BY <3>1, <3>2
    <2>6. ASSUME NEW t \in Threads, GetThrows(t)
          PROVE  /\ pc'[u] # "idle" => call'[u].now <= clock'
                 /\ pc'[u] = "running" => v'[u].value + Ttl >= v'[u].expire
      <3>1. CASE u = t
        BY <1>0, <2>6, <3>1 DEF GetThrows, Goto
      <3>2. CASE u # t
        BY <1>0, <2>0, <2>6, <3>2 DEF GetThrows, Goto, Leave
      <3> QED
        BY <3>1, <3>2
    <2>7. ASSUME NEW t \in Threads, SpuriousWake(t)
          PROVE  /\ pc'[u] # "idle" => call'[u].now <= clock'
                 /\ pc'[u] = "running" => v'[u].value + Ttl >= v'[u].expire
      BY <1>0, <2>0, <2>7 DEF SpuriousWake, Goto
    <2>8. CASE Tick
      BY <1>0, <2>0, <2>8 DEF Tick
    <2> QED
      BY <2>1, <2>2, <2>3, <2>4, <2>5, <2>6, <2>7, <2>8 DEF Next, Step
  <1> QED
    BY <1>1, <1>2, <1>3, Zenon DEF FreshInv

(* The answer of the thread that owns the mark of a key is the youngest of *)
(* the key, and replaces an older one.                                     *)
LEMMA AgeStep ==
  ASSUME FlightInv, AgeInv, [Next]_vars
  PROVE  AgeInv' /\ NotOlder
  <1>0. /\ ListInv /\ MarkInv /\ OwnerInv /\ pc \in [Threads -> PCs] /\ clock \in Nat
        /\ \A t \in Threads : ThreadOK(pc[t], call[t], v[t])
        /\ lru \in Seq(Entries) /\ Distinct(lru)
        /\ call \in [Threads -> Calls \cup {None}] /\ v \in [Threads -> Entries \cup {None}]
    BY DEF FlightInv, ListInv, TypeOK
  <1>1. \A x \in EntriesIn(lru) : x \in Entries
    BY <1>0 DEF EntriesIn
  <1>2. \A x \in Entries : x.value \in Nat
    BY DEF Entries, Times
  <1>3. ASSUME EntriesIn(lru') = EntriesIn(lru), clock' >= clock, clock' \in Nat,
               \A u \in Threads : Computing(u)' =>
                 Computing(u) /\ call'[u] = call[u] /\ v'[u] = v[u],
               \A u \in Threads : u \in orphaned => u \in orphaned' \/ ~Computing(u)'
        PROVE  AgeInv' /\ NotOlder
    <2>1. NotOlder
      <3>1. ASSUME NEW x \in EntriesIn(lru), NEW y \in EntriesIn(lru'), x.key = y.key
            PROVE  x.value <= y.value
        <4>1. x = y
          BY <1>0, <1>3, <3>1, OneEntry
        <4>2. x.value \in Nat
          BY <1>1, <1>2, Zenon
        <4> QED
          BY <4>1, <4>2
      <3> QED
        BY <3>1 DEF NotOlder
    <2>2. ASSUME NEW e \in EntriesIn(lru') PROVE e.value <= clock'
      <3>1. e.value \in Nat /\ e.value <= clock
        BY <1>1, <1>2, <1>3 DEF AgeInv
      <3> QED
        BY <1>0, <1>3, <3>1
    <2>3. ASSUME NEW u \in Threads, Owner(u)', NEW e \in EntriesIn(lru'), e.key = call'[u].key
          PROVE  e.value <= v'[u].value
      <3>1. e \in EntriesIn(lru) /\ Owner(u) /\ e.key = call[u].key
        BY <1>3, <2>3, Zenon DEF Owner
      <3>2. e.value <= v[u].value
        BY <3>1 DEF AgeInv
      <3>3. v[u] \in Entries
        BY <1>0, <3>1 DEF ThreadOK, Owner, Computing
      <3>4. e.value \in Nat /\ v[u].value \in Nat
        BY <1>1, <1>2, <3>1, <3>3, Zenon
      <3>5. v'[u] = v[u]
        BY <1>3, <2>3, Zenon DEF Owner
      <3> QED
        BY <3>2, <3>4, <3>5
    <2>4. ASSUME NEW u \in Threads, Computing(u)' PROVE v'[u].value <= clock'
      <3>1. Computing(u) /\ v'[u] = v[u]
        BY <1>3, <2>4, Zenon
      <3>2. v[u] \in Entries /\ v[u].value <= clock
        BY <1>0, <3>1 DEF ThreadOK, Computing, AgeInv
      <3>3. v[u].value \in Nat
        BY <1>2, <3>2, Zenon
      <3> QED
        BY <1>0, <1>3, <3>1, <3>2, <3>3
    <2>5. AgeInv'
      BY <2>2, <2>3, <2>4, Zenon DEF AgeInv
    <2> QED
      BY <2>1, <2>5
  <1>4. ASSUME NEW u \in Threads, Computing(u) PROVE v[u] \in Entries /\ v[u].value \in Nat
    BY <1>0, <1>2, <1>4 DEF ThreadOK, Computing
  <1>5. CASE UNCHANGED vars
    <2>1. /\ EntriesIn(lru') = EntriesIn(lru) /\ clock' = clock /\ orphaned' = orphaned
          /\ \A u \in Threads : (Computing(u)' <=> Computing(u)) /\ call'[u] = call[u] /\ v'[u] = v[u]
      BY <1>5 DEF vars, Computing
    <2> QED
      BY <1>0, <1>3, <2>1
  <1>6. ASSUME NEW t \in Threads, NEW k \in Keys, NEW b \in BOOLEAN, NEW now \in 1 .. clock,
               Begin(t, k, b, now)
        PROVE  AgeInv' /\ NotOlder
    <2>1. /\ EntriesIn(lru') = EntriesIn(lru) /\ clock' = clock /\ orphaned' = orphaned
          /\ \A u \in Threads : Computing(u)' => Computing(u) /\ call'[u] = call[u] /\ v'[u] = v[u]
      BY <1>0, <1>6 DEF Begin, Goto, Computing
    <2> QED
      BY <1>0, <1>3, <2>1
  <1>7. ASSUME NEW t \in Threads, Get(t) PROVE AgeInv' /\ NotOlder
    <2>1. /\ EntriesIn(lru') = EntriesIn(lru) /\ clock' = clock /\ call' = call /\ orphaned' = orphaned
          /\ \A u \in Threads \ {t} : (Computing(u)' <=> Computing(u)) /\ v'[u] = v[u]
      BY <1>0, <1>7 DEF Get, Goto, Computing
    <2>2. Computing(t)
      BY <1>7 DEF Get, Computing
    <2>3. v'[t].value = clock
      BY <1>0, <1>4, <1>7, <2>2 DEF Get, Entries
    <2>4. ASSUME NEW u \in Threads, Owner(u)', NEW e \in EntriesIn(lru'), e.key = call'[u].key
          PROVE  e.value <= v'[u].value
      <3>1. CASE u = t
        BY <2>1, <2>3, <2>4, <3>1 DEF AgeInv
      <3>2. CASE u # t
        <4>1. Owner(u)
          BY <2>1, <2>4, <3>2, Zenon DEF Owner
        <4> QED
          BY <2>1, <2>4, <3>2, <4>1 DEF AgeInv
      <3> QED
        BY <3>1, <3>2
    <2>5. AgeInv'
      <3>1. \A u \in Threads : Computing(u)' => v'[u].value <= clock'
        BY <1>0, <2>1, <2>3 DEF AgeInv
      <3>2. \A e \in EntriesIn(lru') : e.value <= clock'
        BY <2>1 DEF AgeInv
      <3> QED
        BY <2>4, <3>1, <3>2, Zenon DEF AgeInv
    <2>6. NotOlder
      <3>1. ASSUME NEW x \in EntriesIn(lru), NEW y \in EntriesIn(lru'), x.key = y.key
            PROVE  x.value <= y.value
        <4>1. x = y
          BY <1>0, <2>1, <3>1, OneEntry
        <4>2. x.value \in Nat
          BY <1>1, <1>2, Zenon
        <4> QED
          BY <4>1, <4>2
      <3> QED
        BY <3>1 DEF NotOlder
    <2> QED
      BY <2>5, <2>6
  <1>8. ASSUME NEW t \in Threads, GetThrows(t) PROVE AgeInv' /\ NotOlder
    <2>1. /\ EntriesIn(lru') = EntriesIn(lru) /\ clock' = clock
          /\ orphaned' = orphaned \ {t} /\ ~Computing(t)'
          /\ \A u \in Threads : Computing(u)' => Computing(u) /\ call'[u] = call[u] /\ v'[u] = v[u]
      BY <1>0, <1>8 DEF GetThrows, Goto, Leave, Computing
    <2> QED
      BY <1>0, <1>3, <2>1
  <1>9. ASSUME NEW t \in Threads, SpuriousWake(t) PROVE AgeInv' /\ NotOlder
    <2>1. /\ EntriesIn(lru') = EntriesIn(lru) /\ clock' = clock /\ orphaned' = orphaned
          /\ \A u \in Threads : Computing(u)' => Computing(u) /\ call'[u] = call[u] /\ v'[u] = v[u]
      BY <1>0, <1>9 DEF SpuriousWake, Goto, Computing
    <2> QED
      BY <1>0, <1>3, <2>1
  <1>10. CASE Tick
    <2>1. /\ EntriesIn(lru') = EntriesIn(lru) /\ clock' = clock + 1 /\ orphaned' = orphaned
          /\ \A u \in Threads : (Computing(u)' <=> Computing(u)) /\ call'[u] = call[u] /\ v'[u] = v[u]
      BY <1>10 DEF Tick, Computing
    <2>2. clock' \in Nat /\ clock' >= clock
      BY <1>0, <2>1
    <2> QED
      BY <1>0, <1>3, <2>1, <2>2
  <1>11. ASSUME NEW t \in Threads, Lookup(t) PROVE AgeInv' /\ NotOlder
    <2>1. PICK e \in Entries :
            /\ pc[t] = "lookup" /\ call[t] \in Calls /\ e.key = call[t].key
            /\ \A x \in EntriesIn(lru) : x.key = e.key => x = e
            /\ e \in EntriesIn(lru) \/ e = Fresh(call[t].key)
            /\ \/ Leave(t) /\ Goto(t, "idle") /\ lru' = Touch(lru, e.key) /\ UNCHANGED orphaned
               \/ /\ UNCHANGED <<call, v>> /\ Goto(t, "waiting")
                  /\ lru' = Touch(lru, e.key) /\ UNCHANGED orphaned
               \/ /\ ~e.inProgress
                  /\ v' = [v EXCEPT ![t] = Mark(e)]
                  /\ lru' = Put(lru, Mark(e), max_size) /\ Orphan(t)
                  /\ Goto(t, "get") /\ UNCHANGED call
            /\ UNCHANGED <<clock, thrown>>
      BY <1>0, <1>11, LookupFacts
    <2>2. EntriesIn(Touch(lru, e.key)) = EntriesIn(lru)
      BY <1>0, TouchFacts
    <2>3. CASE Leave(t) /\ Goto(t, "idle") /\ lru' = Touch(lru, e.key) /\ UNCHANGED orphaned
      <3>1. \A u \in Threads : Computing(u)' => Computing(u) /\ call'[u] = call[u] /\ v'[u] = v[u]
        BY <1>0, <2>1, <2>3 DEF Goto, Leave, Computing
      <3> QED
        BY <1>0, <1>3, <2>1, <2>2, <2>3, <3>1
    <2>4. CASE /\ UNCHANGED <<call, v>> /\ Goto(t, "waiting")
               /\ lru' = Touch(lru, e.key) /\ UNCHANGED orphaned
      <3>1. \A u \in Threads : Computing(u)' => Computing(u) /\ call'[u] = call[u] /\ v'[u] = v[u]
        BY <1>0, <2>1, <2>4 DEF Goto, Computing
      <3> QED
        BY <1>0, <1>3, <2>1, <2>2, <2>4, <3>1
    <2>5. CASE /\ ~e.inProgress /\ lru' = Put(lru, Mark(e), max_size) /\ Orphan(t)
               /\ Goto(t, "get") /\ UNCHANGED call /\ v' = [v EXCEPT ![t] = Mark(e)]
      <3> DEFINE m == Mark(e)
      <3>1. m \in Entries /\ m.key = e.key /\ m.value = e.value /\ m.value \in Nat
        BY <1>2 DEF Mark, Entries
      <3>2. EntriesIn(lru') \subseteq {x \in EntriesIn(lru) : x.key # m.key} \cup {m}
        BY <1>0, <2>5, <3>1, SavedFacts
      <3>3. v'[t] = m /\ \A u \in Threads \ {t} : v'[u] = v[u]
        BY <1>0, <2>5
      <3> HIDE DEF m
      <3>4. call' = call /\ clock' = clock /\ \A u \in Threads \ {t} : Computing(u)' <=> Computing(u)
        BY <1>0, <2>1, <2>5 DEF Goto, Computing
      <3>5. \A u \in Threads : Owner(u) => call[u].key # e.key
        BY <1>0, <2>1, <2>5, Zenon DEF MarkInv, Marked
      <3>a. e.value <= clock
        BY <1>0, <2>1 DEF AgeInv, Fresh
      <3>b. \A u \in Threads : Computing(u)' => v'[u].value <= clock'
        BY <3>1, <3>3, <3>4, <3>a DEF AgeInv
      <3>6. ASSUME NEW y \in EntriesIn(lru') PROVE y.value <= clock'
        <4>1. CASE y \in EntriesIn(lru)
          BY <3>4, <4>1 DEF AgeInv
        <4>2. CASE y = m
          BY <3>1, <3>4, <3>a, <4>2
        <4> QED
          BY <3>2, <4>1, <4>2
      <3>7. ASSUME NEW u \in Threads, Owner(u)', NEW y \in EntriesIn(lru'), y.key = call'[u].key
            PROVE  y.value <= v'[u].value
        <4>1. CASE u = t
          <5>1. y = m
            BY <2>1, <3>1, <3>2, <3>4, <3>7, <4>1, Zenon
          <5> QED
            BY <3>1, <3>3, <4>1, <5>1
        <4>2. CASE u # t
          <5>0. Owner(u)
            BY <2>5, <3>4, <3>7, <4>2, OrphanFacts, Zenon
          <5>1. Owner(u) /\ y.key = call[u].key /\ v'[u] = v[u]
            BY <3>3, <3>4, <3>7, <4>2, <5>0, Zenon
          <5>2. y.key # m.key
            BY <3>1, <3>5, <5>1, Zenon
          <5>3. y \in EntriesIn(lru)
            BY <3>2, <5>2, Zenon
          <5> QED
            BY <5>1, <5>3 DEF AgeInv
        <4> QED
          BY <4>1, <4>2
      <3>8. AgeInv'
        BY <3>6, <3>7, <3>b, Zenon DEF AgeInv
      <3>9. ASSUME NEW x \in EntriesIn(lru), NEW y \in EntriesIn(lru'), x.key = y.key
            PROVE  x.value <= y.value
        <4>1. CASE y \in EntriesIn(lru)
          <5>1. x = y
            BY <1>0, <3>9, <4>1, OneEntry
          <5> QED
            BY <1>1, <1>2, <5>1
        <4>2. CASE y = m
          <5>1. x = e
            BY <2>1, <3>1, <3>9, <4>2, Zenon
          <5> QED
            BY <3>1, <4>2, <5>1
        <4> QED
          BY <3>2, <4>1, <4>2
      <3> QED
        BY <3>8, <3>9 DEF NotOlder
    <2> QED
      BY <2>1, <2>3, <2>4, <2>5
  <1>12. ASSUME NEW t \in Threads, Save(t) PROVE AgeInv' /\ NotOlder
    <2> DEFINE r == Result(v[t])
    <2>1. Computing(t) /\ v[t].key = call[t].key
      BY <1>0, <1>12 DEF Save, ThreadOK, Computing
    <2>2. v[t] \in Entries /\ v[t].value \in Nat
      BY <1>4, <2>1
    <2>3. r \in Entries /\ r.key = call[t].key /\ r.value = v[t].value
      BY <2>1, <2>2 DEF Result, Entries
    <2>3a. r.inProgress = FALSE
      BY <2>2 DEF Result, Entries
    <2>4. EntriesIn(lru') \subseteq {x \in EntriesIn(lru) : x.key # r.key} \cup {r}
      BY <1>0, <1>12, <2>3, SavedFacts DEF Save
    <2>5. /\ clock' = clock /\ ~Computing(t)' /\ Orphan(t)
          /\ \A u \in Threads \ {t} : (Computing(u)' <=> Computing(u)) /\ call'[u] = call[u] /\ v'[u] = v[u]
      BY <1>0, <1>12 DEF Save, Leave, Woken, Computing
    <2> HIDE DEF r
    <2>6. ASSUME NEW y \in EntriesIn(lru') PROVE y.value <= clock'
      <3>1. CASE y \in EntriesIn(lru)
        BY <2>5, <3>1 DEF AgeInv
      <3>2. CASE y = r
        BY <2>1, <2>3, <2>5, <3>2 DEF AgeInv
      <3> QED
        BY <2>4, <3>1, <3>2
    <2>7a. ASSUME NEW u \in Threads, Computing(u)' PROVE v'[u].value <= clock'
      <3>1. u # t /\ Computing(u) /\ v'[u] = v[u]
        BY <2>5, <2>7a, Zenon
      <3> QED
        BY <2>5, <3>1 DEF AgeInv
    <2>7. ASSUME NEW u \in Threads, Owner(u)'
          PROVE  \A y \in EntriesIn(lru') : y.key = call'[u].key => y.value <= v'[u].value
      <3>1. u # t /\ Computing(u) /\ call'[u] = call[u] /\ v'[u] = v[u]
        BY <2>5, <2>7, Zenon DEF Owner
      <3>1a. Owner(u) /\ Marked(lru', call[u].key)
        BY <2>5, <2>7, <3>1, OrphanFacts, Zenon
      <3>2. call[u].key # r.key
        BY <2>3a, <2>4, <3>1a, Zenon DEF Marked
      <3>3. \A y \in EntriesIn(lru') : y.key = call'[u].key => y \in EntriesIn(lru)
        BY <2>4, <3>1, <3>2, Zenon
      <3> QED
        BY <3>1, <3>1a, <3>3 DEF AgeInv
    <2>8. AgeInv'
      BY <2>6, <2>7, <2>7a, Zenon DEF AgeInv
    <2>9. ASSUME NEW x \in EntriesIn(lru), NEW y \in EntriesIn(lru'), x.key = y.key
          PROVE  x.value <= y.value \/ (t \in orphaned /\ Save(t) /\ call[t].key = x.key)
      <3>1. CASE y \in EntriesIn(lru)
        <4>1. x = y
          BY <1>0, <2>9, <3>1, OneEntry
        <4> QED
          BY <1>1, <1>2, <4>1
      <3>2. CASE y = r
        <4>1. x.key = call[t].key
          BY <2>3, <2>9, <3>2
        <4>2. CASE t \in orphaned
          BY <1>12, <4>1, <4>2
        <4>3. CASE t \notin orphaned
          BY <2>1, <2>3, <3>2, <4>1, <4>3 DEF AgeInv, Owner
        <4> QED
          BY <4>2, <4>3
      <3> QED
        BY <2>4, <3>1, <3>2
    <2> QED
      BY <2>8, <2>9, Zenon DEF NotOlder
  <1> QED
    BY <1>5, <1>6, <1>7, <1>8, <1>9, <1>10, <1>11, <1>12 DEF Next, Step

(* A call is never given a value that was asked for longer ago than ttl_,  *)
(* and only a thread whose mark has gone from the list (evicted, or saved  *)
(* over) replaces an entry by an older answer, for any size of the cache   *)
(* and any numbers of keys, threads and times (proxy_cache.h).             *)
THEOREM AnswersStayFresh == Spec => ValuesFresh
  <1>1. Init => FreshInv /\ FlightInv /\ AgeInv
    BY InitFacts DEF FreshInv, FlightInv, MarkInv, OwnerInv, AgeInv, Owner, Computing
  <1>2. FreshInv /\ [Next]_vars => FreshInv'
    BY FreshStep
  <1>3. FlightInv /\ [Next]_vars => FlightInv'
    BY FlightStep
  <1>4. FlightInv /\ AgeInv /\ [Next]_vars => AgeInv' /\ NotOlder
    BY AgeStep
  <1>5. FreshInv => \A i \in 1 .. Len(lru) : lru[i].expire # 0 => lru[i].value + Ttl >= lru[i].expire
    BY DEF FreshInv, EntriesIn
  <1>6. NotOlder => \A k \in KeysIn(lru) : k \in KeysIn(lru') =>
          \/ EntryOf(lru', k).value >= EntryOf(lru, k).value
          \/ \E t \in orphaned : Save(t) /\ call[t].key = k
    <2> SUFFICES ASSUME NotOlder, NEW k \in KeysIn(lru), k \in KeysIn(lru'),
                        ~\E t \in orphaned : Save(t) /\ call[t].key = k
                 PROVE  EntryOf(lru', k).value >= EntryOf(lru, k).value
      OBVIOUS
    <2>1. EntryOf(lru, k) \in EntriesIn(lru) /\ EntryOf(lru, k).key = k
      BY PositionFacts
    <2>2. EntryOf(lru', k) \in EntriesIn(lru') /\ EntryOf(lru', k).key = k
      BY PositionFacts
    <2>3. EntryOf(lru, k).value <= EntryOf(lru', k).value
      BY <2>1, <2>2, Zenon DEF NotOlder
    <2> QED
      BY <2>3
  <1> QED
    BY <1>1, <1>2, <1>3, <1>4, <1>5, <1>6, PTL DEF Spec, ValuesFresh

THEOREM AutoUsesProxy == AutoSpec => Spec
  <1>1. AutoInit => Init /\ TasksInv
    <2>1. ASSUME AutoInit PROVE Len(tasks) = 0 /\ tasks \in Seq([key : Keys, now : Times])
      BY <2>1 DEF AutoInit
    <2> QED
      BY <2>1, InitFacts DEF AutoInit, TasksInv
  <1>2. TasksInv /\ [AutoNext]_autoVars => [Next]_vars
    <2> SUFFICES ASSUME TasksInv, [AutoNext]_autoVars PROVE [Next]_vars
      OBVIOUS
    <2>0. clock \in 1 .. MaxTime /\ MaxTime \in Nat /\ Workers \subseteq Threads
      BY ProxyCacheAssumption DEF TasksInv, ListInv, TypeOK, ProxyCacheAssumption
    <2>1. CASE UNCHANGED autoVars
      BY <2>1 DEF autoVars, vars
    <2>2. ASSUME NEW t \in Threads, NEW k \in Keys, Query(t, k) PROVE Next
      <3>1. clock \in 1 .. clock
        BY <2>0
      <3>2. Begin(t, k, TRUE, clock)
        BY <2>2 DEF Query
      <3> QED
        BY <3>1, <3>2 DEF Next
    <2>3. ASSUME NEW t \in Workers, WorkerTake(t) PROVE Next
      <3>1. Begin(t, Head(tasks).key, FALSE, Head(tasks).now) /\ tasks # <<>>
        BY <2>3 DEF WorkerTake
      <3>2. tasks \in Seq([key : Keys, now : Times])
        BY DEF TasksInv
      <3>3. Head(tasks) = tasks[1] /\ 1 \in 1 .. Len(tasks)
        BY <3>1, <3>2
      <3>4. tasks[1].now \in 1 .. clock
        BY <3>3 DEF TasksInv
      <3>5. tasks[1].key \in Keys
        <4> DEFINE T == [key : Keys, now : Times]
        <4>1. \A x \in T : x.key \in Keys
          OBVIOUS
        <4>2. tasks \in Seq(T)
          BY <3>2
        <4> HIDE DEF T
        <4>3. tasks[1] \in T
          BY <3>3, <4>2
        <4> QED
          BY <4>1, <4>3
      <3> QED
        BY <2>0, <3>1, <3>3, <3>4, <3>5 DEF Next
    <2> QED
      BY <2>0, <2>1, <2>2, <2>3 DEF AutoNext, AutoStep, CallerThrows, Next, Step
  <1>3. TasksInv /\ [AutoNext]_autoVars => TasksInv'
    <2> SUFFICES ASSUME TasksInv, [AutoNext]_autoVars PROVE TasksInv'
      OBVIOUS
    <2>1. ListInv'
      BY <1>2, ListStep DEF TasksInv
    <2>2. /\ clock \in 1 .. MaxTime /\ clock' \in 1 .. MaxTime /\ MaxTime \in Nat
      BY <2>1, ProxyCacheAssumption DEF TasksInv, ListInv, TypeOK, ProxyCacheAssumption
    <2>3. clock' >= clock
      <3>1. clock' = clock \/ clock' = clock + 1
        BY <1>2 DEF Next, Step, vars, Begin, Lookup, Get, Save, GetThrows, SpuriousWake, Tick
      <3> QED
        BY <2>2, <3>1
    <2> DEFINE T == [key : Keys, now : Times]
    <2>4. tasks \in Seq(T) /\ \A i \in 1 .. Len(tasks) : tasks[i].now \in 1 .. clock
      BY DEF TasksInv
    <2>5. tasks' \in Seq(T) /\ \A i \in 1 .. Len(tasks') : tasks'[i].now \in 1 .. clock'
      <3>1. CASE tasks' = tasks
        BY <2>2, <2>3, <2>4, <3>1
      <3>2. ASSUME NEW k \in Keys, AddRefresh(k)
            PROVE  tasks' \in Seq(T) /\ \A i \in 1 .. Len(tasks') : tasks'[i].now \in 1 .. clock'
        <4> DEFINE n == [key |-> k, now |-> clock]
        <4>1. n \in T /\ n.now \in 1 .. clock'
          BY <2>2, <2>3 DEF Times
        <4>2. tasks' = Append(tasks, n)
          BY <3>2 DEF AddRefresh
        <4> HIDE DEF n, T
        <4>3. /\ tasks' \in Seq(T) /\ Len(tasks') = Len(tasks) + 1 /\ tasks'[Len(tasks) + 1] = n
              /\ \A i \in 1 .. Len(tasks) : tasks'[i] = tasks[i]
          BY <2>4, <4>1, <4>2
        <4>4. ASSUME NEW i \in 1 .. Len(tasks') PROVE tasks'[i].now \in 1 .. clock'
          <5>1. CASE i = Len(tasks) + 1
            BY <4>1, <4>3, <5>1
          <5>2. CASE i \in 1 .. Len(tasks)
            <6>1. tasks'[i] = tasks[i] /\ tasks[i].now \in 1 .. clock
              BY <2>4, <4>3, <5>2
            <6> QED
              BY <2>2, <2>3, <6>1
          <5> QED
            BY <2>4, <4>3, <5>1, <5>2
        <4> QED
          BY <4>3, <4>4
      <3>3. CASE tasks # <<>> /\ tasks' = Tail(tasks)
        <4> HIDE DEF T
        <4>1. /\ tasks' \in Seq(T) /\ Len(tasks') = Len(tasks) - 1 /\ Len(tasks) \in Nat
              /\ \A i \in 1 .. Len(tasks') : tasks'[i] = tasks[i + 1]
          BY <2>4, <3>3
        <4>2. ASSUME NEW i \in 1 .. Len(tasks') PROVE tasks'[i].now \in 1 .. clock'
          <5>1. i + 1 \in 1 .. Len(tasks)
            BY <4>1
          <5>2. tasks'[i] = tasks[i + 1] /\ tasks[i + 1].now \in 1 .. clock
            BY <2>4, <4>1, <5>1
          <5> QED
            BY <2>2, <2>3, <5>2
        <4> QED
          BY <4>1, <4>2
      <3> QED
        BY <3>1, <3>2, <3>3 DEF AutoNext, autoVars, Query, WorkerTake, AutoStep, CallerThrows
    <2> QED
      BY <2>1, <2>5 DEF TasksInv
  <1> QED
    BY <1>1, <1>2, <1>3, PTL DEF AutoSpec, AutoSafety, Spec

-----------------------------------------------------------------------------
(* Proofs about the GroupCache, for all keys, groups, limits and times.    *)

\* What a cache may hold.
GRec == [list : Seq(Groups), mem : [GroupKeys -> 0 .. MaxNow], disk : [GroupKeys -> 0 .. MaxNow],
         dirty : SUBSET Groups, file_not_found : SUBSET Groups]

\* IsExpired(), Agrees() and Kept, for a cache s at a time n when the entries l
\* have been inserted last.
ExpiredAt(n, t) == MaxLife > 0 /\ Group!Limit >= 0 /\ n - t > Group!Limit
AgreesAt(n, t, l) == IF l # 0 /\ ~ExpiredAt(n, l) THEN t = l ELSE t = 0 \/ ExpiredAt(n, t)
OnceIn(list) == \A i, j \in DOMAIN list : list[i] = list[j] => i = j
KeptAt(n, s, l) ==
  \A k \in GroupKeys :
    /\ Grouper[k] \in Group!Cached(s) => AgreesAt(n, s.mem[k], l[k])
    /\ Grouper[k] \notin Group!Cached(s) => s.mem[k] = 0
    /\ Grouper[k] \notin s.dirty => AgreesAt(n, s.disk[k], l[k])
    /\ Grouper[k] \in s.file_not_found => s.disk[k] = 0
Fine(n, s, l) == s \in GRec /\ OnceIn(s.list) /\ s.dirty \subseteq Group!Cached(s) /\ KeptAt(n, s, l)

(* A sequence whose element at a position is moved to the front.           *)
LEMMA MovedToFront ==
  ASSUME NEW A, NEW l \in Seq(A), NEW a \in DOMAIN l
  PROVE  LET m == <<l[a]>> \o Group!RemoveAt(l, a)
         IN  /\ m \in Seq(A) /\ Len(m) = Len(l)
             /\ \A i \in 1 .. Len(l) : m[i] = IF i = 1 THEN l[a] ELSE IF i - 1 < a THEN l[i - 1] ELSE l[i]
  <1> DEFINE x == SubSeq(l, 1, a - 1)
             y == SubSeq(l, a + 1, Len(l))
             m == <<l[a]>> \o (x \o y)
  <1>1. a \in 1 .. Len(l) /\ Len(l) \in Nat /\ l[a] \in A
    OBVIOUS
  <1>2. x \in Seq(A) /\ Len(x) = a - 1 /\ \A i \in 1 .. a - 1 : x[i] = l[i]
    BY <1>1
  <1>3. y \in Seq(A) /\ Len(y) = Len(l) - a /\ \A i \in 1 .. Len(l) - a : y[i] = l[a + i]
    BY <1>1
  <1> HIDE DEF x, y
  <1> DEFINE z == x \o y
  <1>4. z \in Seq(A) /\ Len(z) = Len(l) - 1 /\ \A i \in 1 .. Len(l) - 1 : z[i] = IF i < a THEN l[i] ELSE l[i + 1]
    <2>1. z \in Seq(A) /\ Len(z) = Len(l) - 1
      BY <1>1, <1>2, <1>3
    <2>2. ASSUME NEW i \in 1 .. Len(l) - 1 PROVE z[i] = IF i < a THEN l[i] ELSE l[i + 1]
      <3>1. CASE i < a
        BY <1>1, <1>2, <1>3, <3>1
      <3>2. CASE ~(i < a)
        <4>1. z[i] = y[i - (a - 1)] /\ i - (a - 1) \in 1 .. Len(l) - a /\ a + (i - (a - 1)) = i + 1
          <5>1. i > Len(x) /\ i <= Len(x) + Len(y) /\ i \in Int /\ Len(x) \in Nat /\ Len(y) \in Nat
            BY <1>1, <1>2, <1>3, <3>2
          <5>2. z[i] = y[i - Len(x)]
            <6>1. \A u, w \in Seq(A) : \A j \in Len(u) + 1 .. Len(u) + Len(w) : (u \o w)[j] = w[j - Len(u)]
              OBVIOUS
            <6>2. i \in Len(x) + 1 .. Len(x) + Len(y)
              BY <5>1
            <6> QED
              BY <1>2, <1>3, <6>1, <6>2
          <5> QED
            BY <1>1, <1>2, <1>3, <3>2, <5>2
        <4> QED
          BY <1>3, <3>2, <4>1
      <3> QED
        BY <3>1, <3>2
    <2> QED
      BY <2>1, <2>2
  <1> HIDE DEF z
  <1> DEFINE w == <<l[a]>> \o z
  <1>5. w \in Seq(A) /\ Len(w) = Len(l)
    BY <1>1, <1>4
  <1>6. ASSUME NEW i \in 1 .. Len(l) PROVE w[i] = IF i = 1 THEN l[a] ELSE IF i - 1 < a THEN l[i - 1] ELSE l[i]
    <2>1. CASE i = 1
      BY <1>1, <1>4, <2>1
    <2>2. CASE i # 1
      <3>1. w[i] = z[i - 1] /\ i - 1 \in 1 .. Len(l) - 1
        BY <1>1, <1>4, <2>2
      <3> QED
        BY <1>1, <1>4, <2>2, <3>1
    <2> QED
      BY <2>1, <2>2
  <1>7. <<l[a]>> \o Group!RemoveAt(l, a) = w
    BY DEF Group!RemoveAt, w, z, x, y
  <1> QED
    BY <1>5, <1>6, <1>7

(* The group in front is in memory, and the others as before.              *)
LEMMA EntryFacts ==
  ASSUME NEW s \in GRec, OnceIn(s.list), NEW g \in Groups
  PROVE  LET t == Group!GetOrCreateCacheEntry(s, g)
         IN  /\ t \in GRec /\ OnceIn(t.list) /\ Group!Cached(t) = Group!Cached(s) \cup {g}
             /\ t.mem = s.mem /\ t.disk = s.disk /\ t.dirty = s.dirty /\ t.file_not_found = s.file_not_found
  <1> DEFINE l == s.list
             a == CHOOSE i \in DOMAIN l : l[i] = g
             m == <<g>> \o (IF g \in Group!Cached(s) THEN Group!RemoveAt(l, a) ELSE l)
             t == Group!GetOrCreateCacheEntry(s, g)
  <1>1. l \in Seq(Groups) /\ Group!Cached(s) = {l[i] : i \in DOMAIN l}
    BY DEF GRec, Group!Cached, Group!ToSet
  <1>2. m \in Seq(Groups) /\ OnceIn(m) /\ {m[i] : i \in DOMAIN m} = Group!Cached(s) \cup {g}
    <2>1. CASE g \in Group!Cached(s)
      <3>1. a \in DOMAIN l /\ l[a] = g
        BY <1>1, <2>1
      <3> HIDE DEF a, l
      <3>2. m = <<l[a]>> \o Group!RemoveAt(l, a)
        BY <2>1, <3>1
      <3> HIDE DEF m
      <3>3. /\ m \in Seq(Groups) /\ Len(m) = Len(l)
            /\ \A i \in 1 .. Len(l) : m[i] = IF i = 1 THEN l[a] ELSE IF i - 1 < a THEN l[i - 1] ELSE l[i]
        BY <1>1, <3>1, <3>2, MovedToFront
      <3>4. DOMAIN m = 1 .. Len(l) /\ DOMAIN l = 1 .. Len(l) /\ Len(l) \in Nat /\ a \in 1 .. Len(l)
        BY <1>1, <3>1, <3>3
      <3>5. OnceIn(m)
        <4> DEFINE p(i) == IF i = 1 THEN a ELSE IF i - 1 < a THEN i - 1 ELSE i
        <4>1. \A i \in 1 .. Len(l) : p(i) \in 1 .. Len(l) /\ m[i] = l[p(i)]
          BY <3>3, <3>4
        <4>2. \A i, j \in 1 .. Len(l) : p(i) = p(j) => i = j
          BY <3>4
        <4> HIDE DEF p
        <4> QED
          BY <3>4, <4>1, <4>2 DEF OnceIn, l
      <3>6. ASSUME NEW i \in DOMAIN m PROVE \E j \in DOMAIN l : m[i] = l[j]
        BY <3>3, <3>4
      <3>7. ASSUME NEW j \in DOMAIN l PROVE \E i \in DOMAIN m : m[i] = l[j]
        <4>1. CASE j < a
          <5>1. j + 1 \in 1 .. Len(l) /\ j + 1 # 1 /\ (j + 1) - 1 = j
            BY <3>4, <4>1
          <5> QED
            BY <3>3, <3>4, <4>1, <5>1
        <4>2. CASE j = a
          <5>1. 1 \in 1 .. Len(l)
            BY <3>4
          <5> QED
            BY <3>3, <3>4, <4>2, <5>1
        <4>3. CASE j > a
          <5>1. j # 1 /\ ~(j - 1 < a)
            BY <3>4, <4>3
          <5> QED
            BY <3>3, <3>4, <5>1
        <4> QED
          BY <3>4, <4>1, <4>2, <4>3
      <3>8. {m[i] : i \in DOMAIN m} = {l[j] : j \in DOMAIN l}
        BY <3>6, <3>7
      <3> QED
        BY <1>1, <2>1, <3>3, <3>5, <3>8
    <2>2. CASE g \notin Group!Cached(s)
      <3> HIDE DEF l
      <3>1. m = <<g>> \o l
        BY <2>2
      <3> HIDE DEF m
      <3>2. m \in Seq(Groups) /\ Len(m) = Len(l) + 1 /\ Len(l) \in Nat /\ DOMAIN l = 1 .. Len(l) /\ DOMAIN m = 1 .. Len(l) + 1
        BY <1>1, <3>1
      <3>3. \A i \in 1 .. Len(l) + 1 : m[i] = IF i = 1 THEN g ELSE l[i - 1]
        BY <1>1, <3>1
      <3>4. OnceIn(l) /\ \A i \in DOMAIN l : l[i] # g
        BY <1>1, <2>2 DEF l
      <3>5. \A i \in 1 .. Len(l) + 1 : i # 1 => i - 1 \in DOMAIN l
        BY <3>2
      <3>6. OnceIn(m)
        <4>1. ASSUME NEW i \in 1 .. Len(l) + 1, NEW j \in 1 .. Len(l) + 1, m[i] = m[j] PROVE i = j
          <5>1. CASE i = 1 \/ j = 1
            BY <3>3, <3>4, <3>5, <4>1, <5>1
          <5>2. CASE i # 1 /\ j # 1
            <6>1. l[i - 1] = l[j - 1] /\ i - 1 \in DOMAIN l /\ j - 1 \in DOMAIN l
              BY <3>3, <3>5, <4>1, <5>2
            <6>2. i - 1 = j - 1
              BY <3>4, <6>1 DEF OnceIn
            <6> QED
              BY <6>2
          <5> QED
            BY <5>1, <5>2
        <4> QED
          BY <3>2, <4>1 DEF OnceIn
      <3>7. ASSUME NEW i \in DOMAIN m PROVE m[i] \in {l[j] : j \in DOMAIN l} \cup {g}
        BY <3>2, <3>3, <3>5
      <3>8. ASSUME NEW j \in DOMAIN l PROVE \E i \in DOMAIN m : m[i] = l[j]
        <4>1. j + 1 \in 1 .. Len(l) + 1 /\ j + 1 # 1 /\ (j + 1) - 1 = j
          BY <3>2
        <4> QED
          BY <3>2, <3>3, <4>1
      <3>9. 1 \in DOMAIN m /\ m[1] = g
        BY <3>2, <3>3
      <3>10. {m[i] : i \in DOMAIN m} = {l[j] : j \in DOMAIN l} \cup {g}
        BY <3>7, <3>8, <3>9
      <3> QED
        BY <1>1, <3>2, <3>6, <3>10
    <2> QED
      BY <2>1, <2>2
  <1>3. t = [s EXCEPT !.list = m]
    BY DEF Group!GetOrCreateCacheEntry
  <1> HIDE DEF m, t
  <1>4. /\ t \in GRec /\ t.list = m
        /\ t.mem = s.mem /\ t.disk = s.disk /\ t.dirty = s.dirty /\ t.file_not_found = s.file_not_found
    BY <1>2, <1>3 DEF GRec
  <1>5. Group!Cached(t) = {m[i] : i \in DOMAIN m}
    BY <1>4 DEF Group!Cached, Group!ToSet
  <1> QED
    BY <1>2, <1>4, <1>5 DEF t

(* What is agreed on stays so when time passes.                            *)
LEMMA LaterFacts ==
  ASSUME NEW n \in Int, NEW n2 \in Int, n <= n2, NEW t \in Int, NEW l \in Int
  PROVE  /\ ExpiredAt(n, t) => ExpiredAt(n2, t)
         /\ AgreesAt(n, t, l) => AgreesAt(n2, t, l)
  <1>1. Group!Limit \in Int
    <2> DEFINE half == IntSize \div 2
               all == MaxLife * Second + half
    <2>1. IntSize \in Nat \ {0} /\ MaxLife \in Nat /\ Second \in Nat
      BY GroupAssumption DEF Group!GroupCacheAssumption
    <2>2. half \in Int /\ MaxLife * Second \in Int
      BY <2>1
    <2>3. all \in Int
      BY <2>2
    <2> HIDE DEF all, half
    <2>4. (all % IntSize) \in Int
      BY <2>1, <2>3
    <2>5. Group!Limit = (all % IntSize) - half
      BY DEF Group!Limit, all, half
    <2> QED
      BY <2>2, <2>4, <2>5
  <1>2. \A x \in Int : ExpiredAt(n, x) => ExpiredAt(n2, x)
    BY <1>1 DEF ExpiredAt
  <1> QED
    BY <1>2 DEF AgreesAt

(* So does the whole cache.                                                *)
LEMMA FineLater ==
  ASSUME NEW n \in Int, NEW n2 \in Int, n <= n2, NEW s, NEW l \in [GroupKeys -> 0 .. MaxNow], Fine(n, s, l)
  PROVE  Fine(n2, s, l)
  <1>1. ASSUME NEW k \in GroupKeys PROVE s.mem[k] \in Int /\ s.disk[k] \in Int /\ l[k] \in Int
    <2>1. MaxNow \in Nat
      BY GroupAssumption DEF Group!GroupCacheAssumption
    <2> QED
      BY <2>1 DEF Fine, GRec
  <1>2. KeptAt(n2, s, l)
    BY <1>1, LaterFacts DEF Fine, KeptAt
  <1> QED
    BY <1>2 DEF Fine

(* A group that is read from its file, or found to have none.              *)
LEMMA LoadedFine ==
  ASSUME NEW s, NEW l, Fine(g_now, s, l), NEW g \in Groups
  PROVE  LET t == Group!Loaded(s, g)
         IN  Fine(g_now, t, l) /\ (g \in Group!Cached(t) \/ g \in t.file_not_found)
  <1> DEFINE there == {k \in Group!In(g) : s.disk[k] # 0}
             expired == {k \in there : Group!IsExpired(s.disk[k])}
             made == Group!GetOrCreateCacheEntry(s, g)
             mem == [k \in GroupKeys |-> IF k \in there \ expired THEN s.disk[k] ELSE made.mem[k]]
             read == [made EXCEPT !.mem = mem]
             t == Group!Loaded(s, g)
  <1>1. s \in GRec /\ OnceIn(s.list) /\ s.dirty \subseteq Group!Cached(s) /\ KeptAt(g_now, s, l)
    BY DEF Fine
  <1>2. \A x : Group!IsExpired(x) <=> ExpiredAt(g_now, x)
    BY DEF Group!IsExpired, ExpiredAt
  <1>3. CASE g \in Group!Cached(s)
    BY <1>3 DEF Group!Loaded
  <1>4. CASE g \notin Group!Cached(s) /\ g \in s.file_not_found
    BY <1>4 DEF Group!Loaded, Group!ReadGroup
  <1>5. CASE g \notin Group!Cached(s) /\ g \notin s.file_not_found /\ there = {}
    <2>1. t = [s EXCEPT !.file_not_found = s.file_not_found \cup {g}]
      BY <1>5 DEF Group!Loaded, Group!ReadGroup
    <2> HIDE DEF t
    <2>2. /\ t \in GRec /\ t.list = s.list /\ t.mem = s.mem /\ t.disk = s.disk /\ t.dirty = s.dirty
          /\ t.file_not_found = s.file_not_found \cup {g}
      BY <1>1, <2>1 DEF GRec
    <2>3. Group!Cached(t) = Group!Cached(s)
      BY <2>2 DEF Group!Cached
    <2>4. \A k \in GroupKeys : Grouper[k] = g => s.disk[k] = 0
      BY <1>5 DEF Group!In
    <2>5. KeptAt(g_now, t, l)
      BY <1>1, <2>2, <2>3, <2>4 DEF KeptAt
    <2> QED
      BY <1>1, <2>2, <2>3, <2>5 DEF Fine, t
  <1>6. CASE g \notin Group!Cached(s) /\ g \notin s.file_not_found /\ there # {}
    <2>1. /\ made \in GRec /\ OnceIn(made.list) /\ Group!Cached(made) = Group!Cached(s) \cup {g}
          /\ made.mem = s.mem /\ made.disk = s.disk /\ made.dirty = s.dirty /\ made.file_not_found = s.file_not_found
      BY <1>1, EntryFacts
    <2>2. mem \in [GroupKeys -> 0 .. MaxNow]
      <3>1. \A k \in GroupKeys : s.disk[k] \in 0 .. MaxNow /\ made.mem[k] \in 0 .. MaxNow
        BY <1>1, <2>1 DEF GRec
      <3> QED
        BY <3>1
    <2>3. \A k \in GroupKeys : mem[k] = IF Grouper[k] = g /\ s.disk[k] # 0 /\ ~ExpiredAt(g_now, s.disk[k])
                                       THEN s.disk[k] ELSE s.mem[k]
      BY <1>2, <2>1 DEF Group!In
    <2>4. t = IF expired # {} THEN [read EXCEPT !.dirty = read.dirty \cup {g}] ELSE read
      BY <1>6 DEF Group!Loaded, Group!ReadGroup, Group!SetDirty
    <2> HIDE DEF mem, made
    <2>5. /\ read \in GRec /\ read.list = made.list /\ read.mem = mem /\ read.disk = s.disk
          /\ read.dirty = s.dirty /\ read.file_not_found = s.file_not_found
      BY <2>1, <2>2 DEF GRec
    <2> HIDE DEF read, t, expired, there
    <2>6. /\ t \in GRec /\ t.list = made.list /\ t.mem = mem /\ t.disk = s.disk
          /\ t.dirty \in {s.dirty, s.dirty \cup {g}} /\ t.file_not_found = s.file_not_found
      BY <2>4, <2>5 DEF GRec
    <2>7. Group!Cached(t) = Group!Cached(s) \cup {g}
      BY <2>1, <2>6 DEF Group!Cached
    <2>8. KeptAt(g_now, t, l)
      <3>1. ASSUME NEW k \in GroupKeys, Grouper[k] = g PROVE AgreesAt(g_now, mem[k], l[k])
        <4>1. s.mem[k] = 0 /\ AgreesAt(g_now, s.disk[k], l[k])
          BY <1>1, <1>6, <3>1 DEF KeptAt
        <4> QED
          BY <2>3, <3>1, <4>1 DEF AgreesAt
      <3>2. ASSUME NEW k \in GroupKeys, Grouper[k] # g PROVE mem[k] = s.mem[k]
        BY <2>3, <3>2
      <3> QED
        BY <1>1, <2>6, <2>7, <3>1, <3>2 DEF KeptAt
    <2> QED
      BY <1>1, <2>1, <2>6, <2>7, <2>8 DEF Fine, t
  <1> QED
    BY <1>3, <1>4, <1>5, <1>6

(* Groups that are written keep their entries, and leave the dirty ones.   *)
LEMMA FlushFine ==
  ASSUME NEW s, NEW l, Fine(g_now, s, l), NEW gs
  PROVE  LET t == Group!FlushGroup(s, gs)
         IN  Fine(g_now, t, l) /\ t.list = s.list /\ t.mem = s.mem /\ t.dirty = s.dirty \ gs
  <1> DEFINE ws == gs \cap s.dirty
             disk == [k \in GroupKeys |-> IF Grouper[k] \notin ws THEN s.disk[k]
                                          ELSE IF Group!IsExpired(s.mem[k]) THEN 0 ELSE s.mem[k]]
             u == [s EXCEPT !.disk = disk, !.file_not_found = s.file_not_found \ ws]
             t == Group!FlushGroup(s, gs)
  <1>1. s \in GRec /\ OnceIn(s.list) /\ s.dirty \subseteq Group!Cached(s) /\ KeptAt(g_now, s, l)
    BY DEF Fine
  <1>2. \A x : Group!IsExpired(x) <=> ExpiredAt(g_now, x)
    BY DEF Group!IsExpired, ExpiredAt
  <1>3. /\ disk \in [GroupKeys -> 0 .. MaxNow]
        /\ \A k \in GroupKeys : disk[k] = IF Grouper[k] \notin ws THEN s.disk[k]
                                         ELSE IF ExpiredAt(g_now, s.mem[k]) THEN 0 ELSE s.mem[k]
    <2>1. \A k \in GroupKeys : s.disk[k] \in 0 .. MaxNow /\ s.mem[k] \in 0 .. MaxNow
      BY <1>1 DEF GRec
    <2>2. 0 \in 0 .. MaxNow
      BY GroupAssumption DEF Group!GroupCacheAssumption
    <2> QED
      BY <1>2, <2>1, <2>2
  <1>4. t = [u EXCEPT !.dirty = u.dirty \ gs]
    BY DEF Group!FlushGroup, Group!WriteGroup
  <1> HIDE DEF disk, t
  <1>5. /\ u \in GRec /\ u.list = s.list /\ u.mem = s.mem /\ u.disk = disk /\ u.dirty = s.dirty
        /\ u.file_not_found = s.file_not_found \ ws
    BY <1>1, <1>3 DEF GRec
  <1> HIDE DEF u
  <1>6. /\ t \in GRec /\ t.list = s.list /\ t.mem = s.mem /\ t.disk = disk /\ t.dirty = s.dirty \ gs
        /\ t.file_not_found = s.file_not_found \ ws
    BY <1>4, <1>5 DEF GRec
  <1>7. Group!Cached(t) = Group!Cached(s)
    BY <1>6 DEF Group!Cached
  <1>8. KeptAt(g_now, t, l)
    <2>1. ASSUME NEW k \in GroupKeys, Grouper[k] \notin s.dirty \ gs PROVE AgreesAt(g_now, disk[k], l[k])
      <3>1. CASE Grouper[k] \notin ws
        <4>1. Grouper[k] \notin s.dirty /\ disk[k] = s.disk[k]
          BY <1>3, <2>1, <3>1
        <4> QED
          BY <1>1, <4>1 DEF KeptAt
      <3>2. CASE Grouper[k] \in ws
        <4>1. AgreesAt(g_now, s.mem[k], l[k])
          BY <1>1, <3>2 DEF KeptAt
        <4> QED
          BY <1>3, <3>2, <4>1 DEF AgreesAt
      <3> QED
        BY <3>1, <3>2
    <2>2. ASSUME NEW k \in GroupKeys, Grouper[k] \in s.file_not_found \ ws PROVE disk[k] = 0
      BY <1>1, <1>3, <2>2 DEF KeptAt
    <2> QED
      BY <1>1, <1>6, <1>7, <2>1, <2>2 DEF KeptAt
  <1> QED
    BY <1>1, <1>6, <1>7, <1>8 DEF Fine, t

(* It may be forgotten which files there are not.                          *)
LEMMA ForgetsFiles ==
  ASSUME NEW s, NEW l, NEW n, Fine(n, s, l)
  PROVE  LET t == [s EXCEPT !.file_not_found = {}]
         IN  Fine(n, t, l) /\ t.list = s.list /\ t.mem = s.mem /\ t.dirty = s.dirty /\ t.disk = s.disk
             /\ t.file_not_found = {}
  <1> DEFINE t == [s EXCEPT !.file_not_found = {}]
  <1>1. s \in GRec
    BY DEF Fine
  <1>2. t \in GRec /\ t.list = s.list /\ t.mem = s.mem /\ t.dirty = s.dirty /\ t.disk = s.disk /\ t.file_not_found = {}
    BY <1>1 DEF GRec
  <1> HIDE DEF t
  <1>3. Group!Cached(t) = Group!Cached(s)
    BY <1>2 DEF Group!Cached
  <1> QED
    BY <1>2, <1>3 DEF Fine, KeptAt, t

(* The groups that leave the memory are clean.                             *)
LEMMA DropFine ==
  ASSUME NEW s, NEW l, NEW n, Fine(n, s, l), NEW gs, gs \cap s.dirty = {}, NEW rest \in Seq(Groups), OnceIn(rest),
         {rest[i] : i \in DOMAIN rest} = Group!Cached(s) \ gs
  PROVE  Fine(n, Group!Drop(s, gs, rest), l) /\ Group!Drop(s, gs, rest).dirty = s.dirty
  <1> DEFINE mem == [k \in GroupKeys |-> IF Grouper[k] \in gs THEN 0 ELSE s.mem[k]]
             t == Group!Drop(s, gs, rest)
  <1>1. s \in GRec /\ OnceIn(s.list) /\ s.dirty \subseteq Group!Cached(s) /\ KeptAt(n, s, l)
    BY DEF Fine
  <1>2. mem \in [GroupKeys -> 0 .. MaxNow] /\ \A k \in GroupKeys : mem[k] = IF Grouper[k] \in gs THEN 0 ELSE s.mem[k]
    <2>1. 0 \in 0 .. MaxNow
      BY GroupAssumption DEF Group!GroupCacheAssumption
    <2> QED
      BY <1>1, <2>1 DEF GRec
  <1>3. t = [s EXCEPT !.list = rest, !.mem = mem]
    BY DEF Group!Drop
  <1> HIDE DEF t, mem
  <1>4. /\ t \in GRec /\ t.list = rest /\ t.mem = mem /\ t.disk = s.disk /\ t.dirty = s.dirty
        /\ t.file_not_found = s.file_not_found
    BY <1>1, <1>2, <1>3 DEF GRec
  <1>5. Group!Cached(t) = Group!Cached(s) \ gs
    BY <1>4 DEF Group!Cached, Group!ToSet
  <1>6. KeptAt(n, t, l)
    BY <1>1, <1>2, <1>4, <1>5 DEF KeptAt
  <1> QED
    BY <1>1, <1>4, <1>5, <1>6 DEF Fine, t

\* The other variables, and all of the invariant in these terms.
RestOK ==
  /\ g_now \in 1 .. MaxNow /\ g_last \in [GroupKeys -> 0 .. MaxNow] /\ g_flushing \subseteq SUBSET Groups
  /\ g_evictors \in [test : 0 .. MaxEvictors, evict : 0 .. MaxEvictors]
  /\ g_evictors.test + g_evictors.evict <= MaxEvictors
FineNow == Fine(g_now, g_cache, g_last) /\ RestOK

(* The parts of the invariant.                                             *)
LEMMA InvIsFine == Group!Inv <=> FineNow
  <1>1. \A x : Group!IsExpired(x) <=> ExpiredAt(g_now, x)
    BY DEF Group!IsExpired, ExpiredAt
  <1>2. \A t, l : Group!Agrees(t, l) <=> AgreesAt(g_now, t, l)
    BY <1>1 DEF Group!Agrees, AgreesAt
  <1>3. Group!Kept <=> KeptAt(g_now, g_cache, g_last)
    BY <1>2 DEF Group!Kept, KeptAt
  <1>4. Group!TypeOK <=> g_cache \in GRec /\ OnceIn(g_cache.list) /\ RestOK
    BY DEF Group!TypeOK, GRec, OnceIn, RestOK, Group!IsInjective
  <1> QED
    BY <1>3, <1>4 DEF Group!Inv, FineNow, Fine, Group!DirtyCached

(* The same after a step.                                                  *)
LEMMA FineIsInv == FineNow' => Group!Inv'
  BY InvIsFine, PTL

(* The group g changes in memory and is dirty, or nothing of it changes.   *)
LEMMA ChangedFine ==
  ASSUME NEW n, NEW s, NEW t, NEW l, NEW l2, Fine(n, s, l), NEW g \in Groups,
         g \in Group!Cached(s) \/ g \in s.file_not_found,
         t \in GRec, OnceIn(t.list), Group!Cached(t) = Group!Cached(s) \cup {g}, t.disk = s.disk,
         t.file_not_found = s.file_not_found,
         t.dirty = s.dirty \cup {g} \/ (t.dirty = s.dirty /\ l2 = l),
         \A k \in GroupKeys : Grouper[k] # g => t.mem[k] = s.mem[k] /\ l2[k] = l[k],
         \A k \in GroupKeys : Grouper[k] = g /\ AgreesAt(n, s.mem[k], l[k]) => AgreesAt(n, t.mem[k], l2[k])
  PROVE  Fine(n, t, l2)
  <1>1. s \in GRec /\ OnceIn(s.list) /\ s.dirty \subseteq Group!Cached(s) /\ KeptAt(n, s, l)
    BY DEF Fine
  <1>2. ASSUME NEW k \in GroupKeys, Grouper[k] = g PROVE AgreesAt(n, t.mem[k], l2[k])
    <2>1. CASE g \in Group!Cached(s)
      BY <1>1, <1>2, <2>1 DEF KeptAt
    <2>2. CASE g \notin Group!Cached(s)
      <3>1. s.mem[k] = 0 /\ s.disk[k] = 0 /\ AgreesAt(n, s.disk[k], l[k])
        BY <1>1, <1>2, <2>2 DEF KeptAt
      <3> QED
        BY <1>2, <3>1
    <2> QED
      BY <2>1, <2>2
  <1>3. KeptAt(n, t, l2)
    <2>1. ASSUME NEW k \in GroupKeys, Grouper[k] \in Group!Cached(t) PROVE AgreesAt(n, t.mem[k], l2[k])
      <3>1. CASE Grouper[k] = g
        BY <1>2, <3>1
      <3>2. CASE Grouper[k] # g
        BY <1>1, <2>1, <3>2 DEF KeptAt
      <3> QED
        BY <3>1, <3>2
    <2>2. ASSUME NEW k \in GroupKeys, Grouper[k] \notin Group!Cached(t) PROVE t.mem[k] = 0
      BY <1>1, <2>2 DEF KeptAt
    <2>3. ASSUME NEW k \in GroupKeys, Grouper[k] \notin t.dirty PROVE AgreesAt(n, t.disk[k], l2[k])
      <3>1. Grouper[k] \notin s.dirty /\ l2[k] = l[k]
        BY <2>3
      <3> QED
        BY <1>1, <3>1 DEF KeptAt
    <2>4. ASSUME NEW k \in GroupKeys, Grouper[k] \in t.file_not_found PROVE t.disk[k] = 0
      BY <1>1, <2>4 DEF KeptAt
    <2> QED
      BY <2>1, <2>2, <2>3, <2>4 DEF KeptAt
  <1> QED
    BY <1>1, <1>3 DEF Fine

(* A thread more, unless there are enough.                                 *)
LEMMA AdjustFacts ==
  ASSUME RestOK, NEW s, Group!AdjustSize(s)
  PROVE  /\ g_evictors' \in [test : 0 .. MaxEvictors, evict : 0 .. MaxEvictors]
         /\ g_evictors'.test + g_evictors'.evict <= MaxEvictors
  <1>1. MaxEvictors \in Nat
    BY GroupAssumption DEF Group!GroupCacheAssumption
  <1>2. CASE MaxGroups > 0 /\ Len(s.list) > MaxGroups
    <2>1. /\ g_evictors.test + g_evictors.evict < MaxEvictors
          /\ g_evictors' = [g_evictors EXCEPT !.test = g_evictors.test + 1]
      BY <1>2 DEF Group!AdjustSize
    <2> QED
      BY <1>1, <2>1 DEF RestOK
  <1>3. CASE ~(MaxGroups > 0 /\ Len(s.list) > MaxGroups)
    BY <1>3 DEF Group!AdjustSize, RestOK
  <1> QED
    BY <1>2, <1>3

(* insert() and erase().                                                   *)
LEMMA WriteSteps ==
  ASSUME FineNow, NEW k \in GroupKeys, Group!Insert(k) \/ Group!Erase(k)
  PROVE  FineNow'
  <1> DEFINE g == Grouper[k]
             s == Group!Loaded(g_cache, g)
  <1>1. g \in Groups /\ MaxNow \in Nat /\ 0 \in 0 .. MaxNow
    BY GroupAssumption DEF Group!GroupCacheAssumption
  <1>2. Fine(g_now, s, g_last) /\ (g \in Group!Cached(s) \/ g \in s.file_not_found)
    BY <1>1, LoadedFine DEF FineNow
  <1>3. s \in GRec /\ OnceIn(s.list) /\ RestOK /\ g_now \in 1 .. MaxNow /\ g_last \in [GroupKeys -> 0 .. MaxNow]
    BY <1>2 DEF Fine, FineNow, RestOK
  <1> HIDE DEF s
  <1>4. CASE Group!Insert(k)
    <2> DEFINE d == [s EXCEPT !.dirty = s.dirty \cup {g}]
               e == Group!GetOrCreateCacheEntry(d, g)
               f == [e EXCEPT !.mem[k] = g_now]
               l2 == [g_last EXCEPT ![k] = g_now]
    <2>1. /\ g_cache' = f /\ Group!AdjustSize(f) /\ g_last' = l2 /\ g_now' = g_now + 1 /\ g_now < MaxNow
          /\ UNCHANGED g_flushing
      BY <1>4 DEF Group!Insert, Group!Inserted, Group!SetDirty, s
    <2>2. /\ d \in GRec /\ d.list = s.list /\ d.mem = s.mem /\ d.disk = s.disk /\ d.dirty = s.dirty \cup {g}
          /\ d.file_not_found = s.file_not_found
      BY <1>1, <1>3 DEF GRec
    <2> HIDE DEF d
    <2>3. Group!Cached(d) = Group!Cached(s)
      BY <2>2 DEF Group!Cached
    <2>4. /\ e \in GRec /\ OnceIn(e.list) /\ Group!Cached(e) = Group!Cached(d) \cup {g}
          /\ e.mem = d.mem /\ e.disk = d.disk /\ e.dirty = d.dirty /\ e.file_not_found = d.file_not_found
      BY <1>1, <1>3, <2>2, EntryFacts
    <2> HIDE DEF e
    <2>5. /\ f \in GRec /\ f.list = e.list /\ f.disk = e.disk /\ f.dirty = e.dirty
          /\ f.file_not_found = e.file_not_found /\ f.mem = [e.mem EXCEPT ![k] = g_now]
      <3> DEFINE m == [e.mem EXCEPT ![k] = g_now]
      <3>1. m \in [GroupKeys -> 0 .. MaxNow]
        <4>1. g_now \in 0 .. MaxNow /\ e.mem \in [GroupKeys -> 0 .. MaxNow]
          BY <1>1, <1>3, <2>4 DEF GRec
        <4> QED
          BY <4>1
      <3>2. f = [e EXCEPT !.mem = m]
        OBVIOUS
      <3> HIDE DEF m, f
      <3>3. /\ f \in GRec /\ f.list = e.list /\ f.disk = e.disk /\ f.dirty = e.dirty
            /\ f.file_not_found = e.file_not_found /\ f.mem = m
        BY <2>4, <3>1, <3>2 DEF GRec
      <3> QED
        BY <3>3 DEF m
    <2>6. e.mem \in [GroupKeys -> 0 .. MaxNow]
      BY <2>4 DEF GRec
    <2> HIDE DEF f
    <2>7. Group!Cached(f) = Group!Cached(e)
      BY <2>5 DEF Group!Cached
    <2>8. f.mem[k] = g_now /\ l2[k] = g_now /\ \A i \in GroupKeys \ {k} : f.mem[i] = s.mem[i] /\ l2[i] = g_last[i]
      BY <1>3, <2>2, <2>4, <2>5, <2>6
    <2>9. l2 \in [GroupKeys -> 0 .. MaxNow]
      BY <1>3
    <2> HIDE DEF l2
    <2>10. AgreesAt(g_now, g_now, g_now)
      BY DEF AgreesAt
    <2>11. Fine(g_now, f, l2)
      <3>1. \A i \in GroupKeys : Grouper[i] # g => f.mem[i] = s.mem[i] /\ l2[i] = g_last[i]
        BY <2>8
      <3>2. ASSUME NEW i \in GroupKeys, AgreesAt(g_now, s.mem[i], g_last[i]) PROVE AgreesAt(g_now, f.mem[i], l2[i])
        BY <2>8, <2>10, <3>2
      <3>3. /\ f \in GRec /\ OnceIn(f.list) /\ Group!Cached(f) = Group!Cached(s) \cup {g} /\ f.disk = s.disk
            /\ f.file_not_found = s.file_not_found /\ f.dirty = s.dirty \cup {g}
        BY <2>2, <2>3, <2>4, <2>5, <2>7
      <3> HIDE DEF g
      <3> QED
        BY <1>1, <1>2, <3>1, <3>2, <3>3, ChangedFine
    <2>12. Fine(g_now + 1, f, l2)
      BY <1>3, <2>9, <2>11, FineLater
    <2>13. RestOK'
      BY <1>1, <1>3, <2>1, <2>9, AdjustFacts DEF RestOK
    <2> QED
      BY <2>1, <2>12, <2>13 DEF FineNow
  <1>5. CASE Group!Erase(k)
    <2> DEFINE e == Group!GetOrCreateCacheEntry(s, g)
               d == [e EXCEPT !.mem[k] = 0]
               f == [d EXCEPT !.dirty = d.dirty \cup {g}]
               l2 == [g_last EXCEPT ![k] = 0]
    <2>1. g_cache' = f /\ g_last' = l2 /\ UNCHANGED <<g_now, g_evictors, g_flushing>>
      BY <1>5 DEF Group!Erase, Group!SetDirty, s
    <2>2. /\ e \in GRec /\ OnceIn(e.list) /\ Group!Cached(e) = Group!Cached(s) \cup {g}
          /\ e.mem = s.mem /\ e.disk = s.disk /\ e.dirty = s.dirty /\ e.file_not_found = s.file_not_found
      BY <1>1, <1>3, EntryFacts
    <2> HIDE DEF e
    <2>3. /\ d \in GRec /\ d.list = e.list /\ d.disk = e.disk /\ d.dirty = e.dirty
          /\ d.file_not_found = e.file_not_found /\ d.mem = [e.mem EXCEPT ![k] = 0]
      BY <1>1, <2>2 DEF GRec
    <2>4. e.mem \in [GroupKeys -> 0 .. MaxNow]
      BY <2>2 DEF GRec
    <2> HIDE DEF d
    <2>5. /\ f \in GRec /\ f.list = d.list /\ f.mem = d.mem /\ f.disk = d.disk /\ f.dirty = d.dirty \cup {g}
          /\ f.file_not_found = d.file_not_found
      BY <1>1, <2>3 DEF GRec
    <2> HIDE DEF f
    <2>6. Group!Cached(f) = Group!Cached(e)
      BY <2>3, <2>5 DEF Group!Cached
    <2>7. f.mem[k] = 0 /\ l2[k] = 0 /\ \A i \in GroupKeys \ {k} : f.mem[i] = s.mem[i] /\ l2[i] = g_last[i]
      BY <1>3, <2>2, <2>3, <2>4, <2>5
    <2>8. l2 \in [GroupKeys -> 0 .. MaxNow]
      BY <1>1, <1>3
    <2> HIDE DEF l2
    <2>9. AgreesAt(g_now, 0, 0)
      BY DEF AgreesAt
    <2>10. Fine(g_now, f, l2)
      <3>1. \A i \in GroupKeys : Grouper[i] # g => f.mem[i] = s.mem[i] /\ l2[i] = g_last[i]
        BY <2>7
      <3>2. ASSUME NEW i \in GroupKeys, AgreesAt(g_now, s.mem[i], g_last[i]) PROVE AgreesAt(g_now, f.mem[i], l2[i])
        BY <2>7, <2>9, <3>2
      <3>3. /\ f \in GRec /\ OnceIn(f.list) /\ Group!Cached(f) = Group!Cached(s) \cup {g} /\ f.disk = s.disk
            /\ f.file_not_found = s.file_not_found /\ f.dirty = s.dirty \cup {g}
        BY <2>2, <2>3, <2>5, <2>6
      <3> HIDE DEF g
      <3> QED
        BY <1>1, <1>2, <3>1, <3>2, <3>3, ChangedFine
    <2> QED
      BY <1>3, <2>1, <2>8, <2>10 DEF FineNow, RestOK
  <1> QED
    BY <1>4, <1>5

(* find().                                                                 *)
LEMMA FindStep ==
  ASSUME FineNow, NEW g \in Groups, Group!Find(g)
  PROVE  FineNow'
  <1>1. PICK ks \in SUBSET Group!In(g) :
          /\ g_cache' = Group!Found(g, ks)
          /\ Group!AdjustSize(Group!Found(g, ks)) \/ UNCHANGED g_evictors
    BY DEF Group!Find
  <1> DEFINE s == Group!Loaded(g_cache, g)
             expired == {k \in ks : s.mem[k] # 0 /\ Group!IsExpired(s.mem[k])}
             e == Group!GetOrCreateCacheEntry(s, g)
             mem == [k \in GroupKeys |-> IF k \in expired THEN 0 ELSE e.mem[k]]
             t == [e EXCEPT !.mem = mem]
             f == Group!Found(g, ks)
  <1>2. Fine(g_now, s, g_last) /\ s \in GRec /\ OnceIn(s.list)
    BY LoadedFine DEF FineNow, Fine
  <1>3. Fine(g_now, f, g_last)
    <2>1. CASE g \notin Group!Cached(s)
      BY <1>2, <2>1 DEF Group!Found
    <2>2. CASE g \in Group!Cached(s)
      <3>1. f = IF expired # {} THEN [t EXCEPT !.dirty = t.dirty \cup {g}] ELSE t
        BY <2>2 DEF Group!Found, Group!SetDirty
      <3>2. \A k \in expired : Grouper[k] = g /\ k \in GroupKeys /\ ExpiredAt(g_now, s.mem[k])
        BY DEF Group!In, Group!IsExpired, ExpiredAt
      <3> HIDE DEF s, expired
      <3>3. /\ e \in GRec /\ OnceIn(e.list) /\ Group!Cached(e) = Group!Cached(s) \cup {g}
            /\ e.mem = s.mem /\ e.disk = s.disk /\ e.dirty = s.dirty /\ e.file_not_found = s.file_not_found
        BY <1>2, EntryFacts
      <3> HIDE DEF e
      <3>4. mem \in [GroupKeys -> 0 .. MaxNow] /\ \A k \in GroupKeys : mem[k] = IF k \in expired THEN 0 ELSE s.mem[k]
        <4>1. 0 \in 0 .. MaxNow
          BY GroupAssumption DEF Group!GroupCacheAssumption
        <4>2. \A k \in GroupKeys : e.mem[k] \in 0 .. MaxNow
          BY <3>3 DEF GRec
        <4> QED
          BY <3>3, <4>1, <4>2
      <3> HIDE DEF mem
      <3>5. /\ t \in GRec /\ t.list = e.list /\ t.mem = mem /\ t.disk = e.disk /\ t.dirty = e.dirty
            /\ t.file_not_found = e.file_not_found
        BY <3>3, <3>4 DEF GRec
      <3> HIDE DEF t, f
      <3>6. /\ f \in GRec /\ f.list = t.list /\ f.mem = t.mem /\ f.disk = t.disk
            /\ f.dirty \in {t.dirty \cup {g}, t.dirty}
        BY <3>1, <3>5 DEF GRec
      <3>7. Group!Cached(f) = Group!Cached(e)
        BY <3>5, <3>6 DEF Group!Cached
      <3>8. f.file_not_found = s.file_not_found
        BY <3>1, <3>3, <3>5 DEF GRec
      <3>9. \A k \in GroupKeys : Grouper[k] # g => f.mem[k] = s.mem[k]
        BY <3>2, <3>4, <3>5, <3>6
      <3>10. ASSUME NEW k \in GroupKeys, AgreesAt(g_now, s.mem[k], g_last[k]) PROVE AgreesAt(g_now, f.mem[k], g_last[k])
        BY <3>2, <3>4, <3>5, <3>6, <3>10 DEF AgreesAt
      <3> QED
        BY <1>2, <2>2, <3>3, <3>5, <3>6, <3>7, <3>8, <3>9, <3>10, ChangedFine
    <2> QED
      BY <2>1, <2>2
  <1>4. UNCHANGED <<g_now, g_flushing, g_last>>
    BY DEF Group!Find
  <1>5. RestOK'
    BY <1>1, <1>4, AdjustFacts DEF RestOK, FineNow
  <1> QED
    BY <1>1, <1>3, <1>4, <1>5 DEF FineNow

(* flush(), flush(prob), clear() and the destructor.                       *)
LEMMA FlushSteps ==
  ASSUME FineNow, Group!Flush \/ Group!Clear \/ Group!FlushSome \/ Group!FlushOne \/ Group!FlushSomeEnds \/ Group!Restart
  PROVE  FineNow'
  <1> DEFINE c == Group!FlushGroup(g_cache, g_cache.dirty)
             a == [c EXCEPT !.file_not_found = {}]
             d == Group!Drop(a, Groups, <<>>)
  <1>1. Fine(g_now, g_cache, g_last) /\ RestOK /\ g_cache.dirty \subseteq Groups
    BY DEF FineNow, Fine, GRec
  <1>2. Fine(g_now, c, g_last) /\ c.dirty = {}
    BY <1>1, FlushFine
  <1> HIDE DEF c
  <1>3. Fine(g_now, a, g_last) /\ a.dirty = {} /\ a.file_not_found = {} /\ a = Group!FlushAll(g_cache)
    BY <1>2, ForgetsFiles DEF Group!FlushAll, c
  <1> HIDE DEF a
  <1>4. Fine(g_now, d, g_last) /\ d.dirty = {}
    <2>1. <<>> \in Seq(Groups) /\ OnceIn(<<>>)
      BY DEF OnceIn
    <2>2. Group!Cached(a) \subseteq Groups
      BY <1>3 DEF Fine, GRec, Group!Cached, Group!ToSet
    <2> DEFINE e == <<>>
    <2>3. {e[i] : i \in DOMAIN e} = Group!Cached(a) \ Groups
      BY <2>2
    <2> QED
      BY ZenonT(60), <1>3, <2>1, <2>3, DropFine
  <1> HIDE DEF d
  <1>5. CASE Group!Flush
    BY <1>1, <1>3, <1>5 DEF Group!Flush, FineNow, RestOK
  <1>6. CASE Group!Clear
    BY <1>1, <1>3, <1>4, <1>6 DEF Group!Clear, FineNow, RestOK, d
  <1>7. CASE Group!FlushSome
    BY <1>1, <1>7 DEF Group!FlushSome, FineNow, RestOK
  <1>8. CASE Group!FlushOne
    <2>1. PICK gs \in g_flushing : \E g \in gs : g_cache' = Group!FlushGroup(g_cache, {g}) /\ g_flushing' = {gs \ {g}}
      BY <1>8 DEF Group!FlushOne
    <2>2. PICK g \in gs : g_cache' = Group!FlushGroup(g_cache, {g}) /\ g_flushing' = {gs \ {g}}
      BY <2>1
    <2>3. Fine(g_now, Group!FlushGroup(g_cache, {g}), g_last)
      BY <1>1, FlushFine
    <2>4. UNCHANGED <<g_now, g_evictors, g_last>>
      BY <1>8 DEF Group!FlushOne
    <2>5. g_flushing' \subseteq SUBSET Groups
      BY <1>1, <2>1, <2>2 DEF RestOK
    <2> QED
      BY <1>1, <2>2, <2>3, <2>4, <2>5 DEF FineNow, RestOK
  <1>9. CASE Group!FlushSomeEnds
    <2>1. Fine(g_now, [g_cache EXCEPT !.file_not_found = {}], g_last)
      BY <1>1, ForgetsFiles
    <2> QED
      BY <1>1, <1>9, <2>1 DEF Group!FlushSomeEnds, FineNow, RestOK
  <1>10. CASE Group!Restart
    <2>1. g_cache' = [d EXCEPT !.dirty = {}, !.file_not_found = {}] /\ UNCHANGED <<g_now, g_evictors, g_flushing, g_last>>
      BY <1>3, <1>10 DEF Group!Restart, d
    <2>2. [d EXCEPT !.dirty = {}, !.file_not_found = {}] = [d EXCEPT !.file_not_found = {}]
      <3>1. d \in GRec
        BY <1>4 DEF Fine
      <3> QED
        BY <1>4, <3>1 DEF GRec
    <2>3. Fine(g_now, [d EXCEPT !.file_not_found = {}], g_last)
      BY <1>4, ForgetsFiles
    <2> QED
      BY <1>1, <2>1, <2>2, <2>3 DEF FineNow, RestOK
  <1> QED
    BY <1>5, <1>6, <1>7, <1>8, <1>9, <1>10

(* The threads of AdjustSize(), and the clock.                             *)
LEMMA EvictSteps ==
  ASSUME FineNow, Group!EvictTest \/ Group!Evict \/ Group!Tick
  PROVE  FineNow'
  <1>1. /\ Fine(g_now, g_cache, g_last) /\ RestOK /\ MaxEvictors \in Nat /\ MaxNow \in Nat /\ g_now \in 1 .. MaxNow
        /\ g_last \in [GroupKeys -> 0 .. MaxNow] /\ g_cache.list \in Seq(Groups) /\ OnceIn(g_cache.list)
    BY GroupAssumption DEF FineNow, Fine, GRec, RestOK, Group!GroupCacheAssumption
  <1>2. CASE Group!EvictTest
    <2>1. g_evictors' \in [test : 0 .. MaxEvictors, evict : 0 .. MaxEvictors] /\ g_evictors'.test + g_evictors'.evict <= MaxEvictors
      <3>1. CASE Len(g_cache.list) > MaxGroups
        BY <1>1, <1>2, <3>1 DEF Group!EvictTest, RestOK
      <3>2. CASE ~(Len(g_cache.list) > MaxGroups)
        BY <1>1, <1>2, <3>2 DEF Group!EvictTest, RestOK
      <3> QED
        BY <3>1, <3>2
    <2> QED
      BY <1>1, <1>2, <2>1 DEF Group!EvictTest, FineNow, RestOK
  <1>3. CASE Group!Evict
    <2>1. g_evictors' \in [test : 0 .. MaxEvictors, evict : 0 .. MaxEvictors] /\ g_evictors'.test + g_evictors'.evict <= MaxEvictors
      BY <1>1, <1>3 DEF Group!Evict, RestOK
    <2>2. UNCHANGED <<g_now, g_flushing, g_last>>
      BY <1>3 DEF Group!Evict
    <2>3. Fine(g_now, g_cache', g_last)
      <3>1. CASE g_cache.list = <<>>
        BY <1>1, <1>3, <3>1 DEF Group!Evict
      <3>2. CASE g_cache.list # <<>>
        <4> DEFINE l == g_cache.list
                   n == Len(l)
                   g == l[n]
                   s == Group!FlushGroup(g_cache, {g})
                   rest == SubSeq(l, 1, n - 1)
        <4>1. g_cache' = Group!Drop(s, {g}, rest)
          BY <1>3, <3>2 DEF Group!Evict, Group!Last, Group!Front
        <4>2. Fine(g_now, s, g_last) /\ {g} \cap s.dirty = {} /\ s.list = l
          BY <1>1, FlushFine
        <4>3. l \in Seq(Groups) /\ n \in Nat /\ n >= 1 /\ DOMAIN l = 1 .. n /\ OnceIn(l)
          BY <1>1, <3>2
        <4>4. rest \in Seq(Groups) /\ DOMAIN rest = 1 .. n - 1 /\ \A i \in 1 .. n - 1 : rest[i] = l[i]
          BY <4>3
        <4>5. Group!Cached(s) = {l[i] : i \in 1 .. n}
          BY <4>2, <4>3 DEF Group!Cached, Group!ToSet
        <4> HIDE DEF rest, s, l
        <4>6. OnceIn(rest)
          BY <4>3, <4>4 DEF OnceIn
        <4>7. {rest[i] : i \in DOMAIN rest} = Group!Cached(s) \ {g}
          <5>1. ASSUME NEW i \in 1 .. n - 1 PROVE l[i] # g /\ i \in 1 .. n
            BY <4>3 DEF OnceIn
          <5>2. ASSUME NEW i \in 1 .. n, l[i] # g PROVE i \in 1 .. n - 1
            BY <4>3, <5>2
          <5> HIDE DEF n, g
          <5> QED
            BY <4>4, <4>5, <5>1, <5>2
        <4> QED
          BY <4>1, <4>2, <4>4, <4>6, <4>7, DropFine
      <3> QED
        BY <3>1, <3>2
    <2> QED
      BY <1>1, <2>1, <2>2, <2>3 DEF FineNow, RestOK
  <1>4. CASE Group!Tick
    <2>1. g_now' = g_now + 1 /\ g_now < MaxNow /\ UNCHANGED <<g_cache, g_evictors, g_flushing, g_last>>
      BY <1>4 DEF Group!Tick
    <2>2. Fine(g_now + 1, g_cache, g_last)
      BY <1>1, FineLater
    <2> QED
      BY <1>1, <2>1, <2>2 DEF FineNow, RestOK
  <1> QED
    BY <1>2, <1>3, <1>4

(* An empty cache on no files.                                             *)
LEMMA GroupBegins == Group!Init => Group!Inv
  <1> SUFFICES ASSUME Group!Init PROVE FineNow
    BY InvIsFine
  <1>1. MaxEvictors \in Nat /\ MaxNow \in Nat \ {0}
    BY GroupAssumption DEF Group!GroupCacheAssumption
  <1>2. RestOK
    BY <1>1 DEF Group!Init, RestOK
  <1>3. /\ g_cache \in GRec /\ g_cache.list = <<>> /\ g_cache.dirty = {} /\ g_cache.file_not_found = {}
        /\ \A k \in GroupKeys : g_cache.mem[k] = 0 /\ g_cache.disk[k] = 0 /\ g_last[k] = 0
    BY <1>1 DEF Group!Init, GRec
  <1>4. OnceIn(g_cache.list) /\ Group!Cached(g_cache) = {}
    BY <1>3 DEF OnceIn, Group!Cached, Group!ToSet
  <1>5. \A n : AgreesAt(n, 0, 0)
    BY DEF AgreesAt
  <1>6. KeptAt(g_now, g_cache, g_last)
    BY <1>3, <1>4, <1>5 DEF KeptAt
  <1> QED
    BY <1>2, <1>3, <1>4, <1>6 DEF FineNow, Fine

(* Every step of the calls and of the threads that evict.                  *)
LEMMA GroupStep == Group!Inv /\ Group!Next => Group!Inv'
  <1> SUFFICES ASSUME FineNow, Group!Next PROVE FineNow'
    BY InvIsFine, FineIsInv
  <1> QED
    BY WriteSteps, FindStep, FlushSteps, EvictSteps DEF Group!Next

(* What a lookup finds.                                                    *)
LEMMA NothingLost == Group!Inv => GroupKeepsWrites
  <1> SUFFICES ASSUME Group!Inv PROVE GroupKeepsWrites
    OBVIOUS
  <1>1. Fine(g_now, g_cache, g_last)
    BY InvIsFine DEF FineNow
  <1>2. \A x : Group!IsExpired(x) <=> ExpiredAt(g_now, x)
    BY DEF Group!IsExpired, ExpiredAt
  <1>3. Group!NoLostWrite
    <2>1. ASSUME NEW k \in GroupKeys PROVE AgreesAt(g_now, Group!Loaded(g_cache, Grouper[k]).mem[k], g_last[k])
      <3> DEFINE g == Grouper[k]
                 s == Group!Loaded(g_cache, g)
      <3>1. g \in Groups
        BY GroupAssumption DEF Group!GroupCacheAssumption
      <3>2. Fine(g_now, s, g_last) /\ (g \in Group!Cached(s) \/ g \in s.file_not_found)
        BY <1>1, <3>1, LoadedFine
      <3> HIDE DEF s
      <3>3. CASE g \in Group!Cached(s)
        BY <3>2, <3>3 DEF Fine, KeptAt, s
      <3>4. CASE g \notin Group!Cached(s)
        <4>1. s.mem[k] = 0 /\ s.disk[k] = 0 /\ AgreesAt(g_now, s.disk[k], g_last[k])
          BY <3>2, <3>4 DEF Fine, KeptAt
        <4> QED
          BY <4>1 DEF s
      <3> QED
        BY <3>3, <3>4
    <2> QED
      BY <1>2, <2>1 DEF Group!NoLostWrite, AgreesAt
  <1> QED
    BY <1>3 DEF GroupKeepsWrites, Group!Inv

(* For all keys, groups, limits and times, and whatever is flushed,        *)
(* evicted, cleared or restarted in between, a lookup finds what was       *)
(* inserted last unless it was erased or has expired, and a dirty group is *)
(* in memory.                                                              *)
THEOREM WritesAreKept == AllSpec => []GroupKeepsWrites
  <1>1. AllInit => Group!Inv
    BY GroupBegins DEF AllInit
  <1>2. Group!Inv /\ [AllNext]_allVars => Group!Inv'
    <2>1. [AllNext]_allVars => Group!Next \/ UNCHANGED GroupVars
      BY DEF AllNext, allVars
    <2>2. UNCHANGED GroupVars => (FineNow => FineNow')
      BY DEF GroupVars, FineNow, RestOK
    <2> QED
      BY <2>1, <2>2, GroupStep, InvIsFine, FineIsInv
  <1> QED
    BY <1>1, <1>2, NothingLost, PTL DEF AllSpec

-----------------------------------------------------------------------------
(* Proofs about the suggest server, for all requests, words and sizes of   *)
(* the pool.                                                               *)

\* The functions of the instance, the counters and what is known of each.
JJ == Suggest!Jobs
CC == Suggest!Counters
Members(s) == Suggest!Range(Suggest!Group[s])
JobRec == [at : {"none", "queued", "done"} \cup Suggest!Running,
           completions : {"none", "some", "all"}, success : BOOLEAN]

(* SuggestPool counts with the operators of FiniteSets.                    *)
LEMMA SuggestFinite ==
  ASSUME NEW S
  PROVE  (Suggest!IsFiniteSet(S) <=> IsFiniteSet(S)) /\ Suggest!Cardinality(S) = Cardinality(S)
  <1>1. Suggest!IsFiniteSet(S) <=> IsFiniteSet(S)
    BY DEF Suggest!IsFiniteSet, IsFiniteSet
  <1>2. Suggest!Cardinality(S) = Cardinality(S)
    BY DEF Suggest!Cardinality, Cardinality
  <1> QED
    BY <1>1, <1>2

(* The functions of the groups.                                            *)
LEMMA GroupFacts ==
  /\ Members("primary") = {"prefix", "bow"} /\ Members("boost") = {"domain_boost"}
  /\ Members("secondary") = {"filters", "sorts"} /\ Members("identity") = {"identity"}
  /\ Suggest!Grouped = {"prefix", "bow", "domain_boost", "filters", "sorts", "identity"}
  <1>1. Members("primary") = {"prefix", "bow"}
    BY DEF Members, Suggest!Range, Suggest!Group
  <1>2. Members("boost") = {"domain_boost"}
    BY DEF Members, Suggest!Range, Suggest!Group
  <1>3. Members("secondary") = {"filters", "sorts"}
    BY DEF Members, Suggest!Range, Suggest!Group
  <1>4. Members("identity") = {"identity"}
    BY DEF Members, Suggest!Range, Suggest!Group
  <1>5. Suggest!Grouped = Members("primary") \cup Members("boost") \cup Members("secondary") \cup Members("identity")
    BY DEF Members, Suggest!Grouped, Suggest!Stages
  <1> QED
    BY <1>1, <1>2, <1>3, <1>4, <1>5

(* The required functions of a group are those that have its counter.      *)
LEMMA CounterFacts ==
  ASSUME NEW j \in JJ
  PROVE  /\ Suggest!CounterOf(j) \in CC
         /\ Suggest!CounterOf(j) = "words" <=> j \in Words
         /\ Suggest!CounterOf(j) = "optional" <=> j = "bow"
         /\ \A s \in Suggest!Stages : Suggest!CounterOf(j) = s <=> j \in Suggest!Required(s)
  <1>1. Words \cap Suggest!Grouped = {} /\ j \in Suggest!Grouped \cup Words
    BY SuggestAssumption DEF Suggest!SuggestPoolAssumption, JJ, Suggest!Jobs
  <1>2. \A s \in Suggest!Stages : Suggest!Required(s) = Members(s) \ {"bow"} /\ Suggest!Required(s) \subseteq Suggest!Grouped
    BY GroupFacts DEF Suggest!Required, Suggest!Optional, Members, Suggest!Stages
  <1>3. CASE j \in Words
    <2>1. Suggest!CounterOf(j) = "words" /\ j # "bow" /\ \A s \in Suggest!Stages : j \notin Suggest!Required(s)
      <3>1. j # "bow" /\ j \notin Suggest!Grouped
        BY <1>1, <1>3, GroupFacts
      <3>2. Suggest!CounterOf(j) = "words"
        BY <1>3, <3>1 DEF Suggest!CounterOf, Suggest!Optional
      <3> QED
        BY <1>2, <3>1, <3>2
    <2> QED
      BY <1>3, <2>1 DEF Suggest!Stages, CC, Suggest!Counters
  <1>4. CASE j = "bow"
    <2>1. Suggest!CounterOf(j) = "optional" /\ j \notin Words /\ \A s \in Suggest!Stages : j \notin Suggest!Required(s)
      BY <1>1, <1>2, <1>4, GroupFacts DEF Suggest!CounterOf, Suggest!Optional
    <2> QED
      BY <1>4, <2>1 DEF Suggest!Stages, CC, Suggest!Counters
  <1>5. CASE j \notin Words /\ j # "bow"
    <2>1. Suggest!CounterOf(j) = Suggest!StageOf(j)
      BY <1>5 DEF Suggest!CounterOf, Suggest!Optional
    <2>2. \E s \in Suggest!Stages : j \in Members(s)
      BY <1>1, <1>5, GroupFacts DEF Suggest!Stages
    <2>3. Suggest!StageOf(j) \in Suggest!Stages /\ j \in Members(Suggest!StageOf(j))
      BY <2>2 DEF Suggest!StageOf, Members
    <2>4. \A s, t \in Suggest!Stages : j \in Members(s) /\ j \in Members(t) => s = t
      BY GroupFacts DEF Suggest!Stages
    <2>5. \A s \in Suggest!Stages : Suggest!StageOf(j) = s <=> j \in Members(s)
      BY <2>3, <2>4
    <2>6. Suggest!StageOf(j) # "words" /\ Suggest!StageOf(j) # "optional" /\ Suggest!StageOf(j) \in CC
      BY <2>3 DEF Suggest!Stages, CC, Suggest!Counters
    <2> QED
      BY <1>2, <1>5, <2>1, <2>5, <2>6
  <1> QED
    BY <1>3, <1>4, <1>5

(* There are finitely many functions, and a counter counts some of them.   *)
LEMMA JobsFinite ==
  /\ IsFiniteSet(JJ) /\ Cardinality(JJ) \in Nat
  /\ \A S : S \subseteq JJ => IsFiniteSet(S) /\ Cardinality(S) \in 0 .. Cardinality(JJ)
  /\ "bow" \in JJ /\ Words \subseteq JJ /\ "bow" \notin Words
  <1>1. IsFiniteSet(Words) /\ Words \cap Suggest!Grouped = {}
    BY SuggestAssumption, SuggestFinite DEF Suggest!SuggestPoolAssumption
  <1>2. IsFiniteSet({"prefix", "bow", "domain_boost", "filters", "sorts", "identity"})
    <2>1. IsFiniteSet({}) /\ IsFiniteSet({} \cup {"prefix"})
      BY FS_EmptySet, FS_AddElement
    <2>2. IsFiniteSet({} \cup {"prefix"} \cup {"bow"})
      BY <2>1, FS_AddElement
    <2>3. IsFiniteSet({} \cup {"prefix"} \cup {"bow"} \cup {"domain_boost"})
      BY <2>2, FS_AddElement
    <2>4. IsFiniteSet({} \cup {"prefix"} \cup {"bow"} \cup {"domain_boost"} \cup {"filters"})
      BY <2>3, FS_AddElement
    <2>5. IsFiniteSet({} \cup {"prefix"} \cup {"bow"} \cup {"domain_boost"} \cup {"filters"} \cup {"sorts"})
      BY <2>4, FS_AddElement
    <2>6. IsFiniteSet({} \cup {"prefix"} \cup {"bow"} \cup {"domain_boost"} \cup {"filters"} \cup {"sorts"} \cup {"identity"})
      BY <2>5, FS_AddElement
    <2>7. {} \cup {"prefix"} \cup {"bow"} \cup {"domain_boost"} \cup {"filters"} \cup {"sorts"} \cup {"identity"}
            = {"prefix", "bow", "domain_boost", "filters", "sorts", "identity"}
      OBVIOUS
    <2> QED
      BY <2>6, <2>7
  <1>3. IsFiniteSet(JJ)
    BY <1>1, <1>2, GroupFacts, FS_Union DEF JJ, Suggest!Jobs
  <1>4. "bow" \in JJ /\ Words \subseteq JJ /\ "bow" \notin Words
    BY <1>1, GroupFacts DEF JJ, Suggest!Jobs
  <1>5. ASSUME NEW S, S \subseteq JJ PROVE IsFiniteSet(S) /\ Cardinality(S) <= Cardinality(JJ)
    BY <1>3, <1>5, FS_Subset
  <1>6. \A S : IsFiniteSet(S) => Cardinality(S) \in Nat
    BY FS_CardinalityType
  <1> QED
    BY <1>3, <1>4, <1>5, <1>6

\* What req may hold, but for the values of the counters.
ReqRec == [at : {"group", "required", "optional", "write", "returned"}, stage : Suggest!Stages,
           words : SUBSET Words, merged : SUBSET JJ, timed : BOOLEAN, count : [CC -> Int]]

\* TypeOK, but for the values of the counters.
TypesNow ==
  /\ p_req \in [Requests -> ReqRec] /\ p_job \in [Requests -> [JJ -> JobRec]]
  /\ p_queue \in Seq(Requests \X JJ) /\ p_workers \in PoolSizes
  /\ Cardinality(Suggest!Busy) <= p_workers

(* The parts of TypeOK: the counters are in range if they are exact.       *)
LEMMA TypesFit ==
  /\ Suggest!TypeOK => /\ p_req \in [Requests -> ReqRec] /\ p_job \in [Requests -> [JJ -> JobRec]]
                       /\ p_queue \in Seq(Requests \X JJ) /\ p_workers \in PoolSizes
                       /\ p_workers \in Nat /\ Cardinality(Suggest!Busy) <= p_workers
  /\ TypesNow /\ Suggest!CountInv => Suggest!TypeOK
  <1>1. 0 .. Cardinality(JJ) \subseteq Int /\ Suggest!Cardinality(JJ) = Cardinality(JJ)
        /\ Suggest!Cardinality(Suggest!Busy) = Cardinality(Suggest!Busy) /\ PoolSizes \subseteq Nat
    BY JobsFinite, SuggestFinite, SuggestAssumption DEF Suggest!SuggestPoolAssumption
  <1>2. ASSUME Suggest!TypeOK PROVE p_req \in [Requests -> ReqRec]
    <2>1. \A r \in Requests : p_req[r].count \in [CC -> Int]
      BY <1>1, <1>2 DEF Suggest!TypeOK, CC, JJ
    <2> QED
      BY <1>2, <2>1 DEF Suggest!TypeOK, ReqRec, JJ
  <1>3. ASSUME p_req \in [Requests -> ReqRec], Suggest!CountInv
        PROVE  p_req \in [Requests -> [at : {"group", "required", "optional", "write", "returned"},
                           stage : Suggest!Stages, words : SUBSET Words,
                           merged : SUBSET JJ, timed : BOOLEAN,
                           count : [CC -> 0 .. Cardinality(JJ)]]]
    <2>1. ASSUME NEW r \in Requests, NEW c \in CC PROVE p_req[r].count[c] \in 0 .. Cardinality(JJ)
      <3>1. p_req[r].count[c] = Cardinality(Suggest!Pending(r, c))
        BY <1>3, SuggestFinite DEF Suggest!CountInv, CC
      <3>2. Suggest!Pending(r, c) \subseteq JJ
        BY DEF Suggest!Pending, JJ
      <3> QED
        BY <3>1, <3>2, JobsFinite
    <2>2. \A r \in Requests : p_req[r].count \in [CC -> 0 .. Cardinality(JJ)]
      BY <1>3, <2>1 DEF ReqRec
    <2> QED
      BY <1>3, <2>2 DEF ReqRec
  <1>4. Suggest!TypeOK => /\ p_job \in [Requests -> [JJ -> JobRec]] /\ p_queue \in Seq(Requests \X JJ)
                          /\ p_workers \in PoolSizes /\ p_workers \in Nat /\ Cardinality(Suggest!Busy) <= p_workers
    BY <1>1 DEF Suggest!TypeOK, JJ, JobRec
  <1> QED
    BY <1>1, <1>2, <1>3, <1>4 DEF Suggest!TypeOK, JJ, CC, JobRec, TypesNow

(* The same after a step.                                                  *)
LEMMA TypesFitNext == TypesNow' /\ Suggest!CountInv' => Suggest!TypeOK'
  BY TypesFit, PTL

(* At most one more function runs when one is taken from the queue, and    *)
(* none when it goes on.                                                   *)
LEMMA BusyFacts ==
  /\ IsFiniteSet(Suggest!Busy) /\ IsFiniteSet(Suggest!Busy')
  /\ Suggest!Busy' \subseteq Suggest!Busy => Cardinality(Suggest!Busy') <= Cardinality(Suggest!Busy)
  /\ \A x : Suggest!Busy' \subseteq Suggest!Busy \cup {x} => Cardinality(Suggest!Busy') <= Cardinality(Suggest!Busy) + 1
  /\ Cardinality(Suggest!Busy) \in Nat /\ Cardinality(Suggest!Busy') \in Nat
  <1>1. IsFiniteSet(Requests \X JJ)
    <2>1. IsFiniteSet(Requests)
      BY SuggestAssumption, SuggestFinite DEF Suggest!SuggestPoolAssumption
    <2> QED
      BY <2>1, JobsFinite, FS_Product
  <1>2. Suggest!Busy \in SUBSET (Requests \X JJ) /\ Suggest!Busy' \in SUBSET (Requests \X JJ)
    BY DEF Suggest!Busy, JJ
  <1>3. IsFiniteSet(Suggest!Busy) /\ IsFiniteSet(Suggest!Busy')
    BY <1>1, <1>2, FS_Subset
  <1>4. Cardinality(Suggest!Busy) \in Nat /\ Cardinality(Suggest!Busy') \in Nat
    BY <1>3, FS_CardinalityType
  <1>5. Suggest!Busy' \subseteq Suggest!Busy => Cardinality(Suggest!Busy') <= Cardinality(Suggest!Busy)
    BY <1>3, FS_Subset
  <1>6. ASSUME NEW x, Suggest!Busy' \subseteq Suggest!Busy \cup {x}
        PROVE  Cardinality(Suggest!Busy') <= Cardinality(Suggest!Busy) + 1
    <2>1. /\ IsFiniteSet(Suggest!Busy \cup {x})
          /\ Cardinality(Suggest!Busy \cup {x}) = IF x \in Suggest!Busy THEN Cardinality(Suggest!Busy) ELSE Cardinality(Suggest!Busy) + 1
      BY <1>3, FS_AddElement
    <2>2. Cardinality(Suggest!Busy') <= Cardinality(Suggest!Busy \cup {x})
      BY <1>6, <2>1, FS_Subset
    <2> QED
      BY <1>4, <2>1, <2>2
  <1> QED
    BY <1>3, <1>4, <1>5, <1>6

\* Only the function j of the request r changes.
OnlyJob(r, j) ==
  /\ p_job' \in [Requests -> [JJ -> JobRec]]
  /\ \A q \in Requests, i \in JJ : q # r \/ i # j => p_job'[q][i] = p_job[q][i]

(* What Becomes() says.                                                    *)
LEMMA BecomesFacts ==
  ASSUME p_job \in [Requests -> [JJ -> JobRec]], NEW r \in Requests, NEW j \in JJ,
         NEW new \in JobRec, p_job' = [p_job EXCEPT ![r][j] = new]
  PROVE  OnlyJob(r, j) /\ p_job'[r][j] = new
  <1>1. p_job' = [p_job EXCEPT ![r] = [p_job[r] EXCEPT ![j] = new]]
    OBVIOUS
  <1>2. p_job'[r][j] = new /\ p_job' \in [Requests -> [JJ -> JobRec]]
    BY <1>1
  <1>3. \A q \in Requests, i \in JJ : q # r \/ i # j => p_job'[q][i] = p_job[q][i]
    BY <1>1
  <1> QED
    BY <1>2, <1>3 DEF OnlyJob

(* The response of a function that has not notified its counter.           *)
LEMMA ResponseFacts ==
  ASSUME Suggest!Inv, NEW r \in Requests, NEW j \in JJ
  PROVE  /\ p_job[r][j].completions \in {"none", "some", "all"} /\ p_job[r][j].success \in BOOLEAN
         /\ p_job[r][j].at \notin {"notify", "done"} => p_job[r][j].success = FALSE
         /\ p_job \in [Requests -> [JJ -> JobRec]]
         /\ p_job[r][j].at \in {"none", "queued", "done"} \cup Suggest!Running
  <1>1. p_job \in [Requests -> [JJ -> JobRec]]
    BY TypesFit DEF Suggest!Inv
  <1>2. p_job[r][j].completions \in {"none", "some", "all"} /\ p_job[r][j].success \in BOOLEAN
        /\ p_job[r][j].at \in {"none", "queued", "done"} \cup Suggest!Running
    BY <1>1 DEF JobRec
  <1>3. p_job[r][j].success => p_job[r][j].at \in {"notify", "done"}
    BY DEF Suggest!Inv, Suggest!SuccessInv, JJ
  <1> QED
    BY <1>1, <1>2, <1>3

(* A function that neither begins nor ends leaves the counters exact, and  *)
(* the groups that were run and those that are done the same.              *)
LEMMA OneJob ==
  ASSUME Suggest!Inv, NEW r \in Requests, NEW j \in JJ, OnlyJob(r, j), UNCHANGED p_req,
         p_job[r][j].at \notin {"none", "done"}, p_job'[r][j].at \notin {"none", "done"},
         p_job'[r][j].success => p_job'[r][j].at = "notify" /\ p_job'[r][j].completions # "some"
  PROVE  /\ Suggest!CountInv' /\ Suggest!StageInv' /\ Suggest!DoneInv' /\ Suggest!SuccessInv'
         /\ j # "bow" => Suggest!WordsInv'
  <1> USE DEF Suggest!Inv, OnlyJob
  <1>1. \A q \in Requests, i \in JJ : /\ p_job'[q][i].at = "none" <=> p_job[q][i].at = "none"
                                      /\ p_job'[q][i].at = "done" <=> p_job[q][i].at = "done"
    OBVIOUS
  <1>2. Suggest!CountInv'
    <2>1. ASSUME NEW q \in Requests, NEW c \in CC PROVE Suggest!Pending(q, c)' = Suggest!Pending(q, c)
      BY <1>1 DEF Suggest!Pending, JJ
    <2> QED
      BY <2>1 DEF Suggest!CountInv, CC
  <1>3. \A s \in Suggest!Stages : Members(s) \subseteq JJ /\ Suggest!Required(s) \subseteq Members(s)
    BY GroupFacts DEF Suggest!Stages, JJ, Suggest!Jobs, Suggest!Required, Members
  <1>4. Suggest!StageInv'
    BY <1>1, <1>3 DEF Suggest!StageInv, Members
  <1>5. Suggest!DoneInv'
    BY <1>1, <1>3 DEF Suggest!DoneInv, Members
  <1>6. Suggest!SuccessInv'
    BY DEF Suggest!SuccessInv, JJ
  <1>7. ASSUME j # "bow" PROVE Suggest!WordsInv'
    <2>1. \A q \in Requests : p_job'[q]["bow"] = p_job[q]["bow"]
      BY <1>7, JobsFinite
    <2> QED
      BY <1>1, <2>1, JobsFinite DEF Suggest!WordsInv
  <1> QED
    BY <1>2, <1>4, <1>5, <1>6, <1>7

(* A function that runs goes on: no more functions run, and the queue is   *)
(* as it was.                                                              *)
LEMMA GoesOn ==
  ASSUME Suggest!Inv, NEW r \in Requests, NEW j \in JJ, OnlyJob(r, j), UNCHANGED p_req,
         p_job[r][j].at \in Suggest!Running, p_job'[r][j].at \in Suggest!Running, UNCHANGED <<p_queue, p_workers>>,
         p_job'[r][j].success => p_job'[r][j].at = "notify" /\ p_job'[r][j].completions # "some",
         j = "bow" => Suggest!WordsInv'
  PROVE  Suggest!Inv'
  <1> USE DEF Suggest!Inv
  <1>1. p_job[r][j].at \notin {"none", "done", "queued"} /\ p_job'[r][j].at \notin {"none", "done", "queued"}
    BY DEF Suggest!Running
  <1>2. /\ Suggest!CountInv' /\ Suggest!StageInv' /\ Suggest!DoneInv' /\ Suggest!SuccessInv' /\ Suggest!WordsInv'
    BY <1>1, OneJob
  <1>3. /\ p_req \in [Requests -> ReqRec] /\ p_queue \in Seq(Requests \X JJ) /\ p_workers \in PoolSizes
        /\ p_workers \in Nat /\ Cardinality(Suggest!Busy) <= p_workers
    BY TypesFit
  <1>4. Cardinality(Suggest!Busy') <= p_workers'
    <2>1. Suggest!Busy' \subseteq Suggest!Busy
      BY <1>1 DEF Suggest!Busy, OnlyJob, JJ
    <2> QED
      BY <1>3, <2>1, BusyFacts
  <1>5. Suggest!TypeOK'
    BY <1>2, <1>3, <1>4, TypesFitNext DEF OnlyJob, TypesNow
  <1>6. Suggest!QueueInv'
    <2>1. \A i \in DOMAIN p_queue : p_queue[i] \in Requests \X JJ
      BY <1>3
    <2>2. ASSUME NEW i \in DOMAIN p_queue PROVE p_job'[p_queue[i][1]][p_queue[i][2]].at = "queued"
      BY <1>1, <2>1 DEF Suggest!QueueInv, OnlyJob
    <2> QED
      BY <2>2 DEF Suggest!QueueInv
  <1> QED
    BY <1>2, <1>5, <1>6

(* An algorithm or a twiddler searches and finds, or finds nothing; a      *)
(* response is marked when it is complete.                                 *)
LEMMA SearchSteps ==
  ASSUME Suggest!Inv, NEW r \in Requests, NEW j \in JJ, UNCHANGED p_workers,
         Suggest!Search(r, j) \/ Suggest!Succeed(r, j)
  PROVE  Suggest!Inv'
  <1> USE ResponseFacts DEF Suggest!Running
  <1>1. CASE Suggest!Search(r, j)
    <2>1. /\ j # "bow" /\ p_job[r][j].at = "running" /\ UNCHANGED <<p_req, p_queue>>
          /\ p_job[r][j].success = FALSE
      BY <1>1 DEF Suggest!Search
    <2>2. PICK new \in JobRec : /\ new.at \in {"found", "notify"} /\ new.success = FALSE
                                /\ p_job' = [p_job EXCEPT ![r][j] = new]
      BY <1>1, <2>1 DEF Suggest!Search, Suggest!Becomes, JobRec
    <2>3. p_job \in [Requests -> [JJ -> JobRec]]
      OBVIOUS
    <2>4. OnlyJob(r, j) /\ p_job'[r][j] = new
      BY ONLY r \in Requests, j \in JJ, new \in JobRec, <2>2, <2>3, BecomesFacts
    <2>5. OnlyJob(r, j) /\ p_job'[r][j].at \in {"found", "notify"} /\ p_job'[r][j].success = FALSE
      BY <2>2, <2>4
    <2> QED
      BY <2>1, <2>5, GoesOn
  <1>2. CASE Suggest!Succeed(r, j)
    <2>1. /\ p_job[r][j].at = "found" /\ UNCHANGED <<p_req, p_queue>>
      BY <1>2 DEF Suggest!Succeed
    <2> DEFINE c == p_job[r][j].completions
               new == [at |-> "notify", completions |-> IF c = "some" THEN "all" ELSE c, success |-> TRUE]
    <2>2. new \in JobRec /\ new.at = "notify" /\ new.completions # "some"
      BY DEF JobRec
    <2>5. p_job' = [p_job EXCEPT ![r][j] = new]
      BY <1>2 DEF Suggest!Succeed, Suggest!Becomes
    <2>6. p_job \in [Requests -> [JJ -> JobRec]]
      OBVIOUS
    <2> HIDE DEF new
    <2>3. OnlyJob(r, j) /\ p_job'[r][j].at = "notify" /\ p_job'[r][j].completions # "some"
      BY <2>2, <2>5, <2>6, BecomesFacts
    <2>4. ASSUME j = "bow" PROVE Suggest!WordsInv'
      BY <2>1, <2>3, <2>4, JobsFinite DEF Suggest!Inv, Suggest!WordsInv, OnlyJob
    <2> QED
      BY <2>1, <2>3, <2>4, GoesOn
  <1> QED
    BY <1>1, <1>2

(* The bag of words has no words, or all its words have ended.             *)
LEMMA BagSteps ==
  ASSUME Suggest!Inv, NEW r \in Requests, UNCHANGED p_workers,
         Suggest!NoWords(r) \/ Suggest!WaitWords(r)
  PROVE  Suggest!Inv'
  <1> USE ResponseFacts DEF Suggest!Running
  <1>1. "bow" \in JJ
    BY JobsFinite
  <1>2. CASE Suggest!NoWords(r)
    <2>1. /\ p_job[r]["bow"].at = "running" /\ UNCHANGED <<p_req, p_queue>> /\ p_job[r]["bow"].success = FALSE
      BY <1>1, <1>2 DEF Suggest!NoWords
    <2>2. OnlyJob(r, "bow") /\ p_job'[r]["bow"].at = "notify" /\ p_job'[r]["bow"].success = FALSE
      <3>1. PICK new \in JobRec : /\ new.at = "notify" /\ new.success = FALSE
                                  /\ p_job' = [p_job EXCEPT ![r]["bow"] = new]
        BY <1>1, <1>2, <2>1 DEF Suggest!NoWords, Suggest!Becomes, JobRec
      <3>2. p_job \in [Requests -> [JJ -> JobRec]]
        BY <1>1
      <3>3. OnlyJob(r, "bow") /\ p_job'[r]["bow"] = new
        BY ONLY r \in Requests, <1>1, new \in JobRec, <3>1, <3>2, BecomesFacts
      <3> QED
        BY <3>1, <3>3
    <2>3. Suggest!WordsInv'
      BY <1>1, <2>1, <2>2, JobsFinite DEF Suggest!Inv, Suggest!WordsInv, OnlyJob
    <2> QED
      BY <1>1, <2>1, <2>2, <2>3, GoesOn
  <1>3. CASE Suggest!WaitWords(r)
    <2>1. PICK new \in JobRec : /\ new.at = "found" /\ new.success = p_job[r]["bow"].success
                                /\ p_job' = [p_job EXCEPT ![r]["bow"] = new]
      BY <1>1, <1>3 DEF Suggest!WaitWords, Suggest!Becomes, JobRec
    <2>2. /\ p_job[r]["bow"].at = "waiting" /\ UNCHANGED <<p_req, p_queue>> /\ p_req[r].count["words"] = 0
          /\ p_job[r]["bow"].success = FALSE
      BY <1>1, <1>3 DEF Suggest!WaitWords
    <2>3. OnlyJob(r, "bow") /\ p_job'[r]["bow"].at = "found" /\ p_job'[r]["bow"].success = FALSE
      <3>1. p_job \in [Requests -> [JJ -> JobRec]]
        BY <1>1
      <3>2. OnlyJob(r, "bow") /\ p_job'[r]["bow"] = new
        BY ONLY r \in Requests, <1>1, new \in JobRec, <2>1, <3>1, BecomesFacts
      <3> QED
        BY <2>1, <2>2, <3>2
    <2>4. Suggest!Pending(r, "words") = {}
      <3>1. Suggest!Pending(r, "words") \subseteq JJ
        BY DEF Suggest!Pending, JJ
      <3>2. Cardinality(Suggest!Pending(r, "words")) = 0
        BY <2>2, SuggestFinite DEF Suggest!Inv, Suggest!CountInv, Suggest!Counters
      <3> QED
        BY <3>1, <3>2, JobsFinite, FS_EmptySet
    <2>5. \A w \in Words : p_job[r][w].at \in {"none", "done"}
      BY <2>4, CounterFacts, JobsFinite DEF Suggest!Pending, JJ
    <2>6. Suggest!WordsInv'
      BY <1>1, <2>3, <2>5, JobsFinite DEF Suggest!Inv, Suggest!WordsInv, OnlyJob
    <2> QED
      BY <1>1, <2>2, <2>3, <2>6, GoesOn DEF Suggest!Running
  <1> QED
    BY <1>2, <1>3

(* A thread of the pool takes a function: it was in the queue once.        *)
LEMMA TakeStep ==
  ASSUME Suggest!Inv, UNCHANGED p_workers, Suggest!TakeFunction
  PROVE  Suggest!Inv'
  <1> USE DEF Suggest!Inv
  <1>1. /\ p_job \in [Requests -> [JJ -> JobRec]] /\ p_queue \in Seq(Requests \X JJ) /\ p_queue # <<>>
        /\ p_workers \in Nat /\ p_workers \in PoolSizes /\ p_req \in [Requests -> ReqRec] /\ UNCHANGED p_req
        /\ Cardinality(Suggest!Busy) < p_workers /\ p_queue' = Tail(p_queue)
    BY TypesFit, SuggestFinite DEF Suggest!TakeFunction
  <1>2. PICK r \in Requests, j \in JJ : p_queue[1] = <<r, j>>
    BY <1>1
  <1>3. p_job[r][j].at = "queued"
    <2>1. 1 \in DOMAIN p_queue
      BY <1>1
    <2> QED
      BY <1>2, <2>1 DEF Suggest!QueueInv
  <1>4. OnlyJob(r, j) /\ p_job'[r][j].at = "running" /\ p_job'[r][j].success = FALSE
    <2>1. Head(p_queue) = <<r, j>>
      BY <1>1, <1>2
    <2>2. p_job[r][j].success = FALSE
      BY <1>3, ResponseFacts
    <2> DEFINE new == [at |-> "running", completions |-> p_job[r][j].completions, success |-> p_job[r][j].success]
    <2>3. new \in JobRec /\ new.at = "running" /\ new.success = FALSE
      BY <2>2, ResponseFacts DEF JobRec, Suggest!Running
    <2>4. p_job' = [p_job EXCEPT ![r][j] = new]
      <3>1. Head(p_queue)[1] = r /\ Head(p_queue)[2] = j
        BY <2>1
      <3> QED
        BY <3>1 DEF Suggest!TakeFunction, Suggest!Becomes
    <2> HIDE DEF new
    <2> QED
      BY <1>1, <2>3, <2>4, BecomesFacts
  <1>5. /\ Suggest!CountInv' /\ Suggest!StageInv' /\ Suggest!DoneInv' /\ Suggest!SuccessInv'
        /\ j # "bow" => Suggest!WordsInv'
    BY <1>1, <1>3, <1>4, OneJob
  <1>6. j = "bow" => Suggest!WordsInv'
    BY <1>1, <1>3, <1>4, JobsFinite DEF Suggest!WordsInv, OnlyJob
  <1>7. Cardinality(Suggest!Busy') <= p_workers'
    <2>1. Suggest!Busy' \subseteq Suggest!Busy \cup {<<r, j>>}
      BY <1>4 DEF Suggest!Busy, OnlyJob, JJ
    <2>2. /\ Cardinality(Suggest!Busy') <= Cardinality(Suggest!Busy) + 1
          /\ Cardinality(Suggest!Busy) \in Nat /\ Cardinality(Suggest!Busy') \in Nat
      BY <2>1, BusyFacts
    <2> QED
      BY <1>1, <2>2
  <1>8. /\ p_queue' \in Seq(Requests \X JJ) /\ \A i \in DOMAIN p_queue' : i + 1 \in DOMAIN p_queue /\ i \in Nat /\ i >= 1 /\ p_queue'[i] = p_queue[i + 1]
        /\ \A i \in DOMAIN p_queue : p_queue[i] \in Requests \X JJ
    BY <1>1
  <1>9. Suggest!TypeOK'
    BY <1>1, <1>4, <1>5, <1>7, <1>8, TypesFitNext DEF OnlyJob, TypesNow
  <1>10. Suggest!QueueInv'
    <2>1. ASSUME NEW i \in DOMAIN p_queue' PROVE p_job'[p_queue'[i][1]][p_queue'[i][2]].at = "queued"
      <3>1. p_queue'[i] # <<r, j>> /\ p_queue'[i] \in Requests \X JJ
        <4>1. 1 \in DOMAIN p_queue /\ i + 1 \in DOMAIN p_queue /\ i + 1 # 1 /\ p_queue'[i] = p_queue[i + 1]
          BY <1>1, <1>8
        <4> QED
          BY <1>2, <1>8, <4>1 DEF Suggest!QueueInv
      <3>2. p_job[p_queue'[i][1]][p_queue'[i][2]].at = "queued"
        BY <1>8 DEF Suggest!QueueInv
      <3> QED
        BY <1>4, <3>1, <3>2 DEF OnlyJob
    <2>2. \A i, k \in DOMAIN p_queue' : p_queue'[i] = p_queue'[k] => i = k
      BY <1>8 DEF Suggest!QueueInv
    <2> QED
      BY <2>1, <2>2 DEF Suggest!QueueInv
  <1> QED
    BY <1>5, <1>6, <1>9, <1>10

\* The fields of req but the counters.
SameFields(q) ==
  /\ p_req'[q].at = p_req[q].at /\ p_req'[q].stage = p_req[q].stage /\ p_req'[q].words = p_req[q].words
  /\ p_req'[q].merged = p_req[q].merged /\ p_req'[q].timed = p_req[q].timed

(* A function that ends has been counted, and is counted no more.          *)
LEMMA PendingEnds ==
  ASSUME Suggest!Inv, NEW r \in Requests, NEW j \in JJ, OnlyJob(r, j), p_job[r][j].at = "notify",
         p_job'[r][j].at = "done", p_req' \in [Requests -> ReqRec], \A q \in Requests \ {r} : p_req'[q] = p_req[q],
         p_req'[r].count = [p_req[r].count EXCEPT ![Suggest!CounterOf(j)] = @ - 1]
  PROVE  Suggest!CountInv'
  <1> USE DEF Suggest!Inv, OnlyJob
  <1> SUFFICES ASSUME NEW q \in Requests, NEW c \in CC
               PROVE  p_req'[q].count[c] = Cardinality(Suggest!Pending(q, c)')
    BY SuggestFinite DEF Suggest!CountInv, CC
  <1>1. p_req[q].count[c] = Cardinality(Suggest!Pending(q, c))
    BY SuggestFinite DEF Suggest!CountInv, CC
  <1>2. p_req[r].count \in [CC -> Int]
    BY TypesFit DEF ReqRec
  <1>3. CASE q # r \/ c # Suggest!CounterOf(j)
    <2>1. Suggest!Pending(q, c)' = Suggest!Pending(q, c)
      BY <1>3 DEF Suggest!Pending, JJ
    <2>2. p_req'[q].count[c] = p_req[q].count[c]
      BY <1>2, <1>3
    <2> QED
      BY <1>1, <2>1, <2>2
  <1>4. CASE q = r /\ c = Suggest!CounterOf(j)
    <2>1. Suggest!Pending(q, c)' = Suggest!Pending(q, c) \ {j} /\ j \in Suggest!Pending(q, c)
      BY <1>4 DEF Suggest!Pending, JJ
    <2>2. IsFiniteSet(Suggest!Pending(q, c))
      <3>1. Suggest!Pending(q, c) \subseteq JJ
        BY DEF Suggest!Pending, JJ
      <3> QED
        BY <3>1, JobsFinite
    <2>3. Cardinality(Suggest!Pending(q, c) \ {j}) = Cardinality(Suggest!Pending(q, c)) - 1
      BY <2>1, <2>2, FS_RemoveElement
    <2>4. p_req'[q].count[c] = p_req[q].count[c] - 1
      BY <1>2, <1>4
    <2> QED
      BY <1>1, <2>1, <2>3, <2>4
  <1> QED
    BY <1>3, <1>4

(* The end of a function.                                                  *)
LEMMA NotifyStep ==
  ASSUME Suggest!Inv, NEW r \in Requests, NEW j \in JJ, UNCHANGED p_workers, Suggest!NotifyCounter(r, j)
  PROVE  Suggest!Inv'
  <1> USE DEF Suggest!Inv
  <1>1. /\ p_req \in [Requests -> ReqRec] /\ p_queue \in Seq(Requests \X JJ) /\ p_workers \in PoolSizes
        /\ p_workers \in Nat /\ Cardinality(Suggest!Busy) <= p_workers /\ p_job[r][j].at = "notify" /\ UNCHANGED p_queue
    BY TypesFit DEF Suggest!NotifyCounter
  <1>2. /\ OnlyJob(r, j) /\ p_job'[r][j].at = "done" /\ p_job'[r][j].success = p_job[r][j].success
        /\ p_job'[r][j].completions = p_job[r][j].completions
    <2> DEFINE new == [at |-> "done", completions |-> p_job[r][j].completions, success |-> p_job[r][j].success]
    <2>1. /\ new \in JobRec /\ new.at = "done" /\ new.success = p_job[r][j].success
          /\ new.completions = p_job[r][j].completions
      BY ResponseFacts DEF JobRec
    <2>2. p_job' = [p_job EXCEPT ![r][j] = new] /\ p_job \in [Requests -> [JJ -> JobRec]]
      BY ResponseFacts DEF Suggest!NotifyCounter, Suggest!Becomes
    <2> HIDE DEF new
    <2> QED
      BY <2>1, <2>2, BecomesFacts
  <1>3. /\ p_req' \in [Requests -> ReqRec] /\ \A q \in Requests : SameFields(q)
        /\ \A q \in Requests \ {r} : p_req'[q] = p_req[q]
        /\ p_req'[r].count = [p_req[r].count EXCEPT ![Suggest!CounterOf(j)] = @ - 1]
    <2> DEFINE cnt == [p_req[r].count EXCEPT ![Suggest!CounterOf(j)] = @ - 1]
    <2>1. cnt \in [CC -> Int]
      BY <1>1, CounterFacts DEF ReqRec
    <2>2. p_req' = [p_req EXCEPT ![r] = [p_req[r] EXCEPT !.count = cnt]]
      BY DEF Suggest!NotifyCounter
    <2>3. [p_req[r] EXCEPT !.count = cnt] \in ReqRec /\ p_req[r] \in ReqRec
      BY <1>1, <2>1 DEF ReqRec
    <2> HIDE DEF cnt
    <2>4. p_req'[r] = [p_req[r] EXCEPT !.count = cnt] /\ \A q \in Requests \ {r} : p_req'[q] = p_req[q]
      BY <1>1, <2>2
    <2>5. SameFields(r) /\ p_req'[r].count = cnt
      BY <2>3, <2>4 DEF SameFields, ReqRec
    <2> QED
      BY <1>1, <2>2, <2>3, <2>4, <2>5 DEF SameFields, cnt
  <1>4. Suggest!CountInv'
    BY <1>1, <1>2, <1>3, PendingEnds
  <1>5. Suggest!SuccessInv'
    BY <1>2 DEF Suggest!SuccessInv, OnlyJob, JJ
  <1>6. \A s \in Suggest!Stages : Members(s) \subseteq JJ /\ Suggest!Required(s) \subseteq Members(s)
    BY GroupFacts DEF Suggest!Stages, JJ, Suggest!Jobs, Suggest!Required, Members
  <1>7. \A q \in Requests, i \in JJ : /\ p_job'[q][i].at = "none" <=> p_job[q][i].at = "none"
                                      /\ p_job[q][i].at = "done" => p_job'[q][i].at = "done"
    BY <1>1, <1>2 DEF OnlyJob
  <1>8. Suggest!StageInv'
    BY <1>3, <1>6, <1>7 DEF Suggest!StageInv, Members, SameFields
  <1>9. Suggest!DoneInv'
    BY <1>3, <1>6, <1>7 DEF Suggest!DoneInv, Members, SameFields
  <1>10. Suggest!WordsInv'
    <2>1. ASSUME NEW q \in Requests
          PROVE  /\ p_job'[q]["bow"].at \in {"none", "queued", "running"} => p_job[q]["bow"].at \in {"none", "queued", "running"}
                 /\ p_job'[q]["bow"].at \in {"found", "notify", "done"} => p_job[q]["bow"].at \in {"found", "notify", "done"}
      BY <1>1, <1>2, JobsFinite DEF OnlyJob
    <2>2. \A q \in Requests, w \in Words : p_job[q][w].at \in {"none", "done"} => p_job'[q][w].at = p_job[q][w].at
      BY <1>1, <1>2, JobsFinite DEF OnlyJob
    <2> QED
      BY <2>1, <2>2 DEF Suggest!WordsInv
  <1>11. Suggest!QueueInv'
    <2>1. \A i \in DOMAIN p_queue : p_queue[i] \in Requests \X JJ
      BY <1>1
    <2>2. ASSUME NEW i \in DOMAIN p_queue PROVE p_job'[p_queue[i][1]][p_queue[i][2]].at = "queued"
      BY <1>1, <1>2, <2>1 DEF Suggest!QueueInv, OnlyJob
    <2> QED
      BY <1>1, <2>2 DEF Suggest!QueueInv
  <1>12. Suggest!TypeOK'
    <2>1. Suggest!Busy' \subseteq Suggest!Busy
      BY <1>1, <1>2 DEF Suggest!Busy, OnlyJob, JJ, Suggest!Running
    <2>2. Cardinality(Suggest!Busy') <= p_workers'
      BY <1>1, <2>1, BusyFacts
    <2> QED
      BY <1>1, <1>2, <1>3, <1>4, <2>2, TypesFitNext DEF OnlyJob, TypesNow
  <1> QED
    BY <1>4, <1>5, <1>8, <1>9, <1>10, <1>11, <1>12

(* Functions that were not in the queue are added at its end, each once.   *)
LEMMA QueueGrows ==
  ASSUME Suggest!Inv, NEW r \in Requests, NEW js \in Seq(JJ), \A i, k \in DOMAIN js : js[i] = js[k] => i = k,
         \A i \in DOMAIN js : p_job[r][js[i]].at = "none", p_queue' = Suggest!Added(r, js),
         \A q \in Requests, i \in JJ : p_job[q][i].at = "queued" => p_job'[q][i].at = "queued",
         \A i \in DOMAIN js : p_job'[r][js[i]].at = "queued"
  PROVE  p_queue' \in Seq(Requests \X JJ) /\ Suggest!QueueInv'
  <1> USE DEF Suggest!Inv
  <1> DEFINE more == [i \in 1 .. Len(js) |-> <<r, js[i]>>]
             n == Len(p_queue)
  <1>1. p_queue \in Seq(Requests \X JJ) /\ n \in Nat /\ Len(js) \in Nat /\ DOMAIN js = 1 .. Len(js)
        /\ DOMAIN p_queue = 1 .. n
    BY TypesFit
  <1>2. \A i \in 1 .. Len(js) : <<r, js[i]>> \in Requests \X JJ
    OBVIOUS
  <1>3. more \in Seq(Requests \X JJ) /\ Len(more) = Len(js)
    <2>1. more \in [1 .. Len(js) -> Requests \X JJ]
      BY <1>2
    <2> HIDE DEF more
    <2> QED
      BY <1>1, <2>1
  <1>4. p_queue' = p_queue \o more
    BY <1>1 DEF Suggest!Added
  <1>5. \A i \in 1 .. Len(js) : more[i] = <<r, js[i]>>
    OBVIOUS
  <1> HIDE DEF more
  <1>6. /\ p_queue' \in Seq(Requests \X JJ) /\ Len(p_queue') = n + Len(js) /\ DOMAIN p_queue' = 1 .. n + Len(js)
        /\ \A i \in 1 .. n + Len(js) : p_queue'[i] = IF i <= n THEN p_queue[i] ELSE more[i - n]
    <2>1. p_queue' \in Seq(Requests \X JJ)
      BY <1>1, <1>3, <1>4
    <2>2. Len(p_queue') = n + Len(js)
      <3> DEFINE A == Requests \X JJ
      <3>1. \A s, t \in Seq(A) : Len(s \o t) = Len(s) + Len(t)
        OBVIOUS
      <3>2. p_queue \in Seq(A) /\ more \in Seq(A)
        BY <1>1, <1>3
      <3> HIDE DEF A
      <3>3. Len(p_queue \o more) = Len(p_queue) + Len(more)
        BY <3>1, <3>2
      <3> QED
        BY <1>3, <1>4, <3>3
    <2>3. DOMAIN p_queue' = 1 .. n + Len(js)
      BY <2>1, <2>2
    <2>4. ASSUME NEW i \in 1 .. n + Len(js) PROVE p_queue'[i] = IF i <= n THEN p_queue[i] ELSE more[i - n]
      BY <1>1, <1>3, <1>4
    <2> QED
      BY <2>1, <2>2, <2>3, <2>4
  <1> HIDE DEF n
  <1>7. ASSUME NEW i \in 1 .. n + Len(js), i <= n
        PROVE  /\ i \in DOMAIN p_queue /\ p_queue'[i] = p_queue[i] /\ p_queue[i] \in Requests \X JJ
               /\ p_job[p_queue[i][1]][p_queue[i][2]].at = "queued"
    <2>1. i \in DOMAIN p_queue /\ p_queue'[i] = p_queue[i]
      BY <1>1, <1>6, <1>7
    <2>2. p_queue[i] \in Requests \X JJ
      BY <1>1, <2>1
    <2> QED
      BY <2>1, <2>2 DEF Suggest!QueueInv
  <1>8. ASSUME NEW i \in 1 .. n + Len(js), ~(i <= n) PROVE i - n \in DOMAIN js /\ p_queue'[i] = <<r, js[i - n]>>
    <2>1. i - n \in 1 .. Len(js) /\ p_queue'[i] = more[i - n]
      BY <1>1, <1>6, <1>8
    <2> QED
      BY <1>1, <1>5, <2>1
  <1>9. ASSUME NEW i \in 1 .. n + Len(js) PROVE p_job'[p_queue'[i][1]][p_queue'[i][2]].at = "queued"
    <2>1. CASE i <= n
      BY <1>7, <2>1
    <2>2. CASE ~(i <= n)
      BY <1>8, <2>2
    <2> QED
      BY <2>1, <2>2
  <1>10. ASSUME NEW i \in 1 .. n + Len(js), NEW k \in 1 .. n + Len(js), p_queue'[i] = p_queue'[k] PROVE i = k
    <2>1. CASE i <= n /\ k <= n
      BY <1>7, <1>10, <2>1 DEF Suggest!QueueInv
    <2>2. CASE ~(i <= n) /\ ~(k <= n)
      <3>1. js[i - n] = js[k - n] /\ i - n \in DOMAIN js /\ k - n \in DOMAIN js
        BY <1>8, <1>10, <2>2
      <3>2. i - n = k - n
        BY <3>1
      <3> QED
        BY <1>1, <3>2
    <2>3. CASE i <= n /\ ~(k <= n)
      <3>1. p_queue[i] = <<r, js[k - n]>> /\ k - n \in DOMAIN js /\ p_job[p_queue[i][1]][p_queue[i][2]].at = "queued"
        BY <1>7, <1>8, <1>10, <2>3
      <3>2. p_job[r][js[k - n]].at = "queued" /\ p_job[r][js[k - n]].at = "none"
        BY <3>1
      <3> QED
        BY <3>2
    <2>4. CASE ~(i <= n) /\ k <= n
      <3>1. p_queue[k] = <<r, js[i - n]>> /\ i - n \in DOMAIN js /\ p_job[p_queue[k][1]][p_queue[k][2]].at = "queued"
        BY <1>7, <1>8, <1>10, <2>4
      <3>2. p_job[r][js[i - n]].at = "queued" /\ p_job[r][js[i - n]].at = "none"
        BY <3>1
      <3> QED
        BY <3>2
    <2> QED
      BY <2>1, <2>2, <2>3, <2>4
  <1> QED
    BY <1>6, <1>9, <1>10 DEF Suggest!QueueInv

(* SetToSeq() lists each element of a finite set once.                     *)
LEMMA SetListed ==
  ASSUME NEW S, IsFiniteSet(S)
  PROVE  LET js == Suggest!SetToSeq(S) IN
           js \in Seq(S) /\ Suggest!Range(js) = S /\ \A i, k \in DOMAIN js : js[i] = js[k] => i = k
  <1> DEFINE n == Cardinality(S)
             js == Suggest!SetToSeq(S)
  <1>1. n \in Nat /\ ExistsBijection(1 .. n, S) /\ Suggest!Cardinality(S) = n
    BY FS_CardinalityType, SuggestFinite
  <1>2. PICK f : f \in [1 .. n -> S] /\ \A a, b \in 1 .. n : f[a] = f[b] => a = b
    BY <1>1 DEF ExistsBijection, Bijection, Injection, IsInjective
  <1>3. js \in [1 .. n -> S] /\ \A a, b \in 1 .. n : js[a] = js[b] => a = b
    <2>1. Suggest!IsInjective(f)
      BY <1>2 DEF Suggest!IsInjective
    <2>2. js \in [1 .. n -> S] /\ Suggest!IsInjective(js)
      BY <1>1, <1>2, <2>1 DEF Suggest!SetToSeq
    <2> QED
      BY <2>2 DEF Suggest!IsInjective
  <1> HIDE DEF js
  <1>4. Suggest!Range(js) \in SUBSET S /\ js \in [1 .. n -> Suggest!Range(js)]
        /\ \A t \in Suggest!Range(js) : \E i \in 1 .. n : js[i] = t
    BY <1>3 DEF Suggest!Range
  <1>5. ExistsBijection(1 .. n, Suggest!Range(js))
    BY <1>3, <1>4 DEF ExistsBijection, Bijection, Injection, Surjection, IsInjective
  <1>6. Cardinality(Suggest!Range(js)) = n
    BY <1>1, <1>5, FS_CountingElements
  <1>7. Suggest!Range(js) = S
    BY <1>4, <1>6, FS_Subset
  <1>8. js \in Seq(S)
    BY <1>1, <1>3
  <1> QED
    BY <1>3, <1>7, <1>8 DEF js

(* The groups are disjoint, and no word is in one.                         *)
LEMMA GroupsDisjoint ==
  /\ \A s, t \in Suggest!Stages : \A j \in Members(s) \cap Members(t) : s = t
  /\ \A s \in Suggest!Stages : /\ Members(s) \subseteq JJ /\ Members(s) \cap Words = {}
                               /\ "bow" \in Members(s) <=> s = "primary"
                               /\ Suggest!Required(s) = Members(s) \ {"bow"}
                               /\ s \notin Suggest!Before[s]
  <1>1. Words \cap Suggest!Grouped = {} /\ Suggest!Grouped \subseteq JJ
    BY SuggestAssumption DEF Suggest!SuggestPoolAssumption, JJ, Suggest!Jobs
  <1>2. \A s \in Suggest!Stages : Suggest!Required(s) = Members(s) \ {"bow"}
    BY DEF Suggest!Required, Members, Suggest!Optional
  <1>3. \A s \in Suggest!Stages : s \notin Suggest!Before[s]
    BY DEF Suggest!Before, Suggest!Stages
  <1>4. \A s, t \in Suggest!Stages : \A j \in Members(s) \cap Members(t) : s = t
    BY GroupFacts DEF Suggest!Stages
  <1>5. \A s \in Suggest!Stages : Members(s) \subseteq Suggest!Grouped /\ ("bow" \in Members(s) <=> s = "primary")
    BY GroupFacts DEF Suggest!Stages
  <1> QED
    BY <1>1, <1>2, <1>3, <1>4, <1>5

(* What Queued() says.                                                     *)
LEMMA QueuedFacts ==
  ASSUME p_job \in [Requests -> [JJ -> JobRec]], NEW r \in Requests, NEW js \in Seq(JJ)
  PROVE  /\ Suggest!Queued(r, js) \in [JJ -> JobRec]
         /\ \A j \in JJ \ Suggest!Range(js) : Suggest!Queued(r, js)[j] = p_job[r][j]
         /\ \A j \in JJ \cap Suggest!Range(js) : /\ Suggest!Queued(r, js)[j].at = "queued"
                                    /\ Suggest!Queued(r, js)[j].success = p_job[r][j].success
  <1>1. ASSUME NEW j \in JJ
        PROVE  LET new == [p_job[r][j] EXCEPT !.at = "queued"]
               IN  new \in JobRec /\ new.at = "queued" /\ new.success = p_job[r][j].success
    <2>1. p_job[r][j] \in JobRec
      OBVIOUS
    <2>2. \A x \in JobRec : LET new == [x EXCEPT !.at = "queued"]
                            IN  new \in JobRec /\ new.at = "queued" /\ new.success = x.success
      BY DEF JobRec
    <2> QED
      BY <2>1, <2>2
  <1>2. \A j \in JJ : Suggest!Queued(r, js)[j] = IF j \in Suggest!Range(js) THEN [p_job[r][j] EXCEPT !.at = "queued"]
                                                 ELSE p_job[r][j]
    BY DEF Suggest!Queued, JJ
  <1>3. Suggest!Queued(r, js) \in [JJ -> JobRec]
    <2>1. \A j \in JJ : Suggest!Queued(r, js)[j] \in JobRec
      BY ZenonT(60), <1>1, <1>2
    <2>2. Suggest!Queued(r, js) = [j \in JJ |-> Suggest!Queued(r, js)[j]]
      BY DEF Suggest!Queued, JJ
    <2> QED
      BY <2>1, <2>2
  <1> QED
    BY <1>1, <1>2, <1>3

(* The counters are exact if they are in the request that changes.         *)
LEMMA CountIn ==
  ASSUME Suggest!Inv, NEW r \in Requests, p_job' \in [Requests -> [JJ -> JobRec]],
         \A q \in Requests \ {r} : p_job'[q] = p_job[q] /\ p_req'[q] = p_req[q],
         \A c \in CC : p_req'[r].count[c] = Cardinality(Suggest!Pending(r, c)')
  PROVE  Suggest!CountInv'
  <1> SUFFICES ASSUME NEW q \in Requests, NEW c \in CC
               PROVE  p_req'[q].count[c] = Cardinality(Suggest!Pending(q, c)')
    BY SuggestFinite DEF Suggest!CountInv, CC
  <1>1. CASE q # r
    <2>1. Suggest!Pending(q, c)' = Suggest!Pending(q, c)
      BY <1>1 DEF Suggest!Pending
    <2>2. p_req[q].count[c] = Cardinality(Suggest!Pending(q, c))
      BY SuggestFinite DEF Suggest!Inv, Suggest!CountInv, CC
    <2> QED
      BY <1>1, <2>1, <2>2
  <1> QED
    BY <1>1

(* The bag of words adds a function for each of its words.                 *)
LEMMA SplitStep ==
  ASSUME Suggest!Inv, NEW r \in Requests, UNCHANGED p_workers, Suggest!SplitQuery(r)
  PROVE  Suggest!Inv'
  <1> USE DEF Suggest!Inv
  <1> DEFINE W == p_req[r].words
             js == Suggest!SetToSeq(W)
  <1>1. /\ p_req \in [Requests -> ReqRec] /\ p_job \in [Requests -> [JJ -> JobRec]]
        /\ p_queue \in Seq(Requests \X JJ) /\ p_workers \in PoolSizes /\ p_workers \in Nat
        /\ Cardinality(Suggest!Busy) <= p_workers
    BY TypesFit
  <1>2. W \subseteq Words /\ IsFiniteSet(W) /\ W \subseteq JJ /\ "bow" \notin W /\ "bow" \in JJ
    <2>1. W \subseteq Words
      BY <1>1 DEF ReqRec
    <2> QED
      BY <2>1, JobsFinite
  <1>3. js \in Seq(JJ) /\ Suggest!Range(js) = W /\ \A i, k \in DOMAIN js : js[i] = js[k] => i = k
    <2>1. js \in Seq(W) /\ Suggest!Range(js) = W /\ \A i, k \in DOMAIN js : js[i] = js[k] => i = k
      BY <1>2, SetListed
    <2> HIDE DEF js
    <2> QED
      BY <1>2, <2>1
  <1>4. /\ p_job[r]["bow"].at = "running" /\ p_queue' = Suggest!Added(r, js)
        /\ p_job' = [p_job EXCEPT ![r] = [Suggest!Queued(r, js) EXCEPT !["bow"].at = "waiting"]]
        /\ p_req' = [p_req EXCEPT ![r].count["words"] = Cardinality(W)]
    BY SuggestFinite DEF Suggest!SplitQuery
  <1> HIDE DEF js
  <1>5. /\ p_job' \in [Requests -> [JJ -> JobRec]] /\ \A q \in Requests \ {r} : p_job'[q] = p_job[q]
        /\ \A j \in JJ \ (W \cup {"bow"}) : p_job'[r][j] = p_job[r][j]
        /\ \A j \in W : p_job'[r][j].at = "queued" /\ p_job'[r][j].success = p_job[r][j].success
        /\ p_job'[r]["bow"].at = "waiting" /\ p_job'[r]["bow"].success = p_job[r]["bow"].success
    <2> DEFINE Q == Suggest!Queued(r, js)
               b == [Q["bow"] EXCEPT !.at = "waiting"]
    <2>1. /\ Q \in [JJ -> JobRec] /\ \A j \in JJ \ W : Q[j] = p_job[r][j]
          /\ \A j \in W : Q[j].at = "queued" /\ Q[j].success = p_job[r][j].success
      BY <1>1, <1>2, <1>3, QueuedFacts
    <2>2. p_job' = [p_job EXCEPT ![r] = [Q EXCEPT !["bow"] = b]]
      BY <1>4
    <2>3. Q["bow"] = p_job[r]["bow"]
      BY <1>2, <2>1
    <2> HIDE DEF Q
    <2>4. b \in JobRec /\ b.at = "waiting" /\ b.success = p_job[r]["bow"].success
      BY <1>2, <2>1, <2>3 DEF JobRec, Suggest!Running
    <2> HIDE DEF b
    <2>5. [Q EXCEPT !["bow"] = b] \in [JJ -> JobRec]
      BY <2>1, <2>4
    <2>6. p_job'[r] = [Q EXCEPT !["bow"] = b] /\ \A q \in Requests \ {r} : p_job'[q] = p_job[q]
      BY <1>1, <2>2
    <2>7. p_job' \in [Requests -> [JJ -> JobRec]]
      BY <1>1, <2>2, <2>5
    <2>8. \A j \in JJ : p_job'[r][j] = IF j = "bow" THEN b ELSE Q[j]
      BY <2>1, <2>6
    <2> QED
      BY <1>2, <2>1, <2>4, <2>6, <2>7, <2>8
  <1>6. /\ p_req' \in [Requests -> ReqRec] /\ \A q \in Requests \ {r} : p_req'[q] = p_req[q]
        /\ \A q \in Requests : SameFields(q) /\ p_req'[r].count = [p_req[r].count EXCEPT !["words"] = Cardinality(W)]
    <2> DEFINE cnt == [p_req[r].count EXCEPT !["words"] = Cardinality(W)]
    <2>1. cnt \in [CC -> Int]
      <3>1. Cardinality(W) \in Int
        BY <1>2, FS_CardinalityType
      <3> QED
        BY <1>1, <3>1 DEF ReqRec
    <2>2. p_req' = [p_req EXCEPT ![r] = [p_req[r] EXCEPT !.count = cnt]]
      BY <1>4
    <2>3. [p_req[r] EXCEPT !.count = cnt] \in ReqRec /\ p_req[r] \in ReqRec
      BY ZenonT(60), <1>1, <2>1 DEF ReqRec
    <2> HIDE DEF cnt
    <2>4. p_req'[r] = [p_req[r] EXCEPT !.count = cnt] /\ \A q \in Requests \ {r} : p_req'[q] = p_req[q]
      BY <1>1, <2>2
    <2>5. SameFields(r) /\ p_req'[r].count = cnt
      BY <2>3, <2>4 DEF SameFields, ReqRec
    <2> QED
      BY <1>1, <2>2, <2>3, <2>4, <2>5 DEF SameFields, cnt
  <1> HIDE DEF W
  <1>7. \A w \in Words : p_job[r][w].at = "none"
    BY <1>4 DEF Suggest!WordsInv
  <1>8. Suggest!CountInv'
    <2>1. ASSUME NEW c \in CC PROVE p_req'[r].count[c] = Cardinality(Suggest!Pending(r, c)')
      <3>1. p_req[r].count[c] = Cardinality(Suggest!Pending(r, c)) /\ p_req[r].count \in [CC -> Int]
        BY <1>1, SuggestFinite DEF Suggest!CountInv, CC, ReqRec
      <3>2. CASE c = "words"
        <4>1. \A j \in JJ : Suggest!CounterOf(j) = "words" <=> j \in Words
          BY CounterFacts
        <4>2. Suggest!Pending(r, c)' = {j \in JJ : j \in Words /\ p_job'[r][j].at \notin {"none", "done"}}
          BY <3>2, <4>1 DEF Suggest!Pending, JJ
        <4>3. ASSUME NEW j \in Words PROVE p_job'[r][j].at \notin {"none", "done"} <=> j \in W
          BY <1>2, <1>5, <1>7, JobsFinite
        <4>4. Suggest!Pending(r, c)' = W
          BY <1>2, <4>2, <4>3, JobsFinite
        <4> QED
          BY <1>6, <3>1, <3>2, <4>4
      <3>3. CASE c # "words"
        <4>1. ASSUME NEW j \in JJ, Suggest!CounterOf(j) = c
              PROVE  p_job'[r][j].at \notin {"none", "done"} <=> p_job[r][j].at \notin {"none", "done"}
          <5>1. j \notin W
            BY <1>2, <3>3, <4>1, CounterFacts
          <5> QED
            BY <1>4, <1>5, <5>1
        <4>2. Suggest!Pending(r, c)' = Suggest!Pending(r, c)
          BY <4>1 DEF Suggest!Pending, JJ
        <4> QED
          BY <1>6, <3>1, <3>3, <4>2
      <3> QED
        BY <3>2, <3>3
    <2> QED
      BY <1>5, <1>6, <2>1, CountIn
  <1>9. Suggest!SuccessInv'
    <2>1. ASSUME NEW q \in Requests, NEW j \in JJ, p_job'[q][j].success
          PROVE  p_job'[q][j].at \in {"notify", "done"} /\ p_job'[q][j].completions # "some"
      <3>1. \A k \in W \cup {"bow"} : p_job[r][k].at \notin {"notify", "done"} /\ p_job[r][k].success = FALSE
        BY <1>2, <1>4, <1>7, ResponseFacts
      <3>2. p_job'[q][j] = p_job[q][j]
        BY <1>2, <1>5, <2>1, <3>1
      <3> QED
        BY <2>1, <3>2 DEF Suggest!SuccessInv, JJ
    <2> QED
      BY <2>1 DEF Suggest!SuccessInv, JJ
  <1>10. \A q \in Requests, s \in Suggest!Stages : \A j \in Members(s) :
            /\ p_job'[q][j].at = "none" <=> p_job[q][j].at = "none"
            /\ p_job[q][j].at = "done" => p_job'[q][j].at = "done"
    BY <1>2, <1>4, <1>5, GroupsDisjoint
  <1>11. Suggest!StageInv'
    BY <1>6, <1>10 DEF Suggest!StageInv, Members, SameFields
  <1>12. Suggest!DoneInv'
    <2>1. \A s \in Suggest!Stages : Suggest!Required(s) \subseteq Members(s)
      BY GroupsDisjoint
    <2> QED
      BY <1>6, <1>10, <2>1 DEF Suggest!DoneInv, SameFields
  <1>13. Suggest!WordsInv'
    <2>1. ASSUME NEW q \in Requests \ {r} PROVE p_job'[q] = p_job[q]
      BY <1>5
    <2> QED
      BY <1>5, <2>1 DEF Suggest!WordsInv
  <1>14. p_queue' \in Seq(Requests \X JJ) /\ Suggest!QueueInv'
    <2>1. \A i \in DOMAIN js : js[i] \in W
      BY <1>3 DEF Suggest!Range
    <2>2. \A i \in DOMAIN js : p_job[r][js[i]].at = "none" /\ p_job'[r][js[i]].at = "queued"
      BY <1>2, <1>5, <1>7, <2>1
    <2>3. ASSUME NEW q \in Requests, NEW i \in JJ, p_job[q][i].at = "queued" PROVE p_job'[q][i].at = "queued"
      BY <1>4, <1>5, <2>3
    <2> QED
      BY <1>3, <1>4, <2>2, <2>3, QueueGrows
  <1>15. Suggest!TypeOK'
    <2>1. Suggest!Busy' \subseteq Suggest!Busy
      <3>1. ASSUME NEW q \in Requests, NEW j \in JJ, p_job'[q][j].at \in Suggest!Running PROVE p_job[q][j].at \in Suggest!Running
        BY <1>4, <1>5, <3>1 DEF Suggest!Running
      <3> QED
        BY <3>1 DEF Suggest!Busy, JJ
    <2>2. Cardinality(Suggest!Busy') <= p_workers'
      BY <1>1, <2>1, BusyFacts
    <2> QED
      BY <1>1, <1>5, <1>6, <1>8, <1>14, <2>2, TypesFitNext DEF TypesNow
  <1> QED
    BY <1>8, <1>9, <1>11, <1>12, <1>13, <1>14, <1>15

(* A request starts the functions of its group, which none did before.     *)
LEMMA RunGroupStep ==
  ASSUME Suggest!Inv, NEW r \in Requests, UNCHANGED p_workers, Suggest!RunGroup(r)
  PROVE  Suggest!Inv'
  <1> USE DEF Suggest!Inv
  <1> DEFINE s == p_req[r].stage
             js == Suggest!Group[s]
  <1>1. /\ p_req \in [Requests -> ReqRec] /\ p_job \in [Requests -> [JJ -> JobRec]]
        /\ p_queue \in Seq(Requests \X JJ) /\ p_workers \in PoolSizes /\ p_workers \in Nat
        /\ Cardinality(Suggest!Busy) <= p_workers
    BY TypesFit
  <1>2. s \in Suggest!Stages /\ p_req[r].at = "group" /\ p_req[r] \in ReqRec /\ p_req[r].count \in [CC -> Int]
    BY <1>1 DEF ReqRec, Suggest!RunGroup
  <1>3. js \in Seq(JJ) /\ Suggest!Range(js) = Members(s) /\ \A i, k \in DOMAIN js : js[i] = js[k] => i = k
    <2>1. js \in {<<"prefix", "bow">>, <<"domain_boost">>, <<"filters", "sorts">>, <<"identity">>}
      BY <1>2 DEF Suggest!Stages, Suggest!Group
    <2>2. {"prefix", "bow", "domain_boost", "filters", "sorts", "identity"} \subseteq JJ
      BY GroupFacts DEF JJ, Suggest!Jobs
    <2>3. Suggest!Range(js) = Members(s)
      BY DEF Members
    <2> HIDE DEF js
    <2>4. js \in Seq(JJ)
      <3>1. /\ <<"prefix", "bow">> \in Seq(JJ) /\ <<"filters", "sorts">> \in Seq(JJ)
            /\ <<"domain_boost">> \in Seq(JJ) /\ <<"identity">> \in Seq(JJ)
        BY <2>2
      <3> QED
        BY <2>1, <3>1
    <2>5. \A i, k \in DOMAIN js : js[i] = js[k] => i = k
      BY <2>1
    <2> QED
      BY <2>3, <2>4, <2>5
  <1>4. /\ p_queue' = Suggest!Added(r, js) /\ p_job' = [p_job EXCEPT ![r] = Suggest!Queued(r, js)]
    BY DEF Suggest!RunGroup
  <1>5. /\ p_req' \in [Requests -> ReqRec] /\ \A q \in Requests \ {r} : p_req'[q] = p_req[q]
        /\ p_req'[r].at = "required" /\ p_req'[r].stage = s /\ p_req'[r].timed = p_req[r].timed
        /\ \A c \in CC : p_req'[r].count[c] = IF c = "optional" /\ s = "primary" THEN Cardinality({"bow"})
                                              ELSE IF c = s THEN Cardinality(Suggest!Required(s)) ELSE p_req[r].count[c]
    <2> DEFINE n == Cardinality(Suggest!Required(s))
               m == IF s = "primary" THEN Cardinality({"bow"}) ELSE p_req[r].count["optional"]
               cnt == [[p_req[r].count EXCEPT ![s] = n] EXCEPT !["optional"] = m]
               new == [[p_req[r] EXCEPT !.at = "required"] EXCEPT !.count = cnt]
    <2>1. n \in Int /\ m \in Int /\ s # "optional" /\ s \in CC /\ "optional" \in CC
      <3>1. Suggest!Required(s) \subseteq JJ /\ {"bow"} \subseteq JJ
        BY <1>2, GroupsDisjoint, JobsFinite
      <3>2. n \in Int /\ Cardinality({"bow"}) \in Int
        BY <3>1, JobsFinite
      <3>3. s # "optional" /\ s \in CC /\ "optional" \in CC
        BY <1>2 DEF CC, Suggest!Counters, Suggest!Stages
      <3> QED
        BY <1>2, <3>2, <3>3
    <2>2. p_req' = [p_req EXCEPT ![r] = new]
      <3>1. Suggest!Cardinality(Suggest!Required(s)) = n /\ Suggest!Cardinality(Suggest!Optional) = Cardinality({"bow"})
        BY SuggestFinite DEF Suggest!Optional
      <3> QED
        BY <1>1, <1>2, <2>1, <3>1 DEF Suggest!RunGroup, ReqRec
    <2> HIDE DEF n, m
    <2>3. cnt \in [CC -> Int] /\ \A c \in CC : cnt[c] = IF c = "optional" THEN m ELSE IF c = s THEN n ELSE p_req[r].count[c]
      BY <1>2, <2>1
    <2> HIDE DEF cnt
    <2>4. new \in ReqRec /\ new.at = "required" /\ new.stage = s /\ new.timed = p_req[r].timed /\ new.count = cnt
      BY <1>2, <2>3 DEF ReqRec
    <2> HIDE DEF new
    <2>5. p_req'[r] = new /\ p_req' \in [Requests -> ReqRec] /\ \A q \in Requests \ {r} : p_req'[q] = p_req[q]
      BY <1>1, <2>2, <2>4
    <2> QED
      BY <2>1, <2>3, <2>4, <2>5 DEF n, m
  <1> HIDE DEF js, s
  <1>6. /\ p_job' \in [Requests -> [JJ -> JobRec]] /\ \A q \in Requests \ {r} : p_job'[q] = p_job[q]
        /\ \A j \in JJ \ Members(s) : p_job'[r][j] = p_job[r][j]
        /\ \A j \in Members(s) : p_job'[r][j].at = "queued" /\ p_job'[r][j].success = p_job[r][j].success
    <2> DEFINE Q == Suggest!Queued(r, js)
    <2>1. /\ Q \in [JJ -> JobRec] /\ \A j \in JJ \ Members(s) : Q[j] = p_job[r][j]
          /\ \A j \in Members(s) : Q[j].at = "queued" /\ Q[j].success = p_job[r][j].success
      BY <1>1, <1>2, <1>3, QueuedFacts, GroupsDisjoint
    <2> HIDE DEF Q
    <2> QED
      BY <1>1, <1>4, <2>1 DEF Q
  <1>7. \A j \in Members(s) : j \in JJ /\ p_job[r][j].at = "none"
    BY <1>2, GroupsDisjoint DEF Suggest!StageInv, Members, s
  <1>8. Suggest!CountInv'
    <2>1. ASSUME NEW c \in CC PROVE p_req'[r].count[c] = Cardinality(Suggest!Pending(r, c)')
      <3>1. p_req[r].count[c] = Cardinality(Suggest!Pending(r, c))
        BY SuggestFinite DEF Suggest!CountInv, CC
      <3>2. CASE c = s
        <4>1. \A j \in JJ : Suggest!CounterOf(j) = s <=> j \in Suggest!Required(s)
          BY <1>2, CounterFacts
        <4>2. Suggest!Pending(r, c)' = {j \in JJ : j \in Suggest!Required(s) /\ p_job'[r][j].at \notin {"none", "done"}}
          BY <3>2, <4>1 DEF Suggest!Pending, JJ
        <4>3. Suggest!Required(s) \subseteq Members(s)
          BY <1>2, GroupsDisjoint
        <4>4. Suggest!Pending(r, c)' = Suggest!Required(s)
          BY <1>6, <1>7, <4>2, <4>3
        <4>5. c # "optional"
          BY <1>2, <3>2 DEF Suggest!Stages
        <4> QED
          BY <1>5, <3>2, <4>4, <4>5
      <3>3. CASE c = "optional" /\ s = "primary"
        <4>1. \A j \in JJ : Suggest!CounterOf(j) = "optional" <=> j = "bow"
          BY CounterFacts
        <4>2. "bow" \in Members(s)
          BY <1>2, <3>3, GroupsDisjoint
        <4>3. p_job'[r]["bow"].at = "queued" /\ "bow" \in JJ
          BY <1>6, <1>7, <4>2
        <4>4. Suggest!Pending(r, c)' = {"bow"}
          BY <3>3, <4>1, <4>3 DEF Suggest!Pending, JJ
        <4> QED
          BY <1>5, <3>3, <4>4
      <3>4. CASE c # s /\ ~(c = "optional" /\ s = "primary")
        <4>1. ASSUME NEW j \in JJ, Suggest!CounterOf(j) = c PROVE p_job'[r][j] = p_job[r][j]
          <5>1. CASE j = "bow"
            <6>1. c = "optional"
              BY <4>1, <5>1, CounterFacts
            <6>2. j \notin Members(s)
              BY <1>2, <3>4, <5>1, <6>1, GroupsDisjoint
            <6> QED
              BY <1>6, <6>2
          <5>2. CASE j # "bow"
            <6>1. j \notin Suggest!Required(s)
              BY <1>2, <3>4, <4>1, CounterFacts
            <6>2. j \notin Members(s)
              BY <1>2, <5>2, <6>1, GroupsDisjoint
            <6> QED
              BY <1>6, <6>2
          <5> QED
            BY <5>1, <5>2
        <4>2. Suggest!Pending(r, c)' = Suggest!Pending(r, c)
          BY <4>1 DEF Suggest!Pending, JJ
        <4> QED
          BY <1>5, <3>1, <3>4, <4>2
      <3> QED
        BY <3>2, <3>3, <3>4
    <2> QED
      BY <1>5, <1>6, <2>1, CountIn
  <1>9. Suggest!SuccessInv'
    <2>1. ASSUME NEW q \in Requests, NEW j \in JJ, p_job'[q][j].success
          PROVE  p_job'[q][j].at \in {"notify", "done"} /\ p_job'[q][j].completions # "some"
      <3>1. \A k \in Members(s) : p_job[r][k].success = FALSE
        BY <1>7, ResponseFacts
      <3>2. p_job'[q][j] = p_job[q][j]
        BY <1>6, <2>1, <3>1
      <3> QED
        BY <2>1, <3>2 DEF Suggest!SuccessInv, JJ
    <2> QED
      BY <2>1 DEF Suggest!SuccessInv, JJ
  <1>10. Suggest!StageInv'
    <2>1. ASSUME NEW t \in Suggest!Stages, NEW j \in Members(t)
          PROVE  p_job'[r][j].at # "none" <=> t \in Suggest!Before[s] \/ t = s
      <3>1. CASE t = s
        BY <1>6, <2>1, <3>1
      <3>2. CASE t # s
        <4>1. p_job'[r][j] = p_job[r][j]
          BY <1>2, <1>6, <2>1, <3>2, GroupsDisjoint
        <4> QED
          BY <2>1, <3>2, <4>1 DEF Suggest!StageInv, Members, s
      <3> QED
        BY <3>1, <3>2
    <2>2. ASSUME NEW q \in Requests, NEW t \in Suggest!Stages, NEW j \in Suggest!Range(Suggest!Group[t])
          PROVE  p_job'[q][j].at # "none" <=> t \in Suggest!Before[p_req'[q].stage] \/ (t = p_req'[q].stage /\ p_req'[q].at # "group")
      <3>1. CASE q = r
        BY <1>5, <2>1, <3>1 DEF Members
      <3>2. CASE q # r
        BY <1>5, <1>6, <3>2 DEF Suggest!StageInv
      <3> QED
        BY <3>1, <3>2
    <2> QED
      BY <2>2 DEF Suggest!StageInv
  <1>11. Suggest!DoneInv'
    <2>1. ASSUME NEW q \in Requests, NEW t \in Suggest!Stages, ~p_req'[q].timed,
                 t \in Suggest!Before[p_req'[q].stage] \/ (t = p_req'[q].stage /\ p_req'[q].at \notin {"group", "required"})
          PROVE  \A j \in Suggest!Required(t) : p_job'[q][j].at = "done"
      <3>1. CASE q = r
        <4>1. t \in Suggest!Before[s] /\ t # s /\ ~p_req[r].timed
          BY <1>2, <1>5, <2>1, <3>1, GroupsDisjoint
        <4>2. \A j \in Suggest!Required(t) : p_job[r][j].at = "done"
          BY <4>1 DEF Suggest!DoneInv, s
        <4>3. \A j \in Suggest!Required(t) : j \in JJ \ Members(s)
          BY <1>2, <4>1, GroupsDisjoint
        <4> QED
          BY <1>6, <3>1, <4>2, <4>3
      <3>2. CASE q # r
        BY <1>5, <1>6, <2>1, <3>2 DEF Suggest!DoneInv
      <3> QED
        BY <3>1, <3>2
    <2> QED
      BY <2>1 DEF Suggest!DoneInv
  <1>12. Suggest!WordsInv'
    <2>1. \A w \in Words : w \notin Members(s) /\ w \in JJ
      BY <1>2, GroupsDisjoint, JobsFinite
    <2>2. \A q \in Requests, w \in Words : p_job'[q][w] = p_job[q][w]
      BY <1>6, <2>1
    <2>3. ASSUME NEW q \in Requests
          PROVE  \/ p_job'[q]["bow"] = p_job[q]["bow"]
                 \/ p_job[q]["bow"].at = "none" /\ p_job'[q]["bow"].at = "queued"
      BY <1>6, <1>7, JobsFinite
    <2> QED
      BY <2>2, <2>3 DEF Suggest!WordsInv
  <1>13. p_queue' \in Seq(Requests \X JJ) /\ Suggest!QueueInv'
    <2>1. \A i \in DOMAIN js : js[i] \in Members(s)
      BY <1>3 DEF Suggest!Range
    <2>2. \A i \in DOMAIN js : p_job[r][js[i]].at = "none" /\ p_job'[r][js[i]].at = "queued"
      BY <1>6, <1>7, <2>1
    <2>3. ASSUME NEW q \in Requests, NEW i \in JJ, p_job[q][i].at = "queued" PROVE p_job'[q][i].at = "queued"
      BY <1>6, <1>7, <2>3
    <2> QED
      BY <1>3, <1>4, <2>2, <2>3, QueueGrows
  <1>14. Suggest!TypeOK'
    <2>1. Suggest!Busy' \subseteq Suggest!Busy
      <3>1. ASSUME NEW q \in Requests, NEW j \in JJ, p_job'[q][j].at \in Suggest!Running PROVE p_job[q][j].at \in Suggest!Running
        BY <1>6, <1>7, <3>1 DEF Suggest!Running
      <3> QED
        BY <3>1 DEF Suggest!Busy, JJ
    <2>2. Cardinality(Suggest!Busy') <= p_workers'
      BY <1>1, <2>1, BusyFacts
    <2> QED
      BY <1>1, <1>5, <1>6, <1>8, <1>13, <2>2, TypesFitNext DEF TypesNow
  <1> QED
    BY <1>8, <1>9, <1>10, <1>11, <1>12, <1>13, <1>14

(* The thread of a request goes on, and no function does.                  *)
LEMMA ThreadGoesOn ==
  ASSUME Suggest!Inv, NEW r \in Requests, UNCHANGED <<p_job, p_queue, p_workers>>, NEW new \in ReqRec,
         p_req' = [p_req EXCEPT ![r] = new], new.count = p_req[r].count,
         \A t \in Suggest!Stages :
           (t \in Suggest!Before[new.stage] \/ (t = new.stage /\ new.at # "group")) <=>
             (t \in Suggest!Before[p_req[r].stage] \/ (t = p_req[r].stage /\ p_req[r].at # "group")),
         ~new.timed => \A t \in Suggest!Stages :
           t \in Suggest!Before[new.stage] \/ (t = new.stage /\ new.at \notin {"group", "required"}) =>
             \A j \in Suggest!Required(t) : p_job[r][j].at = "done"
  PROVE  Suggest!Inv'
  <1> USE DEF Suggest!Inv
  <1>1. /\ p_req \in [Requests -> ReqRec] /\ p_job \in [Requests -> [JJ -> JobRec]]
        /\ p_queue \in Seq(Requests \X JJ) /\ p_workers \in PoolSizes /\ Cardinality(Suggest!Busy) <= p_workers
    BY TypesFit
  <1>2. p_req'[r] = new /\ p_req' \in [Requests -> ReqRec] /\ \A q \in Requests \ {r} : p_req'[q] = p_req[q]
    BY <1>1
  <1>3. Suggest!Busy' = Suggest!Busy /\ \A q, c : Suggest!Pending(q, c)' = Suggest!Pending(q, c)
    BY DEF Suggest!Busy, Suggest!Pending
  <1>4. \A q \in Requests : p_req'[q].count = p_req[q].count
    BY <1>2
  <1>5. Suggest!CountInv'
    BY <1>3, <1>4 DEF Suggest!CountInv
  <1>6. Suggest!StageInv'
    <2>1. ASSUME NEW q \in Requests, NEW t \in Suggest!Stages, NEW j \in Suggest!Range(Suggest!Group[t])
          PROVE  p_job'[q][j].at # "none" <=> t \in Suggest!Before[p_req'[q].stage] \/ (t = p_req'[q].stage /\ p_req'[q].at # "group")
      <3>1. CASE q = r
        BY <1>2, <3>1 DEF Suggest!StageInv
      <3>2. CASE q # r
        BY <1>2, <3>2 DEF Suggest!StageInv
      <3> QED
        BY <3>1, <3>2
    <2> QED
      BY <2>1 DEF Suggest!StageInv
  <1>7. Suggest!DoneInv'
    <2>1. ASSUME NEW q \in Requests, NEW t \in Suggest!Stages, ~p_req'[q].timed,
                 t \in Suggest!Before[p_req'[q].stage] \/ (t = p_req'[q].stage /\ p_req'[q].at \notin {"group", "required"})
          PROVE  \A j \in Suggest!Required(t) : p_job'[q][j].at = "done"
      <3>1. CASE q = r
        BY <1>2, <2>1, <3>1
      <3>2. CASE q # r
        BY <1>2, <2>1, <3>2 DEF Suggest!DoneInv
      <3> QED
        BY <3>1, <3>2
    <2> QED
      BY <2>1 DEF Suggest!DoneInv
  <1>8. Suggest!WordsInv' /\ Suggest!SuccessInv' /\ Suggest!QueueInv'
    BY DEF Suggest!WordsInv, Suggest!SuccessInv, Suggest!QueueInv
  <1>9. Suggest!TypeOK'
    BY <1>1, <1>2, <1>3, <1>5, TypesFitNext DEF TypesNow
  <1> QED
    BY <1>5, <1>6, <1>7, <1>8, <1>9

(* A wait that does not time out ends when the functions of its group      *)
(* have ended.                                                             *)
LEMMA WaitedFor ==
  ASSUME Suggest!Inv, NEW r \in Requests, NEW s \in Suggest!Stages, p_req[r].count[s] = 0,
         \A j \in Suggest!Required(s) : p_job[r][j].at # "none"
  PROVE  \A j \in Suggest!Required(s) : p_job[r][j].at = "done"
  <1>1. s \in CC
    BY DEF CC, Suggest!Counters
  <1>2. Cardinality(Suggest!Pending(r, s)) = 0
    BY <1>1, SuggestFinite DEF Suggest!Inv, Suggest!CountInv, CC
  <1>3. Suggest!Pending(r, s) \subseteq JJ
    BY DEF Suggest!Pending, JJ
  <1>4. Suggest!Pending(r, s) = {}
    BY <1>2, <1>3, JobsFinite, FS_EmptySet
  <1>5. ASSUME NEW j \in Suggest!Required(s) PROVE p_job[r][j].at = "done"
    <2>1. j \in JJ
      BY <1>5, GroupsDisjoint
    <2>2. Suggest!CounterOf(j) = s
      BY <1>5, <2>1, CounterFacts
    <2> QED
      BY <1>4, <1>5, <2>1, <2>2 DEF Suggest!Pending, JJ
  <1> QED
    BY <1>5

(* The waits of a request.                                                 *)
LEMMA WaitSteps ==
  ASSUME Suggest!Inv, NEW r \in Requests, UNCHANGED p_workers,
         Suggest!WaitRequired(r) \/ Suggest!WaitOptional(r)
  PROVE  Suggest!Inv'
  <1> USE DEF Suggest!Inv
  <1>1. p_req \in [Requests -> ReqRec] /\ p_req[r] \in ReqRec
    BY TypesFit
  <1>2. p_req[r].stage \in Suggest!Stages /\ p_req[r].merged \subseteq JJ /\ p_req[r].timed \in BOOLEAN
    BY <1>1 DEF ReqRec
  <1>3. \A S : S \subseteq JJ => Suggest!Merge(r, S) \subseteq JJ
    BY DEF Suggest!Merge
  <1>4. CASE Suggest!WaitRequired(r)
    <2>1. PICK ok \in Suggest!WaitWithTimeout(r, p_req[r].stage) :
                 p_req' = [p_req EXCEPT ![r].at = "optional", ![r].timed = @ \/ ~ok,
                             ![r].merged = @ \cup Suggest!Merge(r, Suggest!Required(p_req[r].stage))]
      BY <1>4 DEF Suggest!WaitRequired
    <2> DEFINE timed == p_req[r].timed \/ ~ok
               merged == p_req[r].merged \cup Suggest!Merge(r, Suggest!Required(p_req[r].stage))
               new == [[[p_req[r] EXCEPT !.at = "optional"] EXCEPT !.timed = timed] EXCEPT !.merged = merged]
    <2>2. p_req' = [p_req EXCEPT ![r] = new]
      BY <1>1, <2>1 DEF ReqRec
    <2>3. timed \in BOOLEAN /\ merged \subseteq JJ
      <3>1. Suggest!Required(p_req[r].stage) \subseteq JJ
        BY <1>2, GroupsDisjoint
      <3> QED
        BY <1>2, <1>3, <3>1
    <2>4. ~timed => ~p_req[r].timed /\ p_req[r].count[p_req[r].stage] = 0
      <3>1. ~timed => ok
        OBVIOUS
      <3>2. ok => p_req[r].count[p_req[r].stage] = 0
        BY <2>1 DEF Suggest!WaitWithTimeout
      <3> QED
        BY <3>1, <3>2
    <2> HIDE DEF timed, merged
    <2>5. /\ new \in ReqRec /\ new.at = "optional" /\ new.stage = p_req[r].stage /\ new.timed = timed
          /\ new.count = p_req[r].count
      BY <1>1, <2>3 DEF ReqRec
    <2> HIDE DEF new
    <2>6. p_req[r].at = "required" /\ UNCHANGED <<p_job, p_queue>>
      BY <1>4 DEF Suggest!WaitRequired
    <2>7. \A j \in Members(p_req[r].stage) : p_job[r][j].at # "none"
      BY <1>2, <2>6 DEF Suggest!StageInv, Members
    <2>8. ASSUME ~timed PROVE \A j \in Suggest!Required(p_req[r].stage) : p_job[r][j].at = "done"
      BY <1>2, <2>4, <2>7, <2>8, WaitedFor, GroupsDisjoint
    <2>9. ~new.timed => \A t \in Suggest!Stages :
             t \in Suggest!Before[new.stage] \/ (t = new.stage /\ new.at \notin {"group", "required"}) =>
               \A j \in Suggest!Required(t) : p_job[r][j].at = "done"
      BY <2>4, <2>5, <2>8 DEF Suggest!DoneInv
    <2> QED
      BY <2>2, <2>5, <2>6, <2>9, ThreadGoesOn
  <1>5. CASE Suggest!WaitOptional(r)
    <2> DEFINE optional == IF p_req[r].stage = "primary" THEN Suggest!Optional ELSE {}
               merged == p_req[r].merged \cup Suggest!Merge(r, optional)
               new == [[p_req[r] EXCEPT !.at = "write"] EXCEPT !.merged = merged]
    <2>1. p_req' = [p_req EXCEPT ![r] = new] /\ p_req[r].at = "optional" /\ UNCHANGED <<p_job, p_queue>>
      BY <1>1, <1>5 DEF Suggest!WaitOptional, ReqRec
    <2>2. merged \subseteq JJ
      <3>1. optional \subseteq JJ
        BY JobsFinite DEF Suggest!Optional
      <3> QED
        BY <1>2, <1>3, <3>1
    <2> HIDE DEF merged
    <2>3. /\ new \in ReqRec /\ new.at = "write" /\ new.stage = p_req[r].stage /\ new.timed = p_req[r].timed
          /\ new.count = p_req[r].count
      BY <1>1, <2>2 DEF ReqRec
    <2> HIDE DEF new
    <2>4. ~new.timed => \A t \in Suggest!Stages :
             t \in Suggest!Before[new.stage] \/ (t = new.stage /\ new.at \notin {"group", "required"}) =>
               \A j \in Suggest!Required(t) : p_job[r][j].at = "done"
      BY <2>1, <2>3 DEF Suggest!DoneInv
    <2> QED
      BY <2>1, <2>3, <2>4, ThreadGoesOn
  <1> QED
    BY <1>4, <1>5

(* On to the next group, whose functions have not been added, or the end.  *)
LEMMA NextGroupStep ==
  ASSUME Suggest!Inv, NEW r \in Requests, UNCHANGED p_workers, Suggest!NextGroup(r)
  PROVE  Suggest!Inv'
  <1> USE DEF Suggest!Inv
  <1>1. p_req \in [Requests -> ReqRec] /\ p_req[r] \in ReqRec
    BY TypesFit
  <1>2. p_req[r].at = "write" /\ UNCHANGED <<p_job, p_queue>>
    BY DEF Suggest!NextGroup
  <1>3. \E new \in ReqRec :
          /\ p_req' = [p_req EXCEPT ![r] = new]
          /\ \/ p_req[r].stage = "primary" /\ new = [p_req[r] EXCEPT !.stage = "boost", !.at = "group"]
             \/ p_req[r].stage = "boost" /\ new = [p_req[r] EXCEPT !.stage = "secondary", !.at = "group"]
             \/ p_req[r].stage = "secondary" /\ new = [p_req[r] EXCEPT !.stage = "identity", !.at = "group"]
             \/ new = [p_req[r] EXCEPT !.at = "returned"]
    <2>1. /\ [p_req[r] EXCEPT !.stage = "boost", !.at = "group"] \in ReqRec
          /\ [p_req[r] EXCEPT !.stage = "secondary", !.at = "group"] \in ReqRec
          /\ [p_req[r] EXCEPT !.stage = "identity", !.at = "group"] \in ReqRec
          /\ [p_req[r] EXCEPT !.at = "returned"] \in ReqRec
      BY <1>1 DEF ReqRec, Suggest!Stages
    <2>2. CASE p_req[r].stage = "primary" /\ Suggest!Successful(r)
      BY <1>1, <2>1, <2>2 DEF Suggest!NextGroup
    <2>3. CASE p_req[r].stage = "boost"
      BY <1>1, <2>1, <2>3 DEF Suggest!NextGroup
    <2>4. CASE p_req[r].stage = "secondary" /\ Suggest!Successful(r)
      BY <1>1, <2>1, <2>4 DEF Suggest!NextGroup
    <2>5. CASE /\ ~(p_req[r].stage = "primary" /\ Suggest!Successful(r)) /\ p_req[r].stage # "boost"
               /\ ~(p_req[r].stage = "secondary" /\ Suggest!Successful(r))
      BY <1>1, <2>1, <2>5 DEF Suggest!NextGroup
    <2> QED
      BY <2>2, <2>3, <2>4, <2>5
  <1>4. PICK new \in ReqRec :
          /\ p_req' = [p_req EXCEPT ![r] = new]
          /\ \/ p_req[r].stage = "primary" /\ new = [p_req[r] EXCEPT !.stage = "boost", !.at = "group"]
             \/ p_req[r].stage = "boost" /\ new = [p_req[r] EXCEPT !.stage = "secondary", !.at = "group"]
             \/ p_req[r].stage = "secondary" /\ new = [p_req[r] EXCEPT !.stage = "identity", !.at = "group"]
             \/ new = [p_req[r] EXCEPT !.at = "returned"]
    BY <1>3
  <1>5. /\ new.count = p_req[r].count /\ new.timed = p_req[r].timed
        /\ \/ p_req[r].stage = "primary" /\ new.stage = "boost" /\ new.at = "group"
           \/ p_req[r].stage = "boost" /\ new.stage = "secondary" /\ new.at = "group"
           \/ p_req[r].stage = "secondary" /\ new.stage = "identity" /\ new.at = "group"
           \/ new.stage = p_req[r].stage /\ new.at = "returned"
    BY ZenonT(60), <1>1, <1>4 DEF ReqRec
  <1>6. ASSUME NEW t \in Suggest!Stages
        PROVE  (t \in Suggest!Before[new.stage] \/ (t = new.stage /\ new.at # "group")) <=>
                 (t \in Suggest!Before[p_req[r].stage] \/ t = p_req[r].stage)
    BY <1>5 DEF Suggest!Before
  <1>7. ~new.timed => \A t \in Suggest!Stages :
           t \in Suggest!Before[new.stage] \/ (t = new.stage /\ new.at \notin {"group", "required"}) =>
             \A j \in Suggest!Required(t) : p_job[r][j].at = "done"
    BY <1>2, <1>5, <1>6 DEF Suggest!DoneInv
  <1> QED
    BY <1>2, <1>4, <1>5, <1>6, <1>7, ThreadGoesOn

(* No function has been added when the requests begin.                     *)
LEMMA SuggestBegins == Suggest!Init => Suggest!Inv
  <1> SUFFICES ASSUME Suggest!Init PROVE Suggest!Inv
    OBVIOUS
  <1>1. \A r \in Requests, j \in JJ : p_job[r][j].at = "none" /\ p_job[r][j].success = FALSE
    BY DEF Suggest!Init, JJ
  <1>2. /\ p_job \in [Requests -> [JJ -> JobRec]] /\ p_queue = <<>> /\ p_workers \in PoolSizes /\ p_workers \in Nat
    BY SuggestAssumption DEF Suggest!Init, JJ, JobRec, Suggest!SuggestPoolAssumption
  <1>3. \A r \in Requests : /\ p_req[r].at = "group" /\ p_req[r].stage = "primary"
                            /\ \A c \in CC : p_req[r].count[c] = 0
    BY ZenonT(60) DEF Suggest!Init, CC
  <1>4. p_req \in [Requests -> ReqRec]
    <2>1. [c \in CC |-> 0] \in [CC -> Int]
      OBVIOUS
    <2> QED
      BY <2>1 DEF Suggest!Init, CC, ReqRec, Suggest!Stages
  <1>5. Suggest!Busy = {}
    BY <1>1 DEF Suggest!Busy, JJ, Suggest!Running
  <1>6. Suggest!CountInv
    <2>1. ASSUME NEW r \in Requests, NEW c \in CC PROVE p_req[r].count[c] = Cardinality(Suggest!Pending(r, c))
      <3>1. Suggest!Pending(r, c) = {}
        BY <1>1 DEF Suggest!Pending, JJ
      <3> QED
        BY <1>3, <3>1, FS_EmptySet
    <2> QED
      BY <2>1, SuggestFinite DEF Suggest!CountInv, CC
  <1>7. Suggest!TypeOK
    <2>1. Cardinality(Suggest!Busy) <= p_workers
      BY <1>2, <1>5, FS_EmptySet
    <2> QED
      BY <1>2, <1>4, <1>6, <2>1, TypesFit DEF TypesNow
  <1>8. Suggest!Before["primary"] = {}
    BY DEF Suggest!Before
  <1>9. Suggest!StageInv
    BY <1>1, <1>3, <1>8, GroupsDisjoint DEF Suggest!StageInv, Members
  <1>10. Suggest!DoneInv
    BY <1>3, <1>8 DEF Suggest!DoneInv
  <1>11. Suggest!WordsInv /\ Suggest!SuccessInv
    BY <1>1, JobsFinite DEF Suggest!WordsInv, Suggest!SuccessInv, JJ
  <1>12. Suggest!QueueInv
    BY <1>2 DEF Suggest!QueueInv
  <1> QED
    BY <1>6, <1>7, <1>9, <1>10, <1>11, <1>12 DEF Suggest!Inv

(* Every step of a request and of the pool keeps what is known of them.    *)
LEMMA SuggestStep == Suggest!Inv /\ Suggest!Next => Suggest!Inv'
  <1> SUFFICES ASSUME Suggest!Inv, Suggest!Next PROVE Suggest!Inv'
    OBVIOUS
  <1>1. UNCHANGED p_workers
    BY DEF Suggest!Next
  <1>2. CASE Suggest!TakeFunction
    BY <1>1, <1>2, TakeStep
  <1>3. CASE \E r \in Requests : Suggest!Thread(r)
    BY <1>1, <1>3, RunGroupStep, WaitSteps, NextGroupStep DEF Suggest!Thread
  <1>4. CASE \E r \in Requests : Suggest!BagOfWords(r)
    BY <1>1, <1>4, BagSteps, SplitStep DEF Suggest!BagOfWords
  <1>5. CASE \E r \in Requests, j \in JJ : Suggest!Function(r, j)
    BY <1>1, <1>5, SearchSteps, NotifyStep DEF Suggest!Function
  <1> QED
    BY <1>2, <1>3, <1>4, <1>5 DEF Suggest!Next, JJ

(* The counters, the frames of the bags of words and the responses.        *)
LEMMA ExactNow == Suggest!Inv => CountersExact
  <1> SUFFICES ASSUME Suggest!Inv PROVE CountersExact
    OBVIOUS
  <1> USE DEF Suggest!Inv
  <1>1. \A r \in Requests : p_req[r].stage \in Suggest!Stages
    BY TypesFit DEF ReqRec
  <1>2. Suggest!CountersConserved
    <2>1. ASSUME NEW r \in Requests, NEW s \in Suggest!Stages, p_req[r].stage = s, p_req[r].at \in {"required", "optional", "write"}
          PROVE  p_req[r].count[s] = Suggest!Cardinality({j \in Suggest!Required(s) : p_job[r][j].at # "done"})
      <3>1. \A j \in JJ : Suggest!CounterOf(j) = s <=> j \in Suggest!Required(s)
        BY CounterFacts
      <3>2. \A j \in Suggest!Required(s) : j \in JJ /\ p_job[r][j].at # "none"
        BY <2>1, GroupsDisjoint DEF Suggest!StageInv, Members
      <3>3. Suggest!Pending(r, s) = {j \in Suggest!Required(s) : p_job[r][j].at # "done"}
        BY <3>1, <3>2 DEF Suggest!Pending, JJ
      <3> QED
        BY <3>3 DEF Suggest!CountInv, Suggest!Counters
    <2> QED
      BY <2>1 DEF Suggest!CountersConserved
  <1>3. Suggest!WordsOutlived
    BY DEF Suggest!WordsInv, Suggest!WordsOutlived
  <1>4. Suggest!ResponseUnshared
    <2>1. ASSUME NEW r \in Requests, p_req[r].at = "write", ~p_req[r].timed, NEW j \in JJ,
                 p_job[r][j].at \in {"running", "found"}
          PROVE  Suggest!Reads(j) = {}
      <3>1. ASSUME NEW t \in Suggest!Stages, j \in Suggest!Required(t) PROVE FALSE
        <4>1. t \in Suggest!Before[p_req[r].stage] \/ t = p_req[r].stage
          BY <2>1, <3>1, GroupsDisjoint DEF Suggest!StageInv, Members
        <4> QED
          BY <2>1, <3>1, <4>1 DEF Suggest!DoneInv
      <3>2. j \notin {"domain_boost", "filters", "sorts", "identity"}
        <4>1. \A s \in Suggest!Stages : Suggest!Required(s) = Members(s) \ {"bow"}
          BY GroupsDisjoint
        <4>2. {"boost", "secondary", "identity"} \subseteq Suggest!Stages
          BY DEF Suggest!Stages
        <4> QED
          BY <3>1, <4>1, <4>2, GroupFacts
      <3> QED
        BY <3>2 DEF Suggest!Reads
    <2> QED
      BY <2>1 DEF Suggest!ResponseUnshared, JJ
  <1> QED
    BY <1>2, <1>3, <1>4 DEF CountersExact

(* What is combined in a step was complete before it.                      *)
LEMMA MergeStep ==
  ASSUME Suggest!Inv, Suggest!Next, NEW q \in Requests, NEW j \in p_req'[q].merged \ p_req[q].merged
  PROVE  p_job[q][j].completions # "some"
  <1>1. p_req \in [Requests -> ReqRec] /\ \A r \in Requests : p_req[r] \in ReqRec
    BY TypesFit DEF Suggest!Inv
  <1>2. p_req' # p_req
    OBVIOUS
  <1>3. ASSUME NEW r \in Requests, NEW new, p_req' = [p_req EXCEPT ![r] = new] PROVE q = r /\ j \in new.merged \ p_req[r].merged
    BY <1>1, <1>3
  <1>4. CASE \E r \in Requests, i \in JJ : Suggest!NotifyCounter(r, i)
    <2>1. PICK r \in Requests, i \in JJ : Suggest!NotifyCounter(r, i)
      BY <1>4
    <2> DEFINE new == [p_req[r] EXCEPT !.count = [p_req[r].count EXCEPT ![Suggest!CounterOf(i)] = @ - 1]]
    <2>2. p_req' = [p_req EXCEPT ![r] = new]
      BY <2>1 DEF Suggest!NotifyCounter
    <2>3. new.merged = p_req[r].merged
      BY <1>1 DEF ReqRec
    <2> QED
      BY <1>3, <2>2, <2>3
  <1>5. CASE \E r \in Requests : Suggest!SplitQuery(r)
    <2>1. PICK r \in Requests : Suggest!SplitQuery(r)
      BY <1>5
    <2> DEFINE new == [p_req[r] EXCEPT !.count = [p_req[r].count EXCEPT !["words"] = Suggest!Cardinality(p_req[r].words)]]
    <2>2. p_req' = [p_req EXCEPT ![r] = new]
      BY <2>1 DEF Suggest!SplitQuery
    <2>3. new.merged = p_req[r].merged
      BY <1>1 DEF ReqRec
    <2> QED
      BY <1>3, <2>2, <2>3
  <1>6. CASE \E r \in Requests : Suggest!RunGroup(r)
    <2>1. PICK r \in Requests : Suggest!RunGroup(r)
      BY <1>6
    <2> DEFINE s == p_req[r].stage
               n == Suggest!Cardinality(Suggest!Required(s))
               m == IF s = "primary" THEN Suggest!Cardinality(Suggest!Optional) ELSE p_req[r].count["optional"]
               cnt == [[p_req[r].count EXCEPT ![s] = n] EXCEPT !["optional"] = m]
               new == [[p_req[r] EXCEPT !.at = "required"] EXCEPT !.count = cnt]
    <2>4. s # "optional" /\ p_req[r].count \in [CC -> Int] /\ s \in CC /\ "optional" \in CC
      <3>1. s \in Suggest!Stages /\ p_req[r].count \in [CC -> Int]
        BY <1>1 DEF ReqRec
      <3> QED
        BY <3>1 DEF Suggest!Stages, CC, Suggest!Counters
    <2>2. p_req' = [p_req EXCEPT ![r] = new]
      BY <1>1, <2>1, <2>4 DEF Suggest!RunGroup, ReqRec
    <2>3. new.merged = p_req[r].merged
      BY <1>1 DEF ReqRec
    <2> QED
      BY <1>3, <2>2, <2>3
  <1>7. CASE \E r \in Requests : Suggest!NextGroup(r)
    <2>1. PICK r \in Requests : Suggest!NextGroup(r)
      BY <1>7
    <2>2. PICK new : /\ p_req' = [p_req EXCEPT ![r] = new]
                     /\ \/ \E s : new = [p_req[r] EXCEPT !.stage = s, !.at = "group"]
                        \/ new = [p_req[r] EXCEPT !.at = "returned"]
      <3>2. CASE p_req[r].stage = "primary" /\ Suggest!Successful(r)
        BY <1>1, <2>1, <3>2 DEF Suggest!NextGroup
      <3>3. CASE p_req[r].stage = "boost"
        BY <1>1, <2>1, <3>3 DEF Suggest!NextGroup
      <3>4. CASE p_req[r].stage = "secondary" /\ Suggest!Successful(r)
        BY <1>1, <2>1, <3>4 DEF Suggest!NextGroup
      <3>5. CASE /\ ~(p_req[r].stage = "primary" /\ Suggest!Successful(r)) /\ p_req[r].stage # "boost"
                 /\ ~(p_req[r].stage = "secondary" /\ Suggest!Successful(r))
        BY <1>1, <2>1, <3>5 DEF Suggest!NextGroup
      <3> QED
        BY <3>2, <3>3, <3>4, <3>5
    <2>3. new.merged = p_req[r].merged
      BY <1>1, <2>2 DEF ReqRec
    <2> QED
      BY <1>3, <2>2, <2>3
  <1>8. CASE \E r \in Requests : Suggest!WaitRequired(r) \/ Suggest!WaitOptional(r)
    <2>1. PICK r \in Requests : Suggest!WaitRequired(r) \/ Suggest!WaitOptional(r)
      BY <1>8
    <2>2. PICK S, new : /\ p_req' = [p_req EXCEPT ![r] = new] /\ S \subseteq JJ
                        /\ new.merged = p_req[r].merged \cup Suggest!Merge(r, S)
      <3>1. CASE Suggest!WaitRequired(r)
        <4>1. PICK ok \in Suggest!WaitWithTimeout(r, p_req[r].stage) :
                p_req' = [p_req EXCEPT ![r].at = "optional", ![r].timed = @ \/ ~ok,
                             ![r].merged = @ \cup Suggest!Merge(r, Suggest!Required(p_req[r].stage))]
          BY <3>1 DEF Suggest!WaitRequired
        <4> DEFINE T == Suggest!Required(p_req[r].stage)
                   timed == p_req[r].timed \/ ~ok
                   merged == p_req[r].merged \cup Suggest!Merge(r, T)
                   rec == [[[p_req[r] EXCEPT !.at = "optional"] EXCEPT !.timed = timed] EXCEPT !.merged = merged]
        <4>2. p_req' = [p_req EXCEPT ![r] = rec]
          BY <1>1, <4>1 DEF ReqRec
        <4>3. p_req[r].stage \in Suggest!Stages
          BY <1>1 DEF ReqRec
        <4>4. T \subseteq JJ
          BY <4>3, GroupsDisjoint
        <4> HIDE DEF T, timed
        <4>5. rec.merged = p_req[r].merged \cup Suggest!Merge(r, T)
          BY <1>1 DEF ReqRec
        <4> QED
          BY <4>2, <4>4, <4>5
      <3>2. CASE Suggest!WaitOptional(r)
        <4> DEFINE T == IF p_req[r].stage = "primary" THEN Suggest!Optional ELSE {}
                   merged == p_req[r].merged \cup Suggest!Merge(r, T)
                   rec == [[p_req[r] EXCEPT !.at = "write"] EXCEPT !.merged = merged]
        <4>1. p_req' = [p_req EXCEPT ![r] = rec]
          BY <1>1, <3>2 DEF Suggest!WaitOptional, ReqRec
        <4>2. T \subseteq JJ
          BY JobsFinite DEF Suggest!Optional
        <4> HIDE DEF T
        <4>3. rec.merged = p_req[r].merged \cup Suggest!Merge(r, T)
          BY <1>1 DEF ReqRec
        <4> QED
          BY <4>1, <4>2, <4>3
      <3> QED
        BY <2>1, <3>1, <3>2
    <2>3. q = r /\ j \in Suggest!Merge(r, S)
      BY <1>3, <2>2
    <2>4. j \in JJ /\ p_job[r][j].success
      BY <2>2, <2>3 DEF Suggest!Merge
    <2> QED
      BY <2>3, <2>4 DEF Suggest!Inv, Suggest!SuccessInv, JJ
  <1> QED
    BY <1>2, <1>4, <1>5, <1>6, <1>7, <1>8
       DEF Suggest!Next, JJ, Suggest!TakeFunction, Suggest!Thread, Suggest!BagOfWords, Suggest!NoWords,
           Suggest!WaitWords, Suggest!Function, Suggest!Search, Suggest!Succeed

(* A step of the process is one of the suggest server or leaves it alone.  *)
LEMMA SuggestInvariant == AllSpec => []Suggest!Inv
  <1>1. AllInit => Suggest!Inv
    BY SuggestBegins DEF AllInit
  <1>2. Suggest!Inv /\ [AllNext]_allVars => Suggest!Inv'
    <2>1. [AllNext]_allVars => Suggest!Next \/ UNCHANGED SuggestVars
      BY DEF AllNext, allVars
    <2>2. UNCHANGED SuggestVars => (Suggest!Inv' <=> Suggest!Inv)
      BY DEF SuggestVars, Suggest!Inv, Suggest!TypeOK, Suggest!CountInv, Suggest!StageInv, Suggest!DoneInv,
             Suggest!WordsInv, Suggest!QueueInv, Suggest!SuccessInv, Suggest!Busy, Suggest!Pending
    <2> QED
      BY <2>1, <2>2, SuggestStep
  <1> QED
    BY <1>1, <1>2, PTL DEF AllSpec

(* For all requests, words and sizes of the pool, a counter stands at the  *)
(* number of the functions that have not notified it, no function refers   *)
(* to the frame of a bag of words that has gone on, and no response is     *)
(* written that a function still reads, unless a wait has timed out.       *)
THEOREM CountersAreExact == AllSpec => []CountersExact
  BY SuggestInvariant, ExactNow, PTL

(* For all requests, words and sizes of the pool, what a request combines  *)
(* is complete, also when the wait for it has timed out.                   *)
THEOREM MergesWhole == AllSpec => MergedWhole
  <1>1. Suggest!Inv /\ [AllNext]_allVars
          => [\A r \in Requests : \A j \in p_req'[r].merged \ p_req[r].merged : p_job[r][j].completions # "some"]_(Suggest!vars)
    <2>1. [AllNext]_allVars => Suggest!Next \/ UNCHANGED SuggestVars
      BY DEF AllNext, allVars
    <2>2. UNCHANGED SuggestVars => UNCHANGED Suggest!vars
      BY DEF SuggestVars, Suggest!vars
    <2> QED
      BY <2>1, <2>2, MergeStep
  <1> QED
    BY <1>1, SuggestInvariant, PTL DEF AllSpec, MergedWhole, Suggest!MergedWhole
=============================================================================
