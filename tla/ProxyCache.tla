------------------------------ MODULE ProxyCache ------------------------------
(***************************************************************************)
(* util/cache/proxy_cache.h: a cache of computed values.  A call that      *)
(* misses marks the entry as in progress, runs the caller's get() without  *)
(* the lock, saves the result and wakes the calls that wait for it.  A     *)
(* value is represented by the time at which its get() began.  The         *)
(* statistics (hits, calls) influence nothing and are left out.            *)
(*                                                                         *)
(* util/cache/auto_proxy_cache.h: a ProxyCache in which every value is     *)
(* always about to expire, and a ThreadPool that runs a refresh for every  *)
(* query.  The pool is taken at its promise (TaskPool): a task that was    *)
(* added is taken by some worker, in the order of the additions.           *)
(***************************************************************************)
EXTENDS LRU

CONSTANTS
  Keys, Threads,
  Sizes,             \* the values that max_size_ of cache_ may have
  Ttl,               \* ttl_
  RefreshThreshold,  \* refreshThreshold_
  None,              \* no call, no entry
  MaxTime,           \* bound: the last clock reading
  Workers,           \* the threads of thread_pool_, the others are callers
  MaxTasks           \* bound: refreshes queued

ASSUME ProxyCacheAssumption ==
  /\ Sizes \subseteq Nat \ {0}
  /\ Ttl \in Nat /\ RefreshThreshold \in Nat
  /\ MaxTime \in Nat \ {0}
  /\ Workers \subseteq Threads
  /\ MaxTasks \in Nat \ {0}

(* Of an AutoProxyCache refreshThreshold is twice the ttl.                 *)
AutoProxyCacheAssumption == RefreshThreshold = 2 * Ttl

VARIABLES
  max_size,  \* max_size_ of cache_, which the constructor is given
  lru,    \* cache_: entries [key, expire, inProgress, value]
  pc,     \* "idle", "lookup", "waiting" (on cond_var_), "get", "running" (get())
  call,   \* the arguments of a thread's call: [key, noBlock, now], or None
  v,      \* its local v, an entry, once the loop is left, or None
  clock,  \* steady_clock::now()
  thrown,   \* history: a get() has thrown
  orphaned, \* history: the threads that compute a key whose mark has gone, as
            \* it was evicted or another thread has saved the key
  tasks,    \* the refreshes in thread_pool_, [key, now]
  unserved  \* history: the keys queried since a result was last saved for them

vars == <<max_size, lru, pc, call, v, clock, thrown, orphaned>>
autoVars == <<vars, tasks, unserved>>

(* value_type(): expire is time_point(), time 0, before every call.        *)
Fresh(k) == [key |-> k, expire |-> 0, inProgress |-> FALSE, value |-> 0]

Times == 0 .. MaxTime

Calls == [key : Keys, noBlock : BOOLEAN, now : Times]

Entries == [key : Keys, expire : 0 .. MaxTime + Ttl, inProgress : BOOLEAN, value : Times]

PCs == {"idle", "lookup", "waiting", "get", "running"}

(* Where a thread is, its call and its local v; a thread that runs get()   *)
(* works on the entry it marked.                                           *)
ThreadOK(p, c, e) ==
  /\ c \in IF p = "idle" THEN {None} ELSE Calls
  /\ IF p \in {"get", "running"}
     THEN e \in Entries /\ e.inProgress /\ e.key = c.key
     ELSE e = None

Computing(t) == pc[t] \in {"get", "running"}

(* What every variable may hold.                                           *)
TypeOK ==
  /\ \A i \in 1 .. Len(lru) : lru[i] \in Entries
  /\ pc \in [Threads -> PCs]
  /\ \A t \in Threads : ThreadOK(pc[t], call[t], v[t])
  /\ clock \in 1 .. MaxTime /\ thrown \in BOOLEAN
  /\ max_size \in Sizes /\ \A t \in orphaned : t \in Threads /\ Computing(t)

Init ==
  /\ max_size \in Sizes /\ orphaned = {}
  /\ lru = <<>>
  /\ pc = [t \in Threads |-> "idle"]
  /\ call = [t \in Threads |-> None]
  /\ v = [t \in Threads |-> None]
  /\ clock = 1 /\ thrown = FALSE

Goto(t, p) == pc' = [pc EXCEPT ![t] = p]

(* The call ends, its arguments and locals with it.                        *)
Leave(t) == call' = [call EXCEPT ![t] = None] /\ v' = [v EXCEPT ![t] = None]

(* operator()(key, get, try_no_block, now) is called.                      *)
Begin(t, k, noBlock, now) ==
  /\ pc[t] = "idle"
  /\ call' = [call EXCEPT ![t] = [key |-> k, noBlock |-> noBlock, now |-> now]]
  /\ Goto(t, "lookup")
  /\ UNCHANGED <<max_size, lru, v, clock, thrown, orphaned>>

(* v = cache_[key]                                                         *)
Cached(k) == IF k \in KeysIn(lru) THEN EntryOf(lru, k) ELSE Fresh(k)

(* A miss, or a value that is too old for the call.                        *)
Stale(e, now) == e.expire = 0 \/ now > e.expire

(* A hit that needs no refresh: it will not expire soon, or someone is     *)
(* working on it, or the call does not want to wait.  (The difference of   *)
(* the time points may be negative.)                                       *)
Usable(e, c) == c.now + RefreshThreshold < e.expire \/ e.inProgress \/ c.noBlock

(* A call that finds the entry marked as in progress computes it as well.  *)
MustWait_Never(e) == FALSE

(* Someone else computes the value.                                        *)
MustWait(e) == e.inProgress

(* v.inProgress = true                                                     *)
Mark(e) == [e EXCEPT !.inProgress = TRUE]

(* The list s says that somebody works on k.                               *)
Marked(s, k) == \E e \in EntriesIn(s) : e.key = k /\ e.inProgress

(* t has put an entry into the list: marks may have gone with it.          *)
Orphan(t) ==
  orphaned' = (orphaned \cup {u \in Threads : Computing(u) /\ ~Marked(lru', call[u].key)}) \ {t}

(* One round of the loop under mutex_: the call returns the cached value,  *)
(* waits for the thread that computes it, or marks the entry and leaves    *)
(* the loop to compute it.                                                 *)
Lookup(t) ==
  /\ pc[t] = "lookup"
  /\ LET k == call[t].key
         e == Cached(k)
     IN  IF ~Stale(e, call[t].now) /\ Usable(e, call[t])
         THEN /\ Leave(t)
              /\ lru' = Touch(lru, k)
              /\ Goto(t, "idle")
              /\ UNCHANGED orphaned
         ELSE IF MustWait(e)
         THEN /\ lru' = Touch(lru, k)
              /\ Goto(t, "waiting")
              /\ UNCHANGED <<call, v, orphaned>>
         ELSE /\ v' = [v EXCEPT ![t] = Mark(e)]
              /\ lru' = Put(lru, Mark(e), max_size)
              /\ Orphan(t)
              /\ Goto(t, "get")
              /\ UNCHANGED call
  /\ UNCHANGED <<max_size, clock, thrown>>

(* cond_var_.wait returns without a notification.                          *)
SpuriousWake(t) ==
  /\ pc[t] = "waiting"
  /\ Goto(t, "lookup")
  /\ UNCHANGED <<max_size, lru, call, v, clock, thrown, orphaned>>

(* v.expire, then get() is called; time may have passed since the call.    *)
Get(t) ==
  /\ pc[t] = "get"
  /\ v' = [v EXCEPT ![t].expire = call[t].now + Ttl, ![t].value = clock]
  /\ Goto(t, "running")
  /\ UNCHANGED <<max_size, lru, call, clock, thrown, orphaned>>

(* get() throws: the exception leaves operator(), the entry stays marked.  *)
GetThrows(t) ==
  /\ pc[t] = "running"
  /\ Leave(t)
  /\ Goto(t, "idle")
  /\ thrown' = TRUE /\ orphaned' = orphaned \ {t}
  /\ UNCHANGED <<max_size, lru, clock>>

(* The wake-up is notify_one.                                              *)
Woken_One(t) ==
  LET W == {u \in Threads : pc[u] = "waiting"}
  IN  IF W = {} THEN {} ELSE {CHOOSE u \in W : TRUE}

(* cond_var_.notify_all()                                                  *)
Woken(t) == {u \in Threads : pc[u] = "waiting"}

(* The expiry is taken from the end of get().                              *)
Result_LateExpire(e) == [e EXCEPT !.inProgress = FALSE, !.expire = clock + Ttl]

(* v.inProgress = false                                                    *)
Result(e) == [e EXCEPT !.inProgress = FALSE]

(* get() returns; the result is saved and the waiters are woken, under     *)
(* mutex_.                                                                 *)
Save(t) ==
  /\ pc[t] = "running"
  /\ lru' = Put(lru, Result(v[t]), max_size)
  /\ Orphan(t)
  /\ pc' = [u \in Threads |-> IF u = t THEN "idle"
                              ELSE IF u \in Woken(t) THEN "lookup" ELSE pc[u]]
  /\ Leave(t)
  /\ UNCHANGED <<max_size, clock, thrown>>

Tick ==
  /\ clock < MaxTime
  /\ clock' = clock + 1
  /\ UNCHANGED <<max_size, lru, pc, call, v, thrown, orphaned>>

(* The steps of a call under way.                                          *)
Step(t) == Lookup(t) \/ Get(t) \/ Save(t)

Next ==
  \/ \E t \in Threads :
       \/ \E k \in Keys, b \in BOOLEAN, now \in 1 .. clock : Begin(t, k, b, now)
       \/ Step(t) \/ GetThrows(t)
       \/ SpuriousWake(t)
  \/ Tick

Spec == Init /\ [][Next]_vars

AutoInit == Init /\ tasks = <<>> /\ unserved = {}

(* thread_pool_.Add(...)                                                   *)
AddRefresh(k) == tasks' = Append(tasks, [key |-> k, now |-> clock])

(* operator(): the refresh is queued, then the caller asks proxy_cache_    *)
(* without blocking on a value that is there.                              *)
Query(t, k) ==
  /\ Len(tasks) < MaxTasks
  /\ AddRefresh(k)
  /\ Begin(t, k, TRUE, clock)
  /\ unserved' = unserved \cup {k}

(* A worker runs the oldest refresh.                                       *)
WorkerTake(w) ==
  /\ tasks # <<>>
  /\ Begin(w, Head(tasks).key, FALSE, Head(tasks).now)
  /\ tasks' = Tail(tasks)
  /\ UNCHANGED unserved

(* A call of proxy_cache_ goes on.                                         *)
AutoStep(t) ==
  /\ \/ (Lookup(t) \/ Get(t)) /\ UNCHANGED unserved
     \/ Save(t) /\ unserved' = unserved \ {call[t].key}
  /\ UNCHANGED tasks

(* get() throws in a caller.  (In a thread of the pool nobody catches it,  *)
(* and the process ends.)                                                  *)
CallerThrows(t) == GetThrows(t) /\ UNCHANGED <<tasks, unserved>>

AutoNext ==
  \/ \E t \in Threads \ Workers, k \in Keys : Query(t, k)
  \/ \E w \in Workers : WorkerTake(w)
  \/ \E t \in Threads : AutoStep(t)
  \/ \E t \in Threads \ Workers : CallerThrows(t)
  \/ /\ Tick \/ \E t \in Threads : SpuriousWake(t)
     /\ UNCHANGED <<tasks, unserved>>

AutoSafety == AutoInit /\ [][AutoNext]_autoVars

(* The pool's threads take tasks, every call under way makes progress.     *)
AutoFairness ==
  /\ \A w \in Workers : WF_autoVars(WorkerTake(w))
  /\ \A t \in Threads : WF_autoVars(AutoStep(t))

AutoSpec == AutoSafety /\ AutoFairness

-----------------------------------------------------------------------------
(* No thundering herd: one thread at a time computes the value of a key,   *)
(* and a thread that computes it besides has lost its mark in the list: it *)
(* was evicted, or a thread that had lost its own has saved over it.       *)
SingleFlight ==
  \A t, u \in Threads \ orphaned :
    t # u /\ Computing(t) /\ Computing(u) => call[t].key # call[u].key

(* An entry that is in progress has a thread that works on it, so the      *)
(* calls that wait for it do not wait for nobody, unless a get() threw.    *)
ProgressHasOwner ==
  ~thrown => \A i \in 1 .. Len(lru) : lru[i].inProgress =>
    \E t \in Threads \ orphaned : Computing(t) /\ call[t].key = lru[i].key

(* Callers of one key do not query in parallel, unless the mark of one of  *)
(* them has gone from the list, and an entry that says a query is in       *)
(* progress has a caller that runs it (proxy_cache.h).                     *)
OneQueryPerKey == TypeOK /\ SingleFlight /\ ProgressHasOwner

(* No value is returned that was asked for longer ago than ttl_ before the *)
(* call: get() began no earlier than ttl_ before the entry expires. And a  *)
(* cached value is replaced by one that was asked for before it only when  *)
(* the thread that saves it has lost its mark, because the cache was too   *)
(* small or a thread that had lost its own has saved the key meanwhile     *)
(* (proxy_cache.h).                                                        *)
ValuesFresh ==
  /\ [](\A i \in 1 .. Len(lru) : lru[i].expire # 0 => lru[i].value + Ttl >= lru[i].expire)
  /\ [][\A k \in KeysIn(lru) : k \in KeysIn(lru') =>
          \/ EntryOf(lru', k).value >= EntryOf(lru, k).value
          \/ \E t \in orphaned : Save(t) /\ call[t].key = k]_vars

(* The cache has room for every key.  In a smaller one a caller may starve: *)
(* each time it is woken, other keys have evicted the value it waited for. *)
Room == Cardinality(Keys) <= max_size

(* In a cache with room for the keys every call returns, unless a get()    *)
(* threw.                                                                  *)
CallReturns ==
  Room => \A t \in Threads : pc[t] # "idle" ~> pc[t] = "idle" \/ thrown

(* The cache refreshes after every query: a result of the key is saved     *)
(* after it, by the query's own refresh or by one that was under way,      *)
(* unless a get() threw or the cache has no room for the keys.             *)
QueryRefreshes ==
  Room => \A k \in Keys : k \in unserved ~> k \notin unserved \/ thrown

-----------------------------------------------------------------------------
(* The invariants behind these properties; the proofs are in Caches.       *)

(* The list holds one entry of a key; locals are functions of the threads. *)
ListInv ==
  /\ TypeOK
  /\ lru \in Seq(Entries) /\ Distinct(lru)
  /\ call \in [Threads -> Calls \cup {None}] /\ v \in [Threads -> Entries \cup {None}]

(* Whoever computes a value has its mark in the list, unless it lost it:   *)
(* other calls see it.                                                     *)
Owner(t) == Computing(t) /\ t \notin orphaned

MarkInv == \A t \in Threads : Owner(t) => Marked(lru, call[t].key)

(* One thread owns the mark of a key, and a mark has its owner, unless a   *)
(* get() threw.                                                            *)
OwnerInv ==
  /\ \A t, u \in Threads : Owner(t) /\ Owner(u) /\ call[t].key = call[u].key => t = u
  /\ ~thrown => \A e \in EntriesIn(lru) : e.inProgress =>
       \E t \in Threads : Owner(t) /\ call[t].key = e.key

FlightInv == ListInv /\ MarkInv /\ OwnerInv

(* Nobody asks for a time that has not come, and the answer that a thread  *)
(* is about to save is fresh as well.                                      *)
FreshInv ==
  /\ ListInv
  /\ \A t \in Threads : pc[t] # "idle" => call[t].now <= clock
  /\ \A t \in Threads : pc[t] = "running" => v[t].value + Ttl >= v[t].expire
  /\ \A e \in EntriesIn(lru) : e.expire # 0 => e.value + Ttl >= e.expire

(* The answer under way is at least as young as the one it will replace.   *)
AgeInv ==
  /\ \A e \in EntriesIn(lru) : e.value <= clock
  /\ \A t \in Threads : Computing(t) => v[t].value <= clock
  /\ \A t \in Threads : Owner(t) =>
       \A e \in EntriesIn(lru) : e.key = call[t].key => e.value <= v[t].value

(* A step replaces an entry by one that is no older, or is the save of a   *)
(* thread that has lost its mark.                                          *)
NotOlder ==
  \A x \in EntriesIn(lru), y \in EntriesIn(lru') : x.key = y.key =>
    x.value <= y.value \/ \E t \in orphaned : Save(t) /\ call[t].key = x.key

(* The refreshes in the pool were asked for at times that have come.       *)
TasksInv ==
  /\ ListInv
  /\ tasks \in Seq([key : Keys, now : Times])
  /\ \A i \in 1 .. Len(tasks) : tasks[i].now \in 1 .. clock
=============================================================================
