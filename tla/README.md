# Verification of 77up

77up is a collection of C++ libraries and servers: thread primitives, caches,
network servers and clients, init hooks, stores, time and string libraries, a
suggest server and a log server.  What makes it hard is concurrency (most of
its state is shared by threads, and much of it is read, changed and announced
in separate steps) and a number of algorithms with many special cases.  This
directory models those parts in TLA+, checks them with TLC on small instances,
and proves the main properties of the queue, the thread pool, the task server,
the init and exit hooks, the four caches, the fan-out of a suggest request, the
network server and the job that updates statistics with TLAPS for every
instance.

`PROJECT.json` lists every component, run, mutant, hazard, finding and theorem,
and maps each definition to the lines of source it models.

## 1. Inventory

Paths are below `src/public/`.

### Threads, caches and servers

| Component | State | Operations | What is hard | What makes it correct |
|---|---|---|---|---|
| SharedQueue `util/thread/shared_queue.h` | FIFO, `producers_finished_`, time of the last flush, a condition variable, a timeout thread | push, try_push, pop, consume_batch, flush, notify_producers_finished, destructor | wait in an `if`; partial batches need the timeout thread; several locks per decision | order, each element out once, nothing left behind, everybody stops |
| AsyncConsumer, StandardConsumer `util/thread/shared_queue_consumers.h` | `done_`, `consumed_`, a thread | consume loop, Finish, Wait, ExtractConsumed | batch in hand between two locks; Finish wakes nobody | nothing lost between queue and extraction |
| ThreadPool `util/thread/thread_pool.h` | `size_`, a SharedQueue, workers, a second condition variable | Add, TryAdd, FuncHandler, Wait, WaitWithTimeout, destructor | count, test and notification are separate steps; functions add functions | each function once; Wait returns, and not early |
| RateLimitedSharedQueue, RateLimitedThreadPool | pending tasks, last release, a qps thread | push, inherited try_push, qps round, destructor | choice under a lock, addition after it; clock set back | as many tasks out as in; rate kept |
| Task, task server `util/thread/task.h`, `task_server.h` | `locked_`, `running_`, `future_`, history | run, wait, Start, Status, History | lock given back before the result is read; detached threads | one run at a time; status and history tell the truth |
| Init and exit hooks `util/init/`, `util/thread/task_list.h` | registered hooks by kind and priority | InitRun, ExitRun, main, R77Shutdown, quick exit | parallel hooks, hooks that register hooks, exit from two threads | levels in order; required groups always; exit hooks complete |
| SharedLRUCache `util/cache/shared_lru_cache.h` | list by recency, map into it, shared objects | insert, find, erase, clear, `operator[]` | list and map change separately; handles outlive entries; unlocked assignment | list and map agree; the oldest is evicted |
| ProxyCache, AutoProxyCache `util/cache/` | an LRU cache of entries with an expiry and an in-progress mark | operator(), background refresh | query without the lock; queries that throw; eviction of marks | one query per key; fresh values; nobody waits for nobody |
| SimpleCacher `util/store/cache/simple_cacher.h` | list and map | find | unlocks for the lookup, does not look again | no dangling iterator; bounded overrun |
| GroupCache `util/cache/group_cache.h` | shards, groups, dirty set, files | insert, erase, find, flush, clear, eviction thread, restart | detached eviction against writers; flush in steps | no write lost; files hold what was flushed; evictions end |
| NetServer, RPCServer `util/network/` | connections, pending requests, usage table, shutdown flag | accept loop, connection threads or pool, pages, SIGTERM, countdown | countdown against requests not yet counted | counts exact; accepted requests answered; the process ends |
| CachedHttpBase `util/network/cached_httpclient.h` | table of requests in flight and replies | HttpGet, HttpPost | others poll while the owner asks; erasure after a failure | one request at a time per key; only finished, fresh, successful replies are shared |
| SharedWriter `util/file/shared_writer.cc` | list of entries, current file | Write, Reset, writer thread | a batch taken before a Reset is written after it | every entry reaches a file, in order |
| Counter latches, suggest fan-out `meta/suggest/server/algos/` | per request two latches and a response per algorithm | fan-out on a shared pool, two timeouts, merge, bag of words | algorithms that finish after the timeout; functions that wait inside their pool | the merge uses whole responses only; requests are answered |
| Suggest flow and ranking `meta/suggest/` | the list of completions | primary, secondary, twiddlers, dedup, rearrangement, reply | the pool's functions read a list that the request rearranges | nothing is lost or raced; parents and children stay together |
| Network clients `util/network/` | socket, buffer, deadline | connect, send, receive, RPC and HTTP calls, SSL retries, close | late, partial or missing replies | a call returns once, with its own reply or a failure |
| HTTP text `util/network/webserver.cc`, `httputil.cc` | buffer of a connection | find, parse and answer requests; parse replies | any cut into pieces; chunks; compression | what arrives is what was sent |
| Server methods `util/network/method/` | registry, cookies, session | lookup, call, cascade, forward, mock, dispatch | sessions through forwarded calls | each request reaches its method with its own session |
| Offline log filters `meta/log/offline/filtering/` | readers, a pool, writers by file | read days and files, triggers, write | bounded reader threads feed a pool that is waited for | every element reaches its file |
| Statistics of logs `meta/log/offline/stats/` | files with a timestamp, read-up-to times | choose dates, load, decay, count, write | crash between the writes of two files | every day counted exactly once |

### Data structures and algorithms

| Component | What is checked |
|---|---|
| RAHeap, BestN `util/templates/container/` | order and positions of the heap; the best n are kept |
| A* one-way and two-way `util/algorithm/` | lowest cost or none; closed nodes are final |
| Calendar, time zones, LocalTime `util/time/` | local and universal time both ways, daylight saving time, steps that land exactly |
| Time domains and points `util/time/timedomain.h`, `genericpoint.h` | evaluation, boundaries, next domain, search of points, printing and parsing back |
| Log server's triggers, event counters `meta/log/common/`, `util/counter/` | merged order of triggers, own status per log; ring of bins against the sum of events |
| StringStorage, Index, SearchIndex `util/memory/`, `util/index/` | stored once; an index retrieves what was added; a search finds its terms, from a saved index too |
| Serializer, CSV, escaping `util/serial/`, `util/string/`, `util/file/` | what is written is read, between versions of a struct and by every pair of writer and reader |
| String utilities, Porter stemmer `util/string/` | cutting and joining agree; limits are kept; stems do not depend on what came before |
| Stores, collections `util/store/`, `util/memory/collection.h` | inserts kept, iteration whole, bounds exact; pointers stay valid, no duplicates |
| Region data `util/region_data/` | lookups find the best and nearest region; merged names keep their source |

Interaction: ThreadPool, RateLimitedThreadPool and the consumers sit on
SharedQueue; AutoProxyCache composes ProxyCache with a ThreadPool; ProxyCache
keeps its entries in a list as SharedLRUCache does; InitExit runs TaskLists,
which are Tasks; the task server starts Tasks; RPCServer is a NetServer whose
requests HttpMessages parses and ServerMethods dispatches; a suggest request
runs its algorithms (SuggestPool), then ranks and twiddles what they found
(SuggestRanking, SuggestFlow); BestN sits on RAHeap, and A*'s open list is a
heap too.

## 2. Modules

| Module | Models | Composes |
|---|---|---|
| `SharedQueue` | the queue's state and one operator per call; the condition variable as a state per thread (outside, waiting, notified) | |
| `SharedQueueConsumers` | consumers, producers, timeout thread and owner of one queue; proofs | `SharedQueue` |
| `TaskPool` | abstract: what a pool promises | |
| `ThreadPool` | the pool; proofs | `SharedQueue`; `TaskPool` by refinement |
| `RateLimitedSharedQueue` | the rate limited queue, its qps thread and consumers | `SharedQueue` |
| `TaskServer` | one task, its runs and their history | |
| `InitExit` | init and exit hooks, main and threads that quit | |
| `LRU` | a list of keyed entries, most recent first; lemmas about it | |
| `SharedLRUCache` | the LRU cache with its shared objects; proofs | `LRU` |
| `ProxyCache` | `Spec`: calls that compute cached values; `AutoSpec`: background refresh around it | `LRU`; the pool at its promise |
| `SimpleCacher` | find() in the mode that caches a subset | |
| `GroupCache` | groups in memory and in files, with the eviction thread | |
| `RPCServer` | the server from its first connection to the end of the process; proofs | |
| `Process` | what a process keeps between threads and runs; proofs about the four | `TaskServer`, `InitExit`, `SimpleCacher`, `StatsUpdater`, side by side |
| `Caches` | what works in the background of a request; proofs about the three | `ProxyCache`, `GroupCache`, `SuggestPool`, side by side |
| `CachedHttp`, `SharedWriter`, `NetClient`, `LogFiltering`, `StatsUpdater` | one component each | |
| `SuggestPool`, `SuggestRanking`, `SuggestFlow` | the three stages of a suggest request | |
| `HttpMessages`, `ServerMethods` | requests as text, requests as calls | |
| `BestN`, `AStar`, `Calendar`, `Timezones`, `TimeDomain`, `GenericPoint`, `LogTriggers`, `Counter`, `StringIndex`, `SearchIndex`, `Serializer`, `Strings`, `StringUse`, `CsvText`, `Stores`, `Collections`, `RegionData` | the algorithms, each with the calls that drive it | `Timezones` and `GenericPoint` use `Calendar`; `StringUse` and `CsvText` use `Strings` |

Each `MC` module, `Process` and `Caches` instantiate several components of one
kind.  They EXTEND one component and INSTANCE the others; the variable `which`,
chosen in the initial state, says which of them runs in a behaviour.
The variables of the others stay 0, so the state spaces add up and do not
multiply.  A property of such a module that joins properties of a component
has the form `which = "key" => ...`; those of the extended component are
checked as they stand, since its variables stay in their initial state in
the other behaviours.  (In `Caches` those of `GroupCache` and `SuggestPool`
stay in an initial state too, so that their invariants hold there.)
`Process` and `Caches` take all sizes of their components as constants, and
their theorems hold for any of them: those about the extended component are
about its own specification, the others about the composed one.

Correspondence.  A step is what the code does between two points at which
another thread can intervene: a critical section, an atomic access, or an access
that takes no lock.  So `consume_batch()` is `Block` and `Take`, and the
consumer's loop around it is `TestDone`, `Store` and `TestFinished`, because
each of them takes a lock of its own; `Add()` is `AddCount` and `AddPush`.  A
condition variable may wake threads without a notification where a model says
so (`Spurious`).  Payloads are represented by their identity: elements of the
queue by the number of their push, cached values by the time at which their
query began, cache objects by numbers.  Some variables are histories
(`pushed`, `drained`, `delivered`, `owed`, `thrown`, `older`, `twice`, ...); no
guard reads them except where a bound is stated.  `older` of SharedLRUCache
keeps, per key, the keys whose last use came before; this is all that the order
of the list can depend on, and it does not grow.

`RateLimitedSharedQueue` keeps the code's `uint64_t` arithmetic by computing
times modulo `Word`; 256 takes the place of 2^64, which differs only in where
the wrap is.  `InitExit` lets TLC choose the flags (include and exclude lists,
asynchronous or deferred) in the initial state.  Texts are sequences of letters
from small alphabets that have one member for each case the code tells apart.
The sequential components take their inputs from sets given in `MCAlgorithms`.
Operators whose name is that of another with a suffix (`Hit_NoTouch`) are the
mutants of `PROJECT.json`: no specification uses them.

## 3. Runs

Passing runs, with the bounds and what they make happen:

| Run | Checks | Bounds and why they are enough |
|---|---|---|
| `pools` | `PoolCounts`, `ImplementsTaskPool`, `PoolEnds`, `RateKept` | 3 functions of which one adds another and two use TryAdd, 2 workers, capacity 1: TryAdd fails and succeeds, a function adds during destruction. A second pool with batches of 2, a timeout thread, two waiting callers and spurious wake-ups. Rate limit: 3 tasks, one through try_push, one clock step back; the bound is on every stretch of the additions, and a step back adds at most one to it |
| `caches` | `OneQueryPerKey`, `GroupKeepsWrites`, `CountersExact`, `ValuesFresh`, `BackgroundServes`, `MergedWhole`, `RequestsAnswered` | 2 keys in a cache of 2 places or of 1, so that marks of queries in flight are evicted; 2 callers and a worker (in the small cache one caller and the worker, `SmallThreads`: two computations that overlap, with a key for each, are what an eviction needs), a refresh queued behind the one under way, clock 1 to 2 with a lifetime of 1, queries that throw. GroupCache: 3 keys in 2 groups of which 1 fits, 2 evictions at once, restart. Suggest: a request with all its algorithms on 1 or 2 workers, both timeouts, a bag of one word |
| `server` | `ServerCounts`, `ExchangeExact`, `GracefulShutdown`, `ShutdownEnds`, `HttpRepliesShared`, `MethodsServed` | 2 clients for 2 places, 3 pieces of which 2 make a request, countdown of 1, one other thread, with a thread per connection and with a pool of 1. HTTP cache: 2 threads, 2 keys, 1 place. Texts: 3 scripts of requests, cut anywhere. Methods: 2 servers, 2 tabs, 2 requests |
| `requests` | `TypeOK`, `QueueIsSuffix`, `DrainedAtExit`, `CallsOnceInOrder`, `QueueEnds`, `NetCallsAnswered`, `WriterEntriesReachFile`, `LogsFiltered` | Draining: 3 consumers, batches of 2, capacity 2, 3 elements: more consumers than batches, so that some wake to nothing. Calls: 2 consumers with pop, flush, Finish, ExtractConsumed and spurious wake-ups. Clients: 3 calls over RPC, HTTP and HTTPS, replies in 2 pieces. Writer: 3 entries, 2 resets at any point of a batch, so that a batch goes to the new file or ends the process. Filters: 4 days, 2 workers |
| `process` | `OneRunAtATime`, `StatusSeesRun`, `TaskHistory`, `HooksOrdered`, `CacherNoDangling`, `StatsExact` | 3 calls of Start and a history of 2 instead of 10, so that it is trimmed while older runs are still to report. 4 init and 3 exit hooks on several levels, a required group, a hook that registers an exit hook, a thread that quits at any moment, before the registration too. SimpleCacher: 4 keys for 2 places, 2 threads, 6 misses. Statistics: 2 files, 3 days, 2 runs (`MaxTroubles`) that crash anywhere or are told not to decay |
| `lru` | `SharedCoherent` | 3 keys for 2 places, 2 threads, expiry after 1 of 2 ticks, 4 objects: eviction, expiry, and assignment through a delegate whose entry is gone |
| `algorithms` | `RankingKeepsAll`, `FlowUnraced`, `BestFound`, `TimesExact`, `EventsHandled`, `IndexesFind`, `WrittenIsRead`, `TextsExact` | 17 components, each on the inputs that `MCAlgorithms` lists. Deadlock is not checked: a behaviour ends with its input |

`lru` and `process` use symmetry of keys and threads, which their modules only
compare; they check no liveness.

Every property has a mutant in `PROJECT.json`: a plausible error in the mapped
code that makes TLC report that very property.

Runs that are expected to find a violation:

* `pool_lost`, `WaitEnds`: a `TryAdd()` that fails takes `size_` back to zero
  without a notification, after the last worker has looked at it.  `Wait()`
  then sleeps in an empty pool.
* `rate_lost`, `EveryTaskDelivered`: `MaybeGetTask()` reads `tasks_.back()` and
  pops the front.  With two tasks pending the younger is delivered twice and
  the older never; it needs no clock step.
* `heap_erase`, `HeapOrdered`: `RAHeap::erase()` moves the last element into the
  hole and sifts it only downwards.
* `suggest_stuck`, `FunctionsFinish`: as many bag-of-words functions as the pool
  has workers wait inside the pool for functions queued behind them.
* `twoway_lost`, `TwoWayBest`: the two-way A* may end with a plan that is not of
  the lowest cost, with admissible and consistent heuristics.

### Fairness

Weak fairness of every thread's own steps: the code's threads are operating
system threads that are never suspended, and each step needs no more than a
mutex that others hold for a bounded time.  A function handed to the pool, a
query of a cache and a method of the server's pool is assumed to return.  The
clock advances where a loop waits for it.  No fairness is assumed for calls that
users choose to make (push, Add, Wait, destroying), for clients and peers on the
network, for signals, for the decision to say that producers are finished, for
failures and throws, or for spurious wake-ups.

### Claims that do not hold

What a comment says or a reader would expect, and the code does not do.  The
first table gives definitions that are stated in the modules and left out of the
runs, with the constants that refute them; the second what was met while
translating.  A property of a run that touches one of these states the condition
under which it holds.

| Definition | Why it fails | Constants |
|---|---|---|
| `FinishForces` (SharedQueueConsumers) | Finish() does not wake a consumer blocked in consume_batch() | `NotifyTimeout = FALSE`, `Spurious = FALSE`, `Calls` with "finish" |
| `FlushClears` (SharedQueueConsumers) | flush() compares its index with the shrinking size | `Calls` with "flush" |
| `DrainedAtExit` with spurious wake-ups | a consumer woken early finds the queue empty, then reads producers_finished_ after others pushed | `Spurious = TRUE` |
| `EntriesSpaced` (RateLimitedSharedQueue) | rate_limited_shared_queue.h:5-8 promises a rate; a task is chosen under the lock and added after it, so that tasks already in hand come closer together; try_push() is not overridden and held back by nothing; the clock steps back. `RateBounded` is what is left | as in `pools` |
| `WaitReturnsOwnResult` (TaskServer) | wait() clears locked_ before future_.get() | as in `process` |
| `ExitHooksAlwaysRun` (InitExit) | of two threads that end the process at once the second finds ran_before set and ends it under the hooks of the first; a process that is ended before the exit hooks' registration (main.cc:38) runs none | as in `process` |
| `IteratorHoldsCopy` (SharedLRUCache) | assignment through operator[] writes the shared object | two `Values` |
| `SingleFlight` without the exception of `orphaned` (ProxyCache) | the in-progress mark is evicted; then two callers query one key, and the older answer may replace the newer | `Sizes = {1}` |
| `CallReturns` without `Room` (ProxyCache) | each time a caller is woken, the value it waited for has been evicted again | `Sizes = {1}` |
| `CallReturns` after a throw (ProxyCache) | the mark of a query that threw stays; callers of the key wait for ever | without the condition on `thrown` |
| `FixedSize` (SimpleCacher) | insertions of keys that another thread inserted meanwhile | as in `process` |
| `GracefulShutdown` without another thread (RPCServer) | num_threads <= 2 holds while one connection is open (netserver.cc:217) | `OtherThreads = 0` |
| `AtLeastOne` (SuggestRanking) | completions whose score is zero are trimmed to none | scores 0 and 1 |
| `ClosedFinal` (AStar) | a heuristic that is admissible and not consistent makes the ASSERT fail (astar.h:375) | heuristics that are not consistent |
| `KeepsBest` (BestN) | insert() after GetBestN() finds a sorted vector where it expects a heap | insert after GetBestN |

| Source | What happens |
|---|---|
| incremental_log_stats_updater.cc:181 | with an end date the days after it are counted again by the next run |
| incremental_log_stats_updater.cc:203 | switching the decay off also keeps the old timestamp, so that the next run counts the same days again |
| timedomain.h:473 | the search for a boundary gives up after 50 iterations |
| shared_writer.h:27 | Reset() is said to flush the queue; it clears it. The entries in the thread's hands go to the new file, or end the process if it is not open yet (shared_writer.cc:44) |
| counter.cc:89 | events of age zero or from the future are dropped |
| netclient.cc | a connection attempt that fails leaks its socket; a late reply is read as that of the next call; an HTTP reply cut at its end counts as whole |
| netclient.h:60, sslclient.cc:239 | timeout_ is in milliseconds and used as seconds; BIO_read may block beyond it |
| rpcserver.cc | a second RPC message in the buffer is ignored; PUT is not taken as HTTP |
| log_manager.cc:46-68 | action "*" runs the triggers of a category twice; a trigger of priority INT_MAX fails the ASSERT |
| calendarutil.cc:97 | ElapseFrom1970 does not end for negative arguments |
| stringstorage.h:10 | two threads that store one string at once store it twice, and what is indexed under one copy is not found under the other |
| index.h:523, :601 | HeavyIndex::Clear does not reset size_ |
| search_index.h:605 | a subsnippet that looks like another is dropped and the next best does not take its place |
| search_index.h:676 | a saved index is wrong for texts that come in another order |
| search_index.h:415 | the stemmer is one static object of all threads, where porter_stemmer.h:3 asks for one per thread |
| serializer.h:46 | the size of a message is computed with sizeof(unsigned int) whatever the type of the prefix is |
| serial/ | FromJSON does not clear an unordered_map; the minimum integer, NaN and code points above 0xFFFF (encoding.cc:91) do not survive; a null pointer becomes a default object; bytes 0x91 to 0x94 are replaced |
| filter_trigger_office_ip.cc:15 | the trigger that "filters out all the log elements coming from the office ip" writes exactly those; the number of logs that log_reader.h:37 promises is not what is returned; the meaning that log_element_reader.h:22 gives to results is not kept for plain files; the last line of a compressed file without newline is lost |
| suggest_twiddler_group.cc:90 | after a timeout, functions on the pool read a list that the request rearranges |
| suggest_method_utils.cc | a foreign state without a name is shown as nothing |
| server_method_handler.cc:76-103 | ProcessJSON of ServerMethodHandler2 goes on after an error, for lack of a return |
| rpc_datatypes.h:34 | MergeMetaData joins cookies without ";" |
| server_method.cc:33 | Cascade() does not pass input_cookie_; GetMethod() depends on the order of a hash table; a forwarded method gets an empty cookie; only the first cookie of an RPC reply is kept |
| webserver.cc:104 | a second request that is already in the buffer waits for more data; a POST without Content-Length has one byte |
| sharppoint.h:130 | fields are narrowed to char before their range is tested ("M257" is M1); M2d29 without a year is rejected |
| genericpoint.cc:41, sharppoint.cc:308 | a fuzzy search gives up after two trials; a search that starts in 1970 finds nothing |
| utime.h:141 and time zones | LastMidnight may be later than its argument; next_dst_boundary of Newfoundland, whose change is at 0:01; CheckDomain in the hour that is missing or doubled; a finite time in 1970 is the infinite past; SecondsSince1970 overflows after 2038; PrintShort of a negative duration |
| store.h:209 | iterator-- calls ++; leveldb's insert overwrites, against store.h:266; leveldb and sst iterators are equal only at the end; StlStore::find gives a live iterator, against stl_store.h:13; SstReader::find does not test Valid(); SstWriter writes inside an assert; StoreConverter::find may hold a null iterator; leveldb's begin() takes no lock |
| collection.h:129-162 | Insert_Mutable and Replace return pointers that are no member of the set |
| cities.h:27, :228 | MergeFrom's priorities differ from the comment; States::LookupByCode falls back on FIPS codes; lists are trimmed before duplicates go and before the filters of LookupByNameEx; no distance across 180 degrees; the orders by name are not strict weak |
| strutil.cc, strutil.h | signed char compared with ' '; UnescapeString_C reads past a trailing backslash and drops \u of 256 and more; incomplete UTF-8 at the end is lost; ReplaceAll of "" does not end; SplitStringNParts and JoinString drop empty parts; AppendDataToString counts negative beyond its limit; GetFixedWidthInteger; StripTags of an empty string; IsValidEmail reads the terminator's successor |
| CSV and field readers | booleans are written as 0/1 and read as true/false; odd quotes join lines; tabs skip empty fields; the last empty field is missing; '#' starts a comment |

## 4. Proofs

All results hold for every value of the constants that satisfies the `ASSUME` of
the module, which TLC evaluates in the runs.  The proofs stand at the end of the
component's module; those about the task server, the hooks, SimpleCacher and the
statistics at the end of `Process`, those about ProxyCache, GroupCache and the
suggest fan-out at the end of `Caches`.  The inductive invariants are defined
beside the component (`Inv`, and the parts it is a conjunction of).

**The queue** (`SharedQueue`, `SharedQueueConsumers`).

* `TypeCorrect`: `Spec => []TypeOK`.  Only a thread in consume_batch() is on the
  condition variable.
* `Fifo`: `Spec => []QueueIsSuffix`.  Inductive together with the type
  invariant; the lemma `CutFacts` says what cutting a prefix off a sequence
  leaves.
* `Drained`: `[]DrainedAtExit` for runs without spurious wake-ups, pops, flushes
  or forced ends (`OnlyConsumers`).  `DrainedAtExit` is not inductive: that no
  element is left when all consumers have ended follows only from what was true
  when the last one decided to end.  The strengthening `DrainInv` says that as
  long as elements are in the queue after the end of production some consumer
  is still on duty (`OnDuty`): it is in its loop and will take again before it
  can end.
* `OnceInOrder`: `[]CallsOnceInOrder` for any mixture of calls, with spurious
  wake-ups.  `HandsInv` adds that a consumer holds a batch only between
  consume_batch() and its storing, and that the batch, what was consumed and
  extracted, what was drained and what is still in the queue are disjoint and
  together are what was pushed.

**The thread pool** (`ThreadPool`).

* `SizeExact`: `[]PoolCounts`.  `size_` is the number of functions counted and
  not yet taken off again, at every step of Add, TryAdd and FuncHandler.
  `CountInv` adds who is in which half of Add and what the batch of a worker is.
* `WorkInvariant`: `[]WorkInv`.  Every function has one place (its caller, the
  queue, a worker's batch), and as long as there is one some worker is on duty
  for it, also while the destructor waits and functions add functions.
* `KeepsPromise`: `Spec => Promise!SafetySpec`, the safety half of the
  refinement of `TaskPool` that the run `pools` checks with its liveness: each
  step of queue, condition variables, counter and threads is a step of the
  promise or none.  It needs `WorkInv` for the end of the pool and `CountInv`
  for the return of Wait.

The last two assume `NoEarlyWakeup`, that a *worker's* wait does not end without
a notification (callers' waits may): the wait in consume_batch() is an `if`, and
a worker that wakes early to an empty queue while the pool is being destroyed
may leave a function behind.

**The task server** (`TaskServer`, proofs in `Process`).

* `OneRun`: `[]OneRunAtATime`, and `StatusTruthful`: `[]StatusSeesRun`.  Neither
  is inductive.  `TaskInv` adds what the flags mean: `locked_` is a lock with
  one holder (from test_and_set to the clear in wait()), `running_` is set while
  the holder is between its mark and its removal, and a function that runs
  belongs to the holder, whose future is still in `future_`.  The last part is
  what rules out that a thread of an older run, which reads `future_` after it
  has given the lock back, takes away the future of a run in progress: it can
  take only a finished one.  get() and run() are not synchronized: get() takes the state
  out of the future and then waits for it (`TakeState`, `GetResult`), and the
  invariant says that the future is the holder's or has been emptied by the
  get() of an older run.
* `HistoryTruthful`: `[]TaskHistory`.  The history holds a run iff fewer than
  MaxHistory runs started after it.  `HistInv` says that what was trimmed is
  older than everything kept; ends that come late find their entry or none.

**The hooks** (`InitExit`, proofs in `Process`).

* `HooksInOrder`: `[]HooksOrdered`, for any finite sets of hooks and of threads
  that quit, any priorities, groups and flags (`InitExitAssumption`).  That all
  lower priorities have returned is known only to the thread that waited for
  them, so `Inv` describes hooks by where the threads are: which hooks a thread
  has begun and which it has waited for (`Begun`, `Returned`).  A hook has been
  started by at most as many threads as have come past it (`StartsInv`), and one
  that a single thread can start is idle, started or done according to where
  that thread has come to (`InStep`, `StateInv`): main() for the init hooks, for
  the exit hooks whichever thread ends the process, as long as it is the only
  one (`Mine`, `Sole`).  `EndInv` then gives what is left when the process ends.
  That the next priority is the smallest one above the last uses that finite
  sets of integers have a minimum.

**SimpleCacher** (proofs in `Process`).

* `CacherIterators`: `[]CacherNoDangling`.  Between its two locks find() keeps
  nothing but the key, yet the second insertion of a key overwrites an iterator
  and leaves its node in the list, and a trim removes the entry of whatever key
  the last node has.  `Inv` adds that no two nodes have one address (`Distinct`)
  and that the nodes outnumber the entries by at most the insertions that found
  their key (`Counted`); without the second the bound on the overrun is not
  inductive.

**Statistics of logs** (`StatsUpdater`, proofs in `Process`).

* `StatsCounted`: `[]StatsExact`, with any number of files, days and runs and a
  crash between any two steps.  The property is about readable files while a run
  is in progress only in memory, so `JobInv` says the same of what the run has in
  memory at each of its stages: loaded (`Loaded`), decayed to the new timestamp
  but not yet counted (`Decayed`), ready to be written (`Kept`).  The reasons for
  which days may be missing or counted again are in the history `odd`, and each
  conjunct names those under which it does not hold; a run with the decay
  switched off is one of them.

**LRU lists** (`LRU`, `SharedLRUCache`).  The lemmas of `LRU` say what removal
(`WithoutAt`, `WithoutOrder`), insertion (`PutOrder`), moving to the front
(`TouchOrder`, `TouchLength`) do to the entries, their keys and their order, and
that a list with distinct keys is as long as it has keys (`DistinctCount`).

* `CacheCoherent`: `[]SharedCoherent`.  `ListInv` (distinct keys, bounded length,
  entries point to objects of their key, order by last use) and `HandleInv`
  (handles point to objects that exist) are inductive together; assignments
  through a delegate change objects' values and never their keys.

**ProxyCache** (proofs in `Caches`).

* `QueriesDoNotHerd`: `[]OneQueryPerKey`, for a cache of any size.  The mark that
  keeps others from asking is an entry of the list and can be evicted like any
  other; `orphaned` are the threads whose mark has gone, and they are what both
  properties except.  `FlightInv` ties each mark in the list to the one thread
  that computes the key and still has its mark.
* `AnswersStayFresh`: `Spec => ValuesFresh`, an invariant and an action
  property, for any size.  What is returned was asked for no longer ago than the
  lifetime, without exception; an older value replaces a newer one only when the
  thread that saves it has lost its mark.  It needs that the answer in the list
  began before the query of the key's owner (`FreshInv`, `AgeInv`).
* `AutoUsesProxy`: `AutoSpec => Spec`.  AutoProxyCache, with its queue of
  refreshes and its workers, makes only steps of ProxyCache, so both theorems
  hold of it.

**GroupCache** (proofs in `Caches`).

* `WritesAreKept`: `[]GroupKeepsWrites`, for any keys, any assignment of keys to
  groups, any limits, lifetimes and number of evictions at once
  (`GroupCacheAssumption`).  What a lookup would find now does not say what it
  will find after an eviction, so `Kept` speaks of both copies: in memory a
  cached group agrees with what was inserted last, its file does unless the
  group is dirty, a group that is not cached has nothing in memory, and one
  remembered as `file_not_found` has no file.  "Agrees" allows for expiry on
  either side, since expired entries go at different times from memory and file.
  With `DirtyCached` (no eviction drops an unwritten group) it is inductive.

**The fan-out of a suggest request** (`SuggestPool`, proofs in `Caches`).

* `CountersAreExact`: `[]CountersExact`, and `MergesWhole`: `AllSpec =>
  MergedWhole`, an action property.  For any finite sets of requests and of
  words, and any size of the pool (`SuggestPoolAssumption`).  `Inv` has one part
  for each thing that could go wrong: a counter is the number of its functions
  that have not notified it (`CountInv`), which needs that a group is run once
  (`StageInv`) and that the queue of the pool has each function once
  (`QueueInv`); after a wait that did not time out the required functions are
  done (`DoneInv`); the words' functions have ended when the frame that holds
  their counter is left (`WordsInv`), which is a wait without a timeout; and a
  response is marked successful only when it is complete (`SuccessInv`), which
  is what makes merging after a timeout safe.

**RPCServer.**

* `CountsExact`: `[]ServerCounts`.  `num_connections_` counts the open
  connections and stays within its limit, `num_pending_requests_` those in the
  works, and the usage table holds each running call once.  `CountInv` gives
  for each counter the set it counts, `UsageInv` that every id handed out is at
  most `max_id`, so that a new one is new.
* `ShutdownIsGraceful`: `Spec => GracefulShutdown` if the process has a thread
  besides main() and the connections' (`OtherThreads >= 1`), which the code
  takes for granted when it prints `num_threads - 2` as the pending ones: the
  countdown ends early only when no request lacks its reply.

### Only model-checked

* Liveness under fairness, and what rests on ENABLED: the liveness half of
  `ImplementsTaskPool`, `PoolEnds`, `BackgroundServes`, `RequestsAnswered`,
  `ShutdownEnds`, `QueueEnds`.
* Properties that join a safety part with such a liveness part, and have no
  theorem about the safety part: `RateKept` (whose arithmetic modulo the width
  of the word would need lemmas of its own), `HttpRepliesShared`,
  `MethodsServed`, `NetCallsAnswered`, `WriterEntriesReachFile`, `LogsFiltered`.
* What recursive definitions compute for every input, which needs induction
  over data: `ExchangeExact` (parsing of requests and replies) and all of
  `algorithms` (calendars, parsers, heaps, searches, indexes, texts).
* `Drained`, `WorkInvariant` and `KeepsPromise` say what holds without early
  wake-ups of the consumers; with them elements may be left behind, and what
  still still holds then is only in the runs with `Spurious`.

### Assumptions about the machine

* Memory is sequentially consistent, also for the flags that the code shares
  without synchronization: `response->success` of the suggest fan-out and
  `ready` of CachedHttp are plain `bool`s.
* A blocking write() of the server to a client returns (netserver.h:113 sets no
  timeout), and so do handlers and queries.
* A select() that is given the descriptor -1, because CloseMainSocket() came
  before it, returns; the flag that was set before then ends the accept loop.
* Erasing the last item of a heap writes one element past the end of the vector
  (ra_heap.h:60); the memory is taken to be there still.
* Nobody calls pop() of an empty SharedQueue, which does not test (the only
  caller, shared_queue_test.cc, has pushed an element before).

## 5. Not modelled

Third-party code, data files and test fixtures, build and cron scripts;
ThreadStack (signals every thread for its stack); the utility pools (ThreadPools
made at start-up) and thread helpers; Factory (registration before main());
entity data, airports and their parsers; geography, hashing, files, processes
(conversions, floating point, system calls); remote log channels (pure I/O); the
base library and flags, but for the flags that select hooks.

Within modelled components: the copy constructor of SharedLRUCache (it copies
iterators of the other list) and rehash, the preloaded mode of SimpleCacher
(read-only), copying of Tasks, the History request, log output and statistics
counters that influence nothing; the text of the server's pages, validation,
recording and the configuration of proxies; name lookup and SSL records; the
scores of the single suggest algorithms; the arithmetic of decay; a file torn by
a crash inside one write; the text around a snippet's words, whose context is
counted in words; the destruction of a GroupCache under its detached thread (the
caches live as long as the process); the astronomy of sun.cc, which is external,
as is leveldb.

## 6. What comes next

1. Theorems for the safety parts of `HttpRepliesShared` (CachedHttp),
   `WriterEntriesReachFile` (SharedWriter) and `RateKept`
   (RateLimitedSharedQueue), which have to be stated apart from the liveness
   they are checked with.
2. What still holds with early wake-ups: what is left behind is at most what
   came after the early wake-up.
3. Components that have no model yet, in section 5.
