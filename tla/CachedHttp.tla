----------------------------- MODULE CachedHttp -----------------------------
(***************************************************************************)
(* CachedHttpBase: threads that ask for the same page share one request.   *)
(* The first one owns the entry of the cache and fetches the page; the     *)
(* others poll the entry until it is ready or their timeout is over.  The  *)
(* cache is a SharedLRUCache, each call of which is one step.              *)
(***************************************************************************)
EXTENDS Integers, FiniteSets, SequencesExt

CONSTANTS
  Threads, Keys,
  CacheSize,      \* cache_size
  Lifetime,       \* cache_lifetime_sec
  Timeout,        \* timeout_ of the client, in rounds of poll_freq_ms
  MaxNow,         \* bound of the clock
  MaxEntries      \* bound: entries created

VARIABLES
  cache,   \* the LRU list, most recent first: [key, entry, tp]
  entry,   \* the CacheEntry objects ever created, with the time of their insert
  call,    \* for each thread: its place, key, entry, polls left and result
  now

vars == <<cache, entry, call, now>>

\* No variable leaves its range, and the cache has one entry for a key and at
\* most CacheSize.
TypeOK ==
  /\ \A i \in DOMAIN cache : cache[i] \in [key : Keys, entry : DOMAIN entry, tp : Nat]
  /\ Len(cache) <= CacheSize
  /\ \A i, j \in DOMAIN cache : cache[i].key = cache[j].key => i = j
  /\ \A e \in DOMAIN entry : entry[e] \in [key : Keys, born : 0..MaxNow, ready : BOOLEAN,
                                           success : BOOLEAN, filled : BOOLEAN]
  /\ call \in [Threads -> [at : {"idle", "fetch", "store", "publish", "erase", "poll"},
                           entry : 0..MaxEntries, since : 0..MaxNow, left : 0..Timeout,
                           result : {"none", "reply", "failed", "timeout"}]]
  /\ now \in 0..MaxNow

Init ==
  /\ cache = <<>> /\ entry = <<>> /\ now = 0
  /\ call = [t \in Threads |-> [at |-> "idle", entry |-> 0, since |-> 0, left |-> 0, result |-> "none"]]

Without(c, k) == SelectSeq(c, LAMBDA x : x.key # k)
Cached(k) == {i \in DOMAIN cache : cache[i].key = k}
Go(t, from, to) == call[t].at = from /\ call' = [call EXCEPT ![t].at = to]

\* GetIterator(): find() drops an expired entry, or moves the entry to the
\* front; insert() pushes the last entries out.
GetIterator_Hit(t, k) ==
  \E i \in Cached(k) :
    /\ cache[i].tp >= now
    /\ cache' = <<cache[i]>> \o Without(cache, k)
    /\ call' = [call EXCEPT ![t] = [at |-> "poll", entry |-> cache[i].entry,
                                    since |-> now, left |-> Timeout, result |-> "none"]]
    /\ UNCHANGED <<entry, now>>

Inserted(c) == SubSeq(c, 1, IF Len(c) < CacheSize THEN Len(c) ELSE CacheSize)

GetIterator_Own(t, k) ==
  LET e == Len(entry) + 1 IN
  /\ \A i \in Cached(k) : cache[i].tp < now
  /\ e <= MaxEntries
  /\ entry' = Append(entry, [key |-> k, born |-> now, ready |-> FALSE,
                             success |-> FALSE, filled |-> FALSE])
  /\ cache' = Inserted(<<[key |-> k, entry |-> e, tp |-> now + Lifetime]>> \o Without(cache, k))
  /\ call' = [call EXCEPT ![t] = [at |-> "fetch", entry |-> e, since |-> now,
                                  left |-> Timeout, result |-> "none"]]
  /\ UNCHANGED now

HttpGet(t, k) == call[t].at = "idle" /\ (GetIterator_Hit(t, k) \/ GetIterator_Own(t, k))

\* The owner: the request, the fields, ready, and a failed entry is erased.
Fetch(t) ==
  /\ Go(t, "fetch", "store")
  /\ \E ok \in BOOLEAN : entry' = [entry EXCEPT ![call[t].entry].success = ok]
  /\ UNCHANGED <<cache, now>>

Store(t) ==
  /\ Go(t, "store", "publish")
  /\ entry' = [entry EXCEPT ![call[t].entry].filled = TRUE]
  /\ UNCHANGED <<cache, now>>

\* The flag ready is a plain bool that waiting callers poll without a lock: that
\* the reply stored before it is seen with it is assumed of the build.
Publish(t) ==
  LET e == call[t].entry IN
  /\ call[t].at = "publish"
  /\ entry' = [entry EXCEPT ![e].ready = TRUE]
  /\ call' = [call EXCEPT ![t].at = IF entry[e].success THEN "idle" ELSE "erase",
                          ![t].result = IF entry[e].success THEN "reply" ELSE "failed"]
  /\ UNCHANGED <<cache, now>>

\* Cache().erase(key), without mutex(): whatever entry the key has by now.
\* A bug: a failed entry stays.
EraseFailed_Not(t) == Go(t, "erase", "idle") /\ UNCHANGED <<cache, entry, now>>
EraseFailed(t) ==
  /\ Go(t, "erase", "idle")
  /\ cache' = Without(cache, entry[call[t].entry].key)
  /\ UNCHANGED <<entry, now>>

\* The others: a round of poll_freq_ms, the end of the timeout, the reply.
Poll(t) ==
  /\ call[t].at = "poll" /\ ~entry[call[t].entry].ready
  /\ call' = IF call[t].left > 0 THEN [call EXCEPT ![t].left = @ - 1]
             ELSE [call EXCEPT ![t].at = "idle", ![t].result = "timeout"]
  /\ UNCHANGED <<cache, entry, now>>

ReadReply(t) ==
  /\ call[t].at = "poll" /\ entry[call[t].entry].ready
  /\ call' = [call EXCEPT ![t].at = "idle",
                          ![t].result = IF entry[call[t].entry].success THEN "reply" ELSE "failed"]
  /\ UNCHANGED <<cache, entry, now>>

Tick == now < MaxNow /\ now' = now + 1 /\ UNCHANGED <<cache, entry, call>>

InCall(t) == Store(t) \/ Publish(t) \/ EraseFailed(t) \/ Poll(t) \/ ReadReply(t)
Next == Tick \/ \E t \in Threads : Fetch(t) \/ InCall(t) \/ \E k \in Keys : HttpGet(t, k)

\* The threads are scheduled; nothing is assumed of the server of the page.
Fairness == \A t \in Threads : WF_vars(InCall(t))
Spec == Init /\ [][Next]_vars /\ Fairness

-----------------------------------------------------------------------------
\* A thread that is told of a success has the reply of a request that succeeded,
\* stored before it looked.
RepliesStored ==
  \A t \in Threads : call[t].result = "reply" =>
    LET e == entry[call[t].entry] IN e.success /\ e.filled /\ e.ready

\* Once its owner has returned, a failed entry is found by no later call.
NoFailureCached ==
  \A i \in DOMAIN cache : LET e == cache[i].entry IN
    entry[e].ready /\ ~entry[e].success =>
      \E t \in Threads : call[t].entry = e /\ call[t].at = "erase"

\* A reply from the cache was asked for at most the lifetime before the call.
FreshReply ==
  \A t \in Threads : call[t].result = "reply" =>
    call[t].since - entry[call[t].entry].born <= Lifetime

\* A thread that waits for the request of another one returns, also when that
\* request never ends.
PollsEnd == \A t \in Threads : call[t].at = "poll" ~> call[t].at = "idle"
=============================================================================
