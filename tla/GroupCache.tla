------------------------------ MODULE GroupCache ------------------------------
(***************************************************************************)
(* GroupCache: groups of entries kept in files, the recently used ones in  *)
(* memory.  Calls run under the mutex, each as a sequence of changes to    *)
(* the cache; the threads that evict groups and flush(prob) release it in  *)
(* between.  An entry is the time at which it was inserted; 0 is no entry. *)
(***************************************************************************)
EXTENDS Integers, Sequences, FiniteSets, SequencesExt

CONSTANTS
  Keys, Groups, Grouper,  \* default_grouper_: the group of a key
  MaxGroups,              \* policy_.max_cache_size
  MaxLife,                \* policy_.max_life, in seconds
  Second,                 \* microseconds in a second
  IntSize,                \* number of values of an int
  MaxNow,                 \* bound of the clock
  MaxEvictors             \* bound of the threads of AdjustSize()

VARIABLES
  cache,     \* list_ with cache_, the entries, dirty_, file_not_found_, the files
  now,       \* Now()
  evictors,  \* threads of AdjustSize(): before the test of the size, after it
  flushing,  \* flush(prob): groups still to flush, in a set; none when idle
  last       \* for every key, the entry last inserted and not erased

vars == <<cache, now, evictors, flushing, last>>

GroupCacheAssumption ==
  /\ Grouper \in [Keys -> Groups]
  /\ MaxGroups \in Nat /\ MaxEvictors \in Nat /\ MaxNow \in Nat \ {0}
  /\ MaxLife \in Nat /\ Second \in Nat /\ IntSize \in Nat \ {0}

In(g) == {k \in Keys : Grouper[k] = g}
Cached(s) == ToSet(s.list)

\* Types, and at most one place for a group in the list (the assertions on the
\* sizes of list_ and cache_).
TypeOK ==
  /\ cache \in [list : Seq(Groups), mem : [Keys -> 0..MaxNow], disk : [Keys -> 0..MaxNow],
                dirty : SUBSET Groups, file_not_found : SUBSET Groups]
  /\ IsInjective(cache.list)
  /\ now \in 1..MaxNow /\ last \in [Keys -> 0..MaxNow]
  /\ evictors \in [test : 0..MaxEvictors, evict : 0..MaxEvictors]
  /\ evictors.test + evictors.evict <= MaxEvictors
  /\ flushing \in SUBSET SUBSET Groups

Init ==
  /\ cache = [list |-> <<>>, mem |-> [k \in Keys |-> 0], disk |-> [k \in Keys |-> 0],
              dirty |-> {}, file_not_found |-> {}]
  /\ now = 1 /\ last = [k \in Keys |-> 0]
  /\ evictors = [test |-> 0, evict |-> 0]
  /\ flushing = {}

-----------------------------------------------------------------------------
\* The methods called with the mutex held.

\* The product is an int; compared with an unsigned difference, a negative one
\* becomes larger than any age.
Limit == LET half == IntSize \div 2 IN ((MaxLife * Second + half) % IntSize) - half
IsExpired(t) == MaxLife > 0 /\ Limit >= 0 /\ now - t > Limit

GetOrCreateCacheEntry(s, g) ==
  LET at == CHOOSE i \in DOMAIN s.list : s.list[i] = g
  IN  [s EXCEPT !.list = <<g>> \o (IF g \in Cached(s) THEN RemoveAt(@, at) ELSE @)]

SetDirty(s, g) == [s EXCEPT !.dirty = @ \cup {g}]

\* ReadGroup(): a group that is known to have no file is not looked for; an
\* expired entry is left out and makes the group dirty.
ReadGroup(s, g) ==
  LET there == {k \in In(g) : s.disk[k] # 0}
      expired == {k \in there : IsExpired(s.disk[k])}
      read == [GetOrCreateCacheEntry(s, g) EXCEPT
                 !.mem = [k \in Keys |-> IF k \in there \ expired THEN s.disk[k] ELSE @[k]]]
  IN  IF g \in s.file_not_found THEN s
      ELSE IF there = {} THEN [s EXCEPT !.file_not_found = @ \cup {g}]
      ELSE IF expired # {} THEN SetDirty(read, g) ELSE read

Loaded(s, g) == IF g \in Cached(s) THEN s ELSE ReadGroup(s, g)

\* Mutant of WriteGroup: the file may be there now, but is not looked for.
WriteGroup_StillNotFound(s, gs) ==
  [s EXCEPT !.disk = [k \in Keys |-> IF Grouper[k] \notin gs THEN @[k]
                                     ELSE IF IsExpired(s.mem[k]) THEN 0 ELSE s.mem[k]]]

\* WriteGroup() of the groups gs, which have no entry in common: the entries
\* that have not expired; without any the file is removed.
WriteGroup(s, gs) ==
  [s EXCEPT !.disk = [k \in Keys |-> IF Grouper[k] \notin gs THEN @[k]
                                     ELSE IF IsExpired(s.mem[k]) THEN 0 ELSE s.mem[k]],
            !.file_not_found = @ \ gs]

FlushGroup(s, gs) == [WriteGroup(s, gs \cap s.dirty) EXCEPT !.dirty = @ \ gs]

FlushAll(s) == [FlushGroup(s, s.dirty) EXCEPT !.file_not_found = {}]

\* cache_ without the groups gs; rest is what stays in list_.
Drop(s, gs, rest) == [s EXCEPT !.list = rest,
                               !.mem = [k \in Keys |-> IF Grouper[k] \in gs THEN 0 ELSE @[k]]]

\* AdjustSize(): a thread of its own evicts what is too much.
AdjustSize(s) ==
  IF MaxGroups > 0 /\ Len(s.list) > MaxGroups
  THEN /\ evictors.test + evictors.evict < MaxEvictors
       /\ evictors' = [evictors EXCEPT !.test = @ + 1]
  ELSE UNCHANGED evictors

-----------------------------------------------------------------------------
\* The calls.

Inserted(k) ==
  [GetOrCreateCacheEntry(SetDirty(Loaded(cache, Grouper[k]), Grouper[k]), Grouper[k])
     EXCEPT !.mem[k] = now]

Insert(k) ==
  /\ now < MaxNow
  /\ cache' = Inserted(k) /\ AdjustSize(Inserted(k))
  /\ last' = [last EXCEPT ![k] = now]
  /\ now' = now + 1
  /\ UNCHANGED flushing

\* erase(): the only call that may leave too many groups without a thread to
\* evict them.
Erase(k) ==
  /\ cache' = SetDirty([GetOrCreateCacheEntry(Loaded(cache, Grouper[k]), Grouper[k])
                          EXCEPT !.mem[k] = 0], Grouper[k])
  /\ last' = [last EXCEPT ![k] = 0]
  /\ UNCHANGED <<now, evictors, flushing>>

\* find() of some keys of a group: expired entries are removed.  It returns at
\* once if there is no such group.
Found(g, ks) ==
  LET s == Loaded(cache, g)
      expired == {k \in ks : s.mem[k] # 0 /\ IsExpired(s.mem[k])}
      t == [GetOrCreateCacheEntry(s, g) EXCEPT
              !.mem = [k \in Keys |-> IF k \in expired THEN 0 ELSE @[k]]]
  IN  IF g \notin Cached(s) THEN s ELSE IF expired # {} THEN SetDirty(t, g) ELSE t

Find(g) ==
  /\ \E ks \in SUBSET In(g) \ {{}} :
       /\ cache' = Found(g, ks)
       /\ IF g \in Cached(Found(g, ks)) THEN AdjustSize(Found(g, ks)) ELSE UNCHANGED evictors
  /\ UNCHANGED <<now, flushing, last>>

Flush == cache' = FlushAll(cache) /\ UNCHANGED <<now, evictors, flushing, last>>

Clear == cache' = Drop(FlushAll(cache), Groups, <<>>) /\ UNCHANGED <<now, evictors, flushing, last>>

\* flush(prob): the groups are chosen under the mutex, each is flushed under
\* the mutex, and at last file_not_found_ is cleared without it.
FlushSome ==
  /\ flushing = {} /\ \E gs \in SUBSET cache.dirty : flushing' = {gs}
  /\ UNCHANGED <<cache, now, evictors, last>>

FlushOne ==
  /\ \E gs \in flushing : \E g \in gs : /\ cache' = FlushGroup(cache, {g})
                                        /\ flushing' = {gs \ {g}}
  /\ UNCHANGED <<now, evictors, last>>

FlushSomeEnds ==
  /\ flushing = {{}} /\ flushing' = {}
  /\ cache' = [cache EXCEPT !.file_not_found = {}]
  /\ UNCHANGED <<now, evictors, last>>

\* The destructor flushes, and another cache starts on the files.  (A thread
\* of AdjustSize() that is still there would use the destroyed cache.)
Restart ==
  /\ evictors = [test |-> 0, evict |-> 0] /\ flushing = {}
  /\ cache' = [Drop(FlushAll(cache), Groups, <<>>) EXCEPT !.dirty = {}, !.file_not_found = {}]
  /\ UNCHANGED <<now, evictors, flushing, last>>

\* A thread of AdjustSize() tests the size without the mutex.
EvictTest ==
  /\ evictors.test > 0
  /\ evictors' = [test |-> evictors.test - 1,
                  evict |-> evictors.evict + IF Len(cache.list) > MaxGroups THEN 1 ELSE 0]
  /\ UNCHANGED <<cache, now, flushing, last>>

\* With the mutex, it removes the group used least recently, even if another
\* thread has made room since the test.
Evict ==
  /\ evictors.evict > 0
  /\ evictors' = [test |-> evictors.test + 1, evict |-> evictors.evict - 1]
  /\ cache' = IF cache.list = <<>> THEN cache
              ELSE LET g == Last(cache.list) IN Drop(FlushGroup(cache, {g}), {g}, Front(cache.list))
  /\ UNCHANGED <<now, flushing, last>>

Tick == now < MaxNow /\ now' = now + 1 /\ UNCHANGED <<cache, evictors, flushing, last>>

Next ==
  \/ \E k \in Keys : Insert(k) \/ Erase(k)
  \/ \E g \in Groups : Find(g)
  \/ Flush \/ Clear \/ FlushSome \/ FlushOne \/ FlushSomeEnds
  \/ Restart \/ EvictTest \/ Evict \/ Tick

Spec == Init /\ [][Next]_vars /\ WF_vars(EvictTest) /\ WF_vars(Evict)

-----------------------------------------------------------------------------
\* Whatever is evicted, flushed, cleared or restarted in between, a lookup
\* finds the entry last inserted, unless it was erased or has expired
\* (group_cache.h:200-219).
NoLostWrite ==
  \A k \in Keys :
    LET t == Loaded(cache, Grouper[k]).mem[k]
        live == last[k] # 0 /\ ~IsExpired(last[k])
    IN  IF live THEN t = last[k] ELSE t = 0 \/ IsExpired(t)

\* A dirty group is in memory: the assertion of FlushGroup() holds
\* (group_cache.h:377-386).
DirtyCached == cache.dirty \subseteq Cached(cache)

\* What the proof of these needs.  An entry is as it should be: the last one
\* inserted or, when that has expired or was erased, none or an expired one.
Agrees(t, l) == IF l # 0 /\ ~IsExpired(l) THEN t = l ELSE t = 0 \/ IsExpired(t)

\* The entries in memory are as they should be, and those of a file unless the
\* group is dirty; a group that is not in memory has none there, and one that
\* is not looked for has none on disk.
Kept ==
  \A k \in Keys : LET g == Grouper[k] IN
    /\ IF g \in Cached(cache) THEN Agrees(cache.mem[k], last[k]) ELSE cache.mem[k] = 0
    /\ g \notin cache.dirty => Agrees(cache.disk[k], last[k])
    /\ g \in cache.file_not_found => cache.disk[k] = 0

Inv == TypeOK /\ DirtyCached /\ Kept

\* Once a thread of AdjustSize() runs, the number of groups comes back to the
\* limit (group_cache.h:479-493).
SizeShrinks == evictors.test > 0 ~> Len(cache.list) <= MaxGroups
=============================================================================
