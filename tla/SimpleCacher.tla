----------------------------- MODULE SimpleCacher -----------------------------
(***************************************************************************)
(* util/store/cache/simple_cacher.h in its mode "cache some": lookups of   *)
(* an underlying store are cached, the unsuccessful ones too.  mutex_ is   *)
(* released while the store is asked, so two threads may miss on one key   *)
(* and both insert it.  list_ is a sequence of nodes; cache_ maps a key to *)
(* the node its list_iter points to.                                       *)
(***************************************************************************)
EXTENDS Naturals, Sequences, FiniteSets

CONSTANTS
  Keys, Threads,
  NoKey,      \* not asking
  Present,    \* external: the keys of the underlying store
  CacheSize,  \* cache_size_
  MaxMisses   \* bound: lookups of the underlying store

SimpleCacherAssumption ==
  /\ Present \subseteq Keys
  /\ NoKey \notin Keys
  /\ CacheSize \in Nat
  /\ MaxMisses \in Nat

VARIABLES
  list,    \* list_: a sequence of [key, id], the front first
  cache,   \* cache_: a set of [key, id, end]
  asking,  \* the key a thread asks the store for, with mutex_ released
  misses,  \* lookups of the store so far
  twice    \* history: insertions of a key that was in cache_ already

vars == <<list, cache, asking, misses, twice>>

(* What the variables may hold; cache_ has one entry for a key.            *)
TypeOK ==
  /\ list \in Seq([key : Keys, id : Nat])
  /\ cache \subseteq [key : Keys, id : Nat, end : BOOLEAN]
  /\ \A c, d \in cache : c.key = d.key => c = d
  /\ asking \in [Threads -> Keys \cup {NoKey}]
  /\ misses \in 0 .. MaxMisses
  /\ twice \in Nat

Init ==
  /\ list = <<>>
  /\ cache = {}
  /\ asking = [t \in Threads |-> NoKey]
  /\ misses = 0
  /\ twice = 0

Cached(k) == {c \in cache : c.key = k}

Nodes == {list[i] : i \in 1 .. Len(list)}

(* The address of a new node: that of an erased node may be used again.    *)
NewId == CHOOSE n \in 1 .. Len(list) + 1 : \A m \in Nodes : m.id # n

(* list_.erase(it->second.list_iter)                                       *)
Position(id) == CHOOSE i \in 1 .. Len(list) : list[i].id = id
Erased(i) == [j \in 1 .. Len(list) - 1 |-> IF j < i THEN list[j] ELSE list[j + 1]]

(* it->second.list_iter = list_.begin()                                    *)
Moved(c) == [c EXCEPT !.id = NewId]

(* find() hits: the element moves into a new node at the front, its old    *)
(* node is erased, the entry points to the new one.                        *)
Hit(t, k) ==
  /\ asking[t] = NoKey
  /\ \E c \in Cached(k) :
       /\ list' = <<[key |-> k, id |-> NewId]>> \o Erased(Position(c.id))
       /\ cache' = (cache \ {c}) \cup {Moved(c)}
  /\ UNCHANGED <<asking, misses, twice>>

(* find() misses: mutex_ is released and the store is asked.               *)
Miss(t, k) ==
  /\ asking[t] = NoKey
  /\ Cached(k) = {}
  /\ misses < MaxMisses
  /\ misses' = misses + 1
  /\ asking' = [asking EXCEPT ![t] = k]
  /\ UNCHANGED <<list, cache, twice>>

(* cache_.insert keeps an entry that is there.                             *)
Added(k, id) ==
  IF Cached(k) = {} THEN cache \cup {[key |-> k, id |-> id, end |-> k \notin Present]}
  ELSE cache

(* The list's last element is popped, its cache_ entry is left behind.     *)
Evicted_ListOnly(c, last) == c

(* cache_.erase of the last element: the entry of its key goes, whichever  *)
(* node it points to.                                                      *)
Evicted(c, last) == {d \in c : d.key # last.key}

(* cache_.size() > cache_size_                                             *)
Full(c) == Cardinality(c) > CacheSize

(* The store has answered and mutex_ is taken again: the result goes to    *)
(* the front, and one element goes from the back if there are too many.    *)
Answer(t) ==
  /\ asking[t] # NoKey
  /\ LET k == asking[t]
         l == <<[key |-> k, id |-> NewId]>> \o list
         c == Added(k, NewId)
     IN  /\ list' = IF Full(c) THEN SubSeq(l, 1, Len(l) - 1) ELSE l
         /\ cache' = IF Full(c) THEN Evicted(c, l[Len(l)]) ELSE c
         /\ twice' = IF Cached(k) = {} THEN twice ELSE twice + 1
  /\ asking' = [asking EXCEPT ![t] = NoKey]
  /\ UNCHANGED misses

Next == \E t \in Threads : (\E k \in Keys : Hit(t, k) \/ Miss(t, k)) \/ Answer(t)

Spec == Init /\ [][Next]_vars

-----------------------------------------------------------------------------
(* The iterator of every entry points to a node that is in the list and    *)
(* holds the entry's key: the next hit and the next eviction are defined,  *)
(* whatever duplicates the unlocked lookups have left in the list.         *)
NoDangling == \A c \in cache : [key |-> c.key, id |-> c.id] \in Nodes

(* The list has at most one element too many for every insertion of a key  *)
(* that another thread had inserted meanwhile.                             *)
OverrunBounded == Len(list) <= CacheSize + twice

(* What the proof of the two needs: no two nodes have one address, and an  *)
(* element too many comes from an insertion that found its key.            *)
Distinct == \A i, j \in 1 .. Len(list) : list[i].id = list[j].id => i = j
Counted == IsFiniteSet(cache) /\ Len(list) <= Cardinality(cache) + twice
Inv == TypeOK /\ Distinct /\ NoDangling /\ Counted /\ OverrunBounded

(* "We have a fixed cache size", says the comment, and that holds only for *)
(* lookups that never race.                                                *)
FixedSize == Cardinality(cache) <= CacheSize
=============================================================================
