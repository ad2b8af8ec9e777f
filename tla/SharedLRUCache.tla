---------------------------- MODULE SharedLRUCache ----------------------------
(***************************************************************************)
(* util/cache/shared_lru_cache.h and the threads that use it.  An entry    *)
(* points to a reference counted object that holds key and value; find()   *)
(* and operator[] give out that pointer.  Assigning through operator[]     *)
(* writes into the object without the lock and then inserts a copy.        *)
(***************************************************************************)
EXTENDS LRU, TLC

CONSTANTS
  Keys, Values, Threads,
  Default,     \* V()
  MaxSize,     \* max_size_
  Lifetime,    \* lifetime_, when expire_ is set
  Expire,      \* expire_
  MaxObjects,  \* bound: objects created
  MaxTime      \* bound: clock ticks

ASSUME SharedLRUAssumption ==
  /\ Default \notin Values
  /\ MaxSize \in Nat \ {0} /\ Lifetime \in Nat
  /\ Expire \in BOOLEAN
  /\ MaxObjects \in Nat /\ MaxTime \in Nat

VARIABLES
  lru,     \* list_ and map_: entries [key, obj, tp]
  object,  \* the objects ever created, a sequence of [key, val]
  handle,  \* the object a thread holds an iterator or a delegate to, or 0
  seen,    \* history: its value when the thread got the handle
  pc,      \* "idle", "iterator", "delegate", "written" (inside delegate =)
  now,     \* clock_type::now()
  older    \* history: per key, the keys last found or inserted before it was

vars == <<lru, object, handle, seen, pc, now, older>>

Symmetry == Permutations(Keys) \cup Permutations(Threads)

Entries == [key : Keys, obj : Nat, tp : 0 .. MaxTime + Lifetime]
Objects == [key : Keys, val : Values \cup {Default}]

(* What every variable may hold.                                           *)
TypeOK ==
  /\ lru \in Seq(Entries)
  /\ object \in Seq(Objects)
  /\ handle \in [Threads -> 0 .. Len(object)]
  /\ seen \in [Threads -> Values \cup {Default}]
  /\ pc \in [Threads -> {"idle", "iterator", "delegate", "written"}]
  /\ now \in 0 .. MaxTime
  /\ older \in [Keys -> SUBSET Keys]

Init ==
  /\ lru = <<>>
  /\ object = <<>>
  /\ handle = [t \in Threads |-> 0]
  /\ seen = [t \in Threads |-> Default]
  /\ pc = [t \in Threads |-> "idle"]
  /\ now = 0
  /\ older = [k \in Keys |-> {}]

(* k is used: now all others were last used before it.                     *)
Used(k) == older' = [j \in Keys |-> IF j = k THEN Keys \ {k} ELSE older[j] \ {k}]

(* insert(v, tp): a new object, and an entry that points to it.            *)
InsertCopy(k, v, tp) ==
  /\ Len(object) < MaxObjects
  /\ object' = Append(object, [key |-> k, val |-> v])
  /\ lru' = Put(lru, [key |-> k, obj |-> Len(object) + 1, tp |-> tp], MaxSize)
  /\ Used(k)

(* The time an entry lives until if the caller gives none.                 *)
DefaultExpiry == IF Expire THEN now + Lifetime ELSE 0

(* A caller's insert(); the time point is its own or was computed from a   *)
(* clock read before the lock was taken.                                   *)
Insert(k, v) ==
  /\ \E tp \in 0 .. DefaultExpiry : InsertCopy(k, v, tp)
  /\ UNCHANGED <<handle, seen, pc, now>>

Erase(k) ==
  /\ k \in KeysIn(lru)
  /\ lru' = Without(lru, k)
  /\ UNCHANGED <<object, handle, seen, pc, now, older>>

Clear ==
  /\ lru' = <<>>
  /\ UNCHANGED <<object, handle, seen, pc, now, older>>

Expired(k) == k \in KeysIn(lru) /\ Expire /\ EntryOf(lru, k).tp < now

(* A hit does not move the entry to the front.                             *)
Hit_NoTouch(t, k, p) ==
  /\ k \in KeysIn(lru) /\ ~Expired(k)
  /\ lru' = lru
  /\ handle' = [handle EXCEPT ![t] = EntryOf(lru, k).obj]
  /\ seen' = [seen EXCEPT ![t] = object[EntryOf(lru, k).obj].val]
  /\ pc' = [pc EXCEPT ![t] = p]
  /\ Used(k)
  /\ UNCHANGED object

(* find() hits; the thread gets a pointer to the entry's own object.       *)
Hit(t, k, p) ==
  /\ k \in KeysIn(lru) /\ ~Expired(k)
  /\ lru' = Touch(lru, k)
  /\ handle' = [handle EXCEPT ![t] = EntryOf(lru, k).obj]
  /\ seen' = [seen EXCEPT ![t] = object[EntryOf(lru, k).obj].val]
  /\ pc' = [pc EXCEPT ![t] = p]
  /\ Used(k)
  /\ UNCHANGED object

(* find() misses; an expired entry is removed on the way.                  *)
Miss(k) ==
  /\ k \notin KeysIn(lru) \/ Expired(k)
  /\ lru' = Without(lru, k)
  /\ UNCHANGED older

Find(t, k) ==
  /\ pc[t] = "idle"
  /\ \/ Hit(t, k, "iterator")
     \/ Miss(k) /\ UNCHANGED <<object, handle, seen, pc>>
  /\ UNCHANGED now

(* operator[]: on a miss a new object that is not in the cache.            *)
Bracket(t, k) ==
  /\ pc[t] = "idle"
  /\ \/ Hit(t, k, "delegate")
     \/ /\ Miss(k)
        /\ Len(object) < MaxObjects
        /\ object' = Append(object, [key |-> k, val |-> Default])
        /\ handle' = [handle EXCEPT ![t] = Len(object) + 1]
        /\ seen' = [seen EXCEPT ![t] = Default]
        /\ pc' = [pc EXCEPT ![t] = "delegate"]
  /\ UNCHANGED now

(* delegate::operator=, first half: the shared object is overwritten.      *)
AssignWrite(t, v) ==
  /\ pc[t] = "delegate"
  /\ object' = [object EXCEPT ![handle[t]].val = v]
  /\ pc' = [pc EXCEPT ![t] = "written"]
  /\ UNCHANGED <<lru, handle, seen, now, older>>

(* Second half: a copy of the object is inserted.                          *)
AssignInsert(t) ==
  /\ pc[t] = "written"
  /\ InsertCopy(object[handle[t]].key, object[handle[t]].val, DefaultExpiry)
  /\ handle' = [handle EXCEPT ![t] = 0]
  /\ seen' = [seen EXCEPT ![t] = Default]
  /\ pc' = [pc EXCEPT ![t] = "idle"]
  /\ UNCHANGED now

(* The iterator or the delegate is dropped.                                *)
Drop(t) ==
  /\ pc[t] \in {"iterator", "delegate"}
  /\ handle' = [handle EXCEPT ![t] = 0]
  /\ seen' = [seen EXCEPT ![t] = Default]
  /\ pc' = [pc EXCEPT ![t] = "idle"]
  /\ UNCHANGED <<lru, object, now, older>>

Tick ==
  /\ now < MaxTime
  /\ now' = now + 1
  /\ UNCHANGED <<lru, object, handle, seen, pc, older>>

Next ==
  \/ \E k \in Keys, v \in Values : Insert(k, v)
  \/ \E k \in Keys : Erase(k)
  \/ Clear
  \/ \E t \in Threads :
       \/ \E k \in Keys : Find(t, k) \/ Bracket(t, k)
       \/ \E v \in Values : AssignWrite(t, v)
       \/ AssignInsert(t)
       \/ Drop(t)
  \/ Tick

Spec == Init /\ [][Next]_vars

-----------------------------------------------------------------------------
(* The cache never holds more than max_size_ entries, nor two entries of   *)
(* one key, nor an object of another key.                                  *)
Coherent ==
  /\ Len(lru) <= MaxSize
  /\ Cardinality(KeysIn(lru)) = Len(lru)
  /\ \A i \in 1 .. Len(lru) :
       lru[i].obj \in 1 .. Len(object) /\ object[lru[i].obj].key = lru[i].key

(* The list is in the order of the last uses: what insert() evicts is what *)
(* nobody has looked up or inserted for the longest time.                  *)
RecencyOrder ==
  \A i, j \in 1 .. Len(lru) : i < j => lru[j].key \in older[lru[i].key]

(* The cache holds at most max_size_ entries, one of a key, with an object *)
(* of that key, in the order of their last uses (shared_lru_cache.h).      *)
SharedCoherent == TypeOK /\ Coherent /\ RecencyOrder

(* An iterator "effectively holds a ref counted copy of the data": its     *)
(* value does not change while it is held.  Assignment through operator[]  *)
(* breaks this.                                                            *)
IteratorHoldsCopy ==
  \A t \in Threads : pc[t] = "iterator" => object[handle[t]].val = seen[t]

-----------------------------------------------------------------------------
(* Proofs, for any keys, values, threads and sizes.                        *)

(* Every entry points to an object of its key.                             *)
Pointed == \A e \in EntriesIn(lru) : e.obj \in 1 .. Len(object) /\ object[e.obj].key = e.key

ListInv ==
  /\ lru \in Seq(Entries) /\ Distinct(lru) /\ Len(lru) <= MaxSize
  /\ Pointed
  /\ older \in [Keys -> SUBSET Keys]
  /\ RecencyOrder

(* The objects, and the handles that threads hold to them.                 *)
HandleInv ==
  /\ object \in Seq(Objects)
  /\ handle \in [Threads -> 0 .. Len(object)]
  /\ seen \in [Threads -> Values \cup {Default}]
  /\ pc \in [Threads -> {"idle", "iterator", "delegate", "written"}]
  /\ now \in 0 .. MaxTime
  /\ \A t \in Threads : pc[t] # "idle" => handle[t] # 0

(* What steps do to the objects: none goes away or changes its key.        *)
Grows ==
  /\ Len(object') \in Nat /\ Len(object') >= Len(object)
  /\ \A o \in 1 .. Len(object) : object'[o].key = object[o].key

(* Entries that stay keep pointing to an object of their key.              *)
LEMMA PointedStays ==
  ASSUME Pointed, Len(object) \in Nat, Grows, NEW e \in EntriesIn(lru)
  PROVE  e.obj \in 1 .. Len(object') /\ object'[e.obj].key = e.key
  <1>1. e.obj \in 1 .. Len(object) /\ object[e.obj].key = e.key
    BY DEF Pointed
  <1> QED
    BY <1>1 DEF Grows

(* The new order is that of the last uses, if the key that was used is in  *)
(* front and the others are in their old order.                            *)
LEMMA UsedOrder ==
  ASSUME ListInv, NEW k \in Keys, Used(k), lru' \in Seq(Entries),
         \A i, j \in 1 .. Len(lru') : i < j =>
           lru'[j].key # k /\ (lru'[i].key = k \/ (lru'[i].key # k /\ Kept(lru', lru, i, j)))
  PROVE  RecencyOrder' /\ older' \in [Keys -> SUBSET Keys]
  <1>1. older' = [j \in Keys |-> IF j = k THEN Keys \ {k} ELSE older[j] \ {k}]
    BY DEF Used
  <1>2. older' \in [Keys -> SUBSET Keys]
    BY <1>1 DEF ListInv
  <1>3. SUFFICES ASSUME NEW i \in 1 .. Len(lru'), NEW j \in 1 .. Len(lru'), i < j
                 PROVE  lru'[j].key \in older'[lru'[i].key]
    BY <1>2 DEF RecencyOrder
  <1>4. /\ lru'[j].key # k
        /\ lru'[i].key = k \/ (lru'[i].key # k /\ Kept(lru', lru, i, j))
    BY <1>3
  <1>5. lru'[i] \in Entries /\ lru'[j] \in Entries
    OBVIOUS
  <1>6. lru'[i].key \in Keys /\ lru'[j].key \in Keys
    BY <1>5 DEF Entries
  <1>7. CASE lru'[i].key = k
    BY <1>1, <1>4, <1>6, <1>7
  <1>8. CASE lru'[i].key # k
    <2>1. PICK a \in 1 .. Len(lru), b \in 1 .. Len(lru) :
            a < b /\ lru[a] = lru'[i] /\ lru[b] = lru'[j]
      BY <1>4, <1>8 DEF Kept
    <2>2. lru[b].key \in older[lru[a].key]
      BY <2>1 DEF ListInv, RecencyOrder
    <2> QED
      BY <1>1, <1>4, <1>6, <1>8, <2>1, <2>2
  <1> QED
    BY <1>7, <1>8

(* erase(), clear(), and steps that leave the list alone.                  *)
LEMMA Removed ==
  ASSUME ListInv, Len(object) \in Nat, Grows, older' = older, NEW k,
         lru' = lru \/ lru' = Without(lru, k) \/ lru' = <<>>
  PROVE  ListInv'
  <1>0. Len(lru) \in Nat /\ MaxSize \in Nat
    BY SharedLRUAssumption DEF ListInv, SharedLRUAssumption
  <1>1. /\ lru' \in Seq(Entries) /\ Distinct(lru') /\ EntriesIn(lru') \subseteq EntriesIn(lru)
        /\ Len(lru') <= Len(lru)
        /\ \A i, j \in 1 .. Len(lru') : i < j => Kept(lru', lru, i, j)
    <2>1. CASE lru' = lru
      BY <1>0, <2>1 DEF ListInv, Kept
    <2>2. CASE lru' = <<>>
      <3>1. lru' \in Seq(Entries) /\ Len(lru') = 0
        BY <2>2
      <3> QED
        BY <1>0, <3>1 DEF Distinct, EntriesIn
    <2>3. CASE lru' = Without(lru, k)
      <3>1. lru \in Seq(Entries) /\ Distinct(lru)
        BY DEF ListInv
      <3>2. /\ lru' \in Seq(Entries) /\ Distinct(lru')
            /\ EntriesIn(lru') = {e \in EntriesIn(lru) : e.key # k}
        BY <2>3, <3>1, WithoutFacts
      <3>3. Len(lru') <= Len(lru)
        <4>1. CASE k \in KeysIn(lru)
          BY <1>0, <2>3, <3>1, <4>1, WithoutAt
        <4>2. CASE k \notin KeysIn(lru)
          BY <1>0, <2>3, <4>2 DEF Without
        <4> QED
          BY <4>1, <4>2
      <3>4. \A i, j \in 1 .. Len(lru') : i < j => Kept(lru', lru, i, j)
        BY <2>3, <3>1, WithoutOrder
      <3> QED
        BY <3>2, <3>3, <3>4
    <2> QED
      BY <2>1, <2>2, <2>3
  <1>2. Pointed'
    BY <1>1, PointedStays DEF ListInv, Pointed
  <1>3. RecencyOrder'
    <2>1. SUFFICES ASSUME NEW i \in 1 .. Len(lru'), NEW j \in 1 .. Len(lru'), i < j
                   PROVE  lru'[j].key \in older[lru'[i].key]
      BY DEF RecencyOrder
    <2>2. PICK a \in 1 .. Len(lru), b \in 1 .. Len(lru) :
            a < b /\ lru[a] = lru'[i] /\ lru[b] = lru'[j]
      BY <1>1, <2>1 DEF Kept
    <2>3. lru[b].key \in older[lru[a].key]
      BY <2>2 DEF ListInv, RecencyOrder
    <2> QED
      BY <2>2, <2>3
  <1>4. Len(lru') \in Nat /\ Len(lru') <= MaxSize
    BY <1>0, <1>1 DEF ListInv
  <1> QED
    BY <1>1, <1>2, <1>3, <1>4 DEF ListInv

(* insert() of an entry that points to an object of its key.               *)
LEMMA Inserted ==
  ASSUME ListInv, Len(object) \in Nat, Grows, NEW e \in Entries,
         e.obj \in 1 .. Len(object'), object'[e.obj].key = e.key,
         Used(e.key), lru' = Put(lru, e, MaxSize)
  PROVE  ListInv'
  <1>1. lru \in Seq(Entries) /\ Distinct(lru) /\ MaxSize \in Nat \ {0} /\ e.key \in Keys
    BY SharedLRUAssumption DEF ListInv, SharedLRUAssumption, Entries
  <1>2. /\ lru' \in Seq(Entries) /\ Distinct(lru') /\ Len(lru') <= MaxSize
        /\ EntriesIn(lru') \subseteq {x \in EntriesIn(lru) : x.key # e.key} \cup {e}
    BY <1>1, PutFacts
  <1>3. \A i, j \in 1 .. Len(lru') : i < j =>
          /\ lru'[j].key # e.key
          /\ lru'[i] = e \/ (lru'[i].key # e.key /\ Kept(lru', lru, i, j))
    BY <1>1, PutOrder
  <1>4. RecencyOrder' /\ older' \in [Keys -> SUBSET Keys]
    BY <1>1, <1>2, <1>3, UsedOrder
  <1>5. Pointed'
    <2>1. ASSUME NEW x \in EntriesIn(lru')
          PROVE  x.obj \in 1 .. Len(object') /\ object'[x.obj].key = x.key
      <3>1. x = e \/ x \in EntriesIn(lru)
        BY <1>2
      <3>2. CASE x \in EntriesIn(lru)
        BY <3>2, PointedStays DEF ListInv
      <3> QED
        BY <3>1, <3>2
    <2> QED
      BY <2>1 DEF Pointed
  <1> QED
    BY <1>2, <1>4, <1>5 DEF ListInv

(* find() of a key that is there.                                          *)
LEMMA Found ==
  ASSUME ListInv, Len(object) \in Nat, Grows, NEW k \in KeysIn(lru), k \in Keys,
         Used(k), lru' = Touch(lru, k)
  PROVE  ListInv'
  <1>1. lru \in Seq(Entries) /\ Distinct(lru)
    BY DEF ListInv
  <1>2. /\ lru' \in Seq(Entries) /\ Distinct(lru') /\ EntriesIn(lru') = EntriesIn(lru)
        /\ Len(lru') = Len(lru)
    BY <1>1, TouchFacts, TouchLength
  <1>3. \A i, j \in 1 .. Len(lru') : i < j =>
          /\ lru'[j].key # k
          /\ lru'[i].key = k \/ (lru'[i].key # k /\ Kept(lru', lru, i, j))
    BY <1>1, TouchOrder
  <1>4. RecencyOrder' /\ older' \in [Keys -> SUBSET Keys]
    BY <1>2, <1>3, UsedOrder
  <1>5. Pointed'
    BY <1>2, PointedStays DEF ListInv, Pointed
  <1> QED
    BY <1>2, <1>4, <1>5 DEF ListInv

(* A new object at the end, and a new value in an object.                  *)
LEMMA Appended ==
  ASSUME object \in Seq(Objects), NEW o \in Objects, object' = Append(object, o)
  PROVE  /\ object' \in Seq(Objects) /\ Grows /\ Len(object') = Len(object) + 1
         /\ object'[Len(object) + 1] = o
  BY DEF Grows

LEMMA Written ==
  ASSUME object \in Seq(Objects), NEW h \in 1 .. Len(object), NEW v \in Values,
         object' = [object EXCEPT ![h].val = v]
  PROVE  object' \in Seq(Objects) /\ Grows /\ Len(object') = Len(object)
  <1>1. object[h] \in Objects
    OBVIOUS
  <1> DEFINE o == [object[h] EXCEPT !.val = v]
  <1>2. o \in Objects /\ o.key = object[h].key
    BY <1>1 DEF Objects
  <1>3. object' = [object EXCEPT ![h] = o]
    OBVIOUS
  <1> HIDE DEF o
  <1>4. object' \in Seq(Objects) /\ Len(object') = Len(object)
    BY <1>2, <1>3
  <1>5. \A x \in 1 .. Len(object) : object'[x] = IF x = h THEN o ELSE object[x]
    BY <1>3
  <1>6. \A x \in 1 .. Len(object) : object'[x].key = object[x].key
    BY <1>2, <1>5, Zenon
  <1> QED
    BY <1>4, <1>6 DEF Grows

(* The handle of one thread changes, while objects only grow.              *)
LEMMA HandleStep ==
  ASSUME HandleInv, object' \in Seq(Objects), Grows, now' \in 0 .. MaxTime,
         NEW t \in Threads, NEW h \in 0 .. Len(object'), NEW v \in Values \cup {Default},
         NEW p \in {"idle", "iterator", "delegate", "written"}, p # "idle" => h # 0,
         handle' = [handle EXCEPT ![t] = h], seen' = [seen EXCEPT ![t] = v],
         pc' = [pc EXCEPT ![t] = p]
  PROVE  HandleInv'
  <1>1. Len(object) \in Nat /\ \A x \in Threads : handle[x] \in 0 .. Len(object')
    BY DEF HandleInv, Grows
  <1>2. handle' \in [Threads -> 0 .. Len(object')]
    BY <1>1 DEF HandleInv
  <1>3. seen' \in [Threads -> Values \cup {Default}]
    BY DEF HandleInv
  <1>4. pc' \in [Threads -> {"idle", "iterator", "delegate", "written"}]
    BY DEF HandleInv
  <1>5. \A x \in Threads : pc'[x] # "idle" => handle'[x] # 0
    BY DEF HandleInv
  <1> QED
    BY <1>2, <1>3, <1>4, <1>5 DEF HandleInv

(* No handle changes.                                                      *)
LEMMA HandleStays ==
  ASSUME HandleInv, object' \in Seq(Objects), Grows, now' \in 0 .. MaxTime,
         UNCHANGED <<handle, seen, pc>>
  PROVE  HandleInv'
  <1>1. Len(object) \in Nat /\ \A x \in Threads : handle[x] \in 0 .. Len(object')
    BY DEF HandleInv, Grows
  <1>2. handle' \in [Threads -> 0 .. Len(object')]
    BY <1>1 DEF HandleInv
  <1> QED
    BY <1>2 DEF HandleInv

(* A hit gives a handle to an object that there is.                        *)
LEMMA HitStep ==
  ASSUME ListInv, HandleInv, NEW t \in Threads, NEW k \in Keys,
         NEW p \in {"iterator", "delegate"}, Hit(t, k, p), now' = now
  PROVE  ListInv' /\ HandleInv'
  <1> DEFINE e == EntryOf(lru, k)
  <1>1. k \in KeysIn(lru) /\ lru' = Touch(lru, k) /\ Used(k) /\ object' = object
    BY DEF Hit
  <1>2. e \in EntriesIn(lru)
    BY <1>1, PositionFacts
  <1>3. e.obj \in 1 .. Len(object) /\ object \in Seq(Objects)
    BY <1>2 DEF ListInv, Pointed, HandleInv
  <1>4. object[e.obj] \in Objects
    BY <1>3
  <1>5. object[e.obj].val \in Values \cup {Default}
    BY <1>4 DEF Objects
  <1>6. Len(object) \in Nat /\ Grows
    BY <1>1, <1>3 DEF Grows
  <1>7. /\ handle' = [handle EXCEPT ![t] = e.obj]
        /\ seen' = [seen EXCEPT ![t] = object[e.obj].val]
        /\ pc' = [pc EXCEPT ![t] = p]
    BY DEF Hit
  <1> HIDE DEF e
  <1>8. ListInv'
    BY <1>1, <1>6, Found
  <1>9. e.obj \in 0 .. Len(object') /\ e.obj # 0 /\ now' \in 0 .. MaxTime /\ object' \in Seq(Objects)
    BY <1>1, <1>3 DEF HandleInv
  <1>10. p \in {"idle", "iterator", "delegate", "written"}
    OBVIOUS
  <1>11. HandleInv'
    BY <1>5, <1>6, <1>7, <1>9, <1>10, HandleStep
  <1> QED
    BY <1>8, <1>11

(* An insertion makes an object of its own.                                *)
LEMMA InsertStep ==
  ASSUME ListInv, HandleInv, NEW k \in Keys,
         NEW v \in Values \cup {Default}, NEW tp \in 0 .. MaxTime + Lifetime, InsertCopy(k, v, tp)
  PROVE  ListInv' /\ object' \in Seq(Objects) /\ Grows /\ Len(object) \in Nat
  <1> DEFINE o == [key |-> k, val |-> v]
             e == [key |-> k, obj |-> Len(object) + 1, tp |-> tp]
  <1>1. object \in Seq(Objects) /\ Len(object) \in Nat
    BY DEF HandleInv
  <1>2. o \in Objects /\ o.key = k
    BY DEF Objects
  <1>3. e \in Entries /\ e.key = k /\ e.obj = Len(object) + 1
    BY <1>1 DEF Entries
  <1>4. object' = Append(object, o) /\ lru' = Put(lru, e, MaxSize) /\ Used(k)
    BY DEF InsertCopy
  <1> HIDE DEF o, e
  <1>5. /\ object' \in Seq(Objects) /\ Grows /\ Len(object') = Len(object) + 1
        /\ object'[Len(object) + 1] = o
    BY <1>1, <1>2, <1>4, Appended
  <1>6. e.obj \in 1 .. Len(object') /\ object'[e.obj].key = e.key
    BY <1>1, <1>2, <1>3, <1>5
  <1>7. Used(e.key)
    BY <1>3, <1>4
  <1>8. ListInv'
    BY <1>1, <1>3, <1>4, <1>5, <1>6, <1>7, Inserted
  <1> QED
    BY <1>1, <1>5, <1>8

(* Every step keeps list and objects coherent.                             *)
LEMMA CacheStep ==
  ASSUME ListInv, HandleInv, [Next]_vars
  PROVE  ListInv' /\ HandleInv'
  <1>1. object \in Seq(Objects) /\ Len(object) \in Nat /\ now \in 0 .. MaxTime
    BY DEF HandleInv
  <1>2. MaxTime \in Nat /\ Lifetime \in Nat /\ DefaultExpiry \in 0 .. MaxTime + Lifetime
    BY <1>1, SharedLRUAssumption DEF SharedLRUAssumption, DefaultExpiry
  <1>3. ASSUME object' = object PROVE Grows /\ object' \in Seq(Objects)
    BY <1>1, <1>3 DEF Grows
  <1>4. ASSUME NEW k \in Keys, NEW v \in Values, Insert(k, v) PROVE ListInv' /\ HandleInv'
    <2>1. PICK tp \in 0 .. DefaultExpiry : InsertCopy(k, v, tp)
      BY <1>4 DEF Insert
    <2>2. tp \in 0 .. MaxTime + Lifetime
      BY <1>2
    <2>3. ListInv' /\ object' \in Seq(Objects) /\ Grows
      BY <2>1, <2>2, InsertStep
    <2> QED
      BY <1>1, <1>4, <2>3, HandleStays DEF Insert
  <1>5. ASSUME NEW k \in Keys, Erase(k) PROVE ListInv' /\ HandleInv'
    BY <1>1, <1>3, <1>5, Removed, HandleStays DEF Erase
  <1>6. CASE Clear
    BY <1>1, <1>3, <1>6, Removed, HandleStays DEF Clear
  <1>7. ASSUME NEW t \in Threads, NEW k \in Keys, Find(t, k) PROVE ListInv' /\ HandleInv'
    <2>1. CASE Hit(t, k, "iterator")
      BY <1>7, <2>1, HitStep DEF Find
    <2>2. CASE Miss(k) /\ UNCHANGED <<object, handle, seen, pc>>
      BY <1>1, <1>3, <1>7, <2>2, Removed, HandleStays DEF Find, Miss
    <2> QED
      BY <1>7, <2>1, <2>2 DEF Find
  <1>8. ASSUME NEW t \in Threads, NEW k \in Keys, Bracket(t, k) PROVE ListInv' /\ HandleInv'
    <2>1. CASE Hit(t, k, "delegate")
      BY <1>8, <2>1, HitStep DEF Bracket
    <2>2. CASE /\ Miss(k) /\ object' = Append(object, [key |-> k, val |-> Default])
               /\ handle' = [handle EXCEPT ![t] = Len(object) + 1]
               /\ seen' = [seen EXCEPT ![t] = Default]
               /\ pc' = [pc EXCEPT ![t] = "delegate"]
      <3> DEFINE o == [key |-> k, val |-> Default]
      <3>1. o \in Objects
        BY DEF Objects
      <3>2. object' \in Seq(Objects) /\ Grows /\ Len(object') = Len(object) + 1
        BY <1>1, <2>2, <3>1, Appended
      <3>3. ListInv'
        BY <1>1, <2>2, <3>2, Removed DEF Miss
      <3>4. Len(object) + 1 \in 0 .. Len(object') /\ Len(object) + 1 # 0 /\ now' \in 0 .. MaxTime
        BY <1>1, <1>8, <3>2 DEF Bracket
      <3>5. HandleInv'
        BY <2>2, <3>2, <3>4, HandleStep
      <3> QED
        BY <3>3, <3>5
    <2> QED
      BY <1>8, <2>1, <2>2 DEF Bracket
  <1>9. ASSUME NEW t \in Threads, NEW v \in Values, AssignWrite(t, v) PROVE ListInv' /\ HandleInv'
    <2>1. handle[t] \in 1 .. Len(object)
      <3>1. handle[t] \in 0 .. Len(object) /\ handle[t] # 0
        BY <1>9 DEF AssignWrite, HandleInv
      <3> QED
        BY <1>1, <3>1
    <2>2. object' \in Seq(Objects) /\ Grows /\ Len(object') = Len(object)
      BY <1>1, <1>9, <2>1, Written DEF AssignWrite
    <2>3. ListInv'
      BY <1>1, <1>9, <2>2, Removed DEF AssignWrite
    <2>4. /\ handle' = [handle EXCEPT ![t] = handle[t]] /\ seen' = [seen EXCEPT ![t] = seen[t]]
          /\ pc' = [pc EXCEPT ![t] = "written"] /\ now' \in 0 .. MaxTime
          /\ seen[t] \in Values \cup {Default} /\ handle[t] \in 0 .. Len(object') /\ handle[t] # 0
      BY <1>1, <1>9, <2>1, <2>2 DEF AssignWrite, HandleInv
    <2>5. HandleInv'
      BY <2>2, <2>4, HandleStep
    <2> QED
      BY <2>3, <2>5
  <1>10. ASSUME NEW t \in Threads, AssignInsert(t) PROVE ListInv' /\ HandleInv'
    <2>1. handle[t] \in 1 .. Len(object)
      <3>1. handle[t] \in 0 .. Len(object) /\ handle[t] # 0
        BY <1>10 DEF AssignInsert, HandleInv
      <3> QED
        BY <1>1, <3>1
    <2>2. object[handle[t]] \in Objects
      BY <1>1, <2>1
    <2>3. object[handle[t]].key \in Keys /\ object[handle[t]].val \in Values \cup {Default}
      BY <2>2 DEF Objects
    <2>4. ListInv' /\ object' \in Seq(Objects) /\ Grows
      BY <1>2, <1>10, <2>3, InsertStep DEF AssignInsert
    <2>5. 0 \in 0 .. Len(object') /\ now' \in 0 .. MaxTime
      BY <1>1, <1>10, <2>4 DEF AssignInsert, Grows
    <2>6. HandleInv'
      BY <1>10, <2>4, <2>5, HandleStep DEF AssignInsert
    <2> QED
      BY <2>4, <2>6
  <1>11. ASSUME NEW t \in Threads, Drop(t) PROVE ListInv' /\ HandleInv'
    <2>1. ListInv'
      BY <1>1, <1>3, <1>11, Removed DEF Drop
    <2>2. 0 \in 0 .. Len(object') /\ now' \in 0 .. MaxTime
      BY <1>1, <1>11 DEF Drop
    <2>3. HandleInv'
      BY <1>3, <1>11, <2>2, HandleStep DEF Drop
    <2> QED
      BY <2>1, <2>3
  <1>12. CASE Tick
    <2>1. now' \in 0 .. MaxTime
      BY <1>1, <1>2, <1>12 DEF Tick
    <2> QED
      BY <1>1, <1>3, <1>12, <2>1, Removed, HandleStays DEF Tick
  <1>13. CASE UNCHANGED vars
    BY <1>1, <1>3, <1>13, Removed, HandleStays DEF vars
  <1> QED
    BY <1>4, <1>5, <1>6, <1>7, <1>8, <1>9, <1>10, <1>11, <1>12, <1>13 DEF Next

(* However threads mix insert(), erase(), find(), clear(), operator[] and  *)
(* the unlocked assignments through it: the cache holds at most max_size_  *)
(* entries, one of a key, each with an object of that key, and in the      *)
(* order of their last uses, so that insert() evicts the least recently    *)
(* used one (shared_lru_cache.h:89-150).                                   *)
THEOREM CacheCoherent == Spec => []SharedCoherent
  <1>1. Init => ListInv /\ HandleInv
    <2> SUFFICES ASSUME Init PROVE ListInv /\ HandleInv
      OBVIOUS
    <2>1. lru \in Seq(Entries) /\ Len(lru) = 0 /\ object \in Seq(Objects) /\ Len(object) = 0
      BY DEF Init
    <2>2. ListInv
      BY <2>1, SharedLRUAssumption DEF Init, ListInv, Distinct, Pointed, EntriesIn, RecencyOrder, SharedLRUAssumption
    <2>3. HandleInv
      BY <2>1, SharedLRUAssumption DEF Init, HandleInv, SharedLRUAssumption
    <2> QED
      BY <2>2, <2>3
  <1>2. ListInv /\ HandleInv /\ [Next]_vars => (ListInv /\ HandleInv)'
    BY CacheStep
  <1>3. ListInv /\ HandleInv => SharedCoherent
    <2> SUFFICES ASSUME ListInv, HandleInv PROVE SharedCoherent
      OBVIOUS
    <2>1. TypeOK /\ RecencyOrder
      BY DEF ListInv, HandleInv, TypeOK
    <2>2. Cardinality(KeysIn(lru)) = Len(lru)
      BY DistinctCount DEF ListInv
    <2>3. Coherent
      BY <2>2 DEF ListInv, Pointed, Coherent, EntriesIn
    <2> QED
      BY <2>1, <2>3 DEF SharedCoherent
  <1> QED
    BY <1>1, <1>2, <1>3, PTL DEF Spec

=============================================================================
