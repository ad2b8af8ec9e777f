------------------------------- MODULE Stores -------------------------------
(***************************************************************************)
(* The stores behind one interface: StlStore over a map or an unordered    *)
(* map, LeveldbStore, SstWriter and SstReader, each of them also behind a  *)
(* StoreConverter.  Clients hold iterators, which are handles: a copy      *)
(* shares the implementation.  An iterator of leveldb reads a snapshot,    *)
(* one of StlStore the elements themselves.                                *)
(***************************************************************************)
EXTENDS Integers, Sequences, FiniteSetsExt, SequencesExt, TLC

CONSTANTS
  Kinds,        \* of "map", "hash", "leveldb", "writer"
  Keys,         \* the keys of the clients, numbers
  Values,
  StoreKey,     \* external: the key as the serializer writes it, for its order
  Clients,
  MaxIterators, \* bound: iterators made
  MaxWrites     \* bound: inserts and erasures

VARIABLES
  kind, converted,   \* the store, and whether it is behind a converter
  data,              \* its elements: [store key -> value]
  its,               \* the iterator implementations, never reused
  holds,             \* client -> the implementation it holds, 0 if none
  result,            \* the answer of the last call
  given,             \* history: the values inserted for each key of the
                     \* clients since it was last erased, in order
  writes

vars == <<kind, converted, data, its, holds, result, given, writes>>

End == 0

-----------------------------------------------------------------------------
\* DefaultConverter: the serializer does not keep the order.
is_ordered == ~converted
ConvertKey(k) == IF converted THEN StoreKey[k] ELSE k
ConvertBack(s) == IF converted THEN CHOOSE k \in Keys : StoreKey[k] = s ELSE s

\* What an iterator walks over: the elements, or those when it was made.
Snapshots == kind \in {"leveldb", "reader"}
Over(it) == IF Snapshots THEN it.over ELSE data

\* The order of iteration; that of an unordered map is any fixed one.
Follows(a, b) == IF kind = "hash" THEN a < b ELSE a > b
First(S) == IF S = {} THEN End ELSE CHOOSE x \in S : \A y \in S \ {x} : Follows(y, x)

\* leveldb's Seek(), and the bounds of a map.
Seek(k) == First({x \in DOMAIN data : x >= k})
SeekPast(k) == LET at == Seek(k) IN
               IF at = k THEN First({x \in DOMAIN data : x > k}) ELSE at

-----------------------------------------------------------------------------
Init ==
  /\ kind \in Kinds /\ converted \in BOOLEAN
  /\ data = <<>> /\ its = <<>> /\ holds = [c \in Clients |-> 0]
  /\ result = [op |-> "none"] /\ given = [k \in Keys |-> <<>>] /\ writes = 0

Write == writes < MaxWrites /\ writes' = writes + 1 /\ UNCHANGED <<kind, converted, holds>>

\* An insert into an unordered map may rehash it, which invalidates iterators.
Rehashed == IF kind = "hash" THEN BOOLEAN ELSE {FALSE}

\* leveldb puts the value in any case, the others only if there is none.
Succeeds(s) == kind = "leveldb" \/ s \notin DOMAIN data

Insert(k, v) ==
  LET s == ConvertKey(k)
      new == Succeeds(s) IN
  /\ kind # "reader" /\ Write /\ given' = [given EXCEPT ![k] = Append(@, v)]
  /\ data' = IF new THEN (s :> v) @@ data ELSE data
  /\ result' = [op |-> "insert", k |-> k, ok |-> new]
  /\ \E r \in Rehashed : its' = [i \in DOMAIN its |-> [its[i] EXCEPT !.dead = @ \/ (r /\ new)]]

\* The iterators at an erased element of a map refer to freed memory.
Removed(S) ==
  /\ data' = [x \in DOMAIN data \ S |-> data[x]]
  /\ its' = [i \in DOMAIN its |->
               [its[i] EXCEPT !.dead = @ \/ (~Snapshots /\ its[i].at \in S), !.present = @ \ S]]

Erase(k) ==
  /\ kind \in {"map", "hash", "leveldb"} /\ Write /\ given' = [given EXCEPT ![k] = <<>>]
  /\ result' = [op |-> "erase", ok |-> kind = "leveldb" \/ ConvertKey(k) \in DOMAIN data]
  /\ Removed({ConvertKey(k)})

Clear ==
  /\ kind \in {"map", "hash"} /\ Write /\ given' = [k \in Keys |-> <<>>]
  /\ result' = [op |-> "clear", ok |-> TRUE]
  /\ Removed(DOMAIN data)

\* The destructor of the writer writes the table; then a reader opens it.
Close ==
  /\ kind = "writer"
  /\ kind' = "reader" /\ result' = [op |-> "close"]
  /\ UNCHANGED <<converted, data, its, holds, given, writes>>

-----------------------------------------------------------------------------
\* A new implementation for the client c.  History: what it has seen, and the
\* elements that are present since it was made.
Make(c, op, k, at) ==
  /\ kind # "writer" /\ Len(its) < MaxIterators
  /\ its' = Append(its, [at |-> at, over |-> IF Snapshots THEN data ELSE <<>>,
                         cache |-> IF at = End THEN <<>> ELSE <<at, data[at]>>,
                         dead |-> FALSE, op |-> op, present |-> DOMAIN data,
                         seen |-> IF at = End THEN <<>> ELSE <<at>>])
  /\ holds' = [holds EXCEPT ![c] = Len(its) + 1]
  /\ result' = [op |-> op, k |-> k, at |-> at]
  /\ UNCHANGED <<kind, converted, data, given, writes>>

\* The bounds are not supported by an unordered map or a converter of keys.
NotSupported(op) ==
  /\ kind # "writer"
  /\ result' = [op |-> op, supported |-> FALSE]
  /\ UNCHANGED <<kind, converted, data, its, holds, given, writes>>

Find(c, k) ==
  LET s == ConvertKey(k) IN Make(c, "find", k, IF s \in DOMAIN data THEN s ELSE End)

Begin(c) == Make(c, "begin", 0, First(DOMAIN data))

LowerBound(c, k) ==
  IF is_ordered /\ kind # "hash" THEN Make(c, "lower", k, Seek(ConvertKey(k)))
  ELSE NotSupported("lower")

UpperBound(c, k) ==
  IF is_ordered /\ kind # "hash" THEN Make(c, "upper", k, SeekPast(ConvertKey(k)))
  ELSE NotSupported("upper")

CopyIterator(c, d) ==
  /\ c # d /\ holds[d] # 0 /\ holds[c] # holds[d]
  /\ holds' = [holds EXCEPT ![c] = holds[d]]
  /\ result' = [op |-> "copy"]
  /\ UNCHANGED <<kind, converted, data, its, given, writes>>

Renewed(it, next) == IF next = End THEN it.cache ELSE <<next, Over(it)[next]>>

\* The client has just compared the iterator with end(); at the end the cache
\* keeps the last element.
Advance(c) ==
  LET it == its[holds[c]]
      next == First({x \in DOMAIN Over(it) : Follows(x, it.at)}) IN
  /\ holds[c] # 0 /\ it.at # End /\ ~it.dead
  /\ its' = [its EXCEPT ![holds[c]] =
       [@ EXCEPT !.at = next, !.cache = Renewed(it, next), !.seen = IF next = End THEN @ ELSE Append(@, next)]]
  /\ result' = [op |-> "++", ok |-> next # End]
  /\ UNCHANGED <<kind, converted, data, holds, given, writes>>

\* operator-- of the handle calls operator++ of the implementation.
Back(c) == Advance(c)

Next ==
  \/ \E k \in Keys, v \in Values : Insert(k, v)
  \/ \E k \in Keys : Erase(k)
  \/ Clear \/ Close
  \/ \E c \in Clients, k \in Keys : Find(c, k) \/ LowerBound(c, k) \/ UpperBound(c, k)
  \/ \E c \in Clients : Begin(c) \/ Advance(c) \/ Back(c)
  \/ \E c, d \in Clients : CopyIterator(c, d)

Spec == Init /\ [][Next]_vars

-----------------------------------------------------------------------------
\* The element an iterator shows: a copy of it, or the element itself.
Shown(it) == IF Snapshots \/ converted THEN it.cache ELSE <<it.at, data[it.at]>>

\* "Insert should only succeed if there is no existing element with the same key":
\* so do maps and writers of tables, which keep the first value they are given,
\* also in the table that is read later; leveldb replaces it, and keeps the last.
\* A key is found if it has a value.
InsertsKept ==
  /\ \A k \in Keys :
       IF given[k] = <<>> THEN ConvertKey(k) \notin DOMAIN data
       ELSE /\ ConvertKey(k) \in DOMAIN data
            /\ data[ConvertKey(k)] = IF kind = "leveldb" THEN Last(given[k]) ELSE Head(given[k])
  /\ result.op = "insert" => (result.ok <=> kind = "leveldb" \/ Len(given[result.k]) = 1)
  /\ result.op = "find" => result.at = IF given[result.k] = <<>> THEN End ELSE ConvertKey(result.k)

\* "Upper bound seeks the first key that is greater than k": in terms of the
\* clients' keys, also through a converter, wherever the call is supported.
BoundsExact ==
  LET user == {ConvertBack(s) : s \in DOMAIN data}
      least(S) == IF S = {} THEN End ELSE ConvertKey(Min(S)) IN
  CASE result.op = "lower" /\ "at" \in DOMAIN result -> result.at = least({k \in user : k >= result.k})
    [] result.op = "upper" /\ "at" \in DOMAIN result -> result.at = least({k \in user : k > result.k})
    [] OTHER -> TRUE

\* An iterator shows the element it is at, as it was when the iterator got there,
\* whatever other clients and the copies of the iterator do, unless the element
\* of a map is erased under it.
ShowsElement ==
  \A i \in DOMAIN its : its[i].at # End /\ ~its[i].dead =>
    LET it == its[i] IN
    /\ it.at \in DOMAIN Over(it)
    /\ Shown(it) = <<it.at, Over(it)[it.at]>>

\* From begin() to end(): no element twice, each in its order, all that a snapshot
\* holds, and of the live elements those that were there all the time.
IterationWhole ==
  \A i \in DOMAIN its :
    LET it == its[i]
        seen == {it.seen[k] : k \in DOMAIN it.seen} IN
    /\ \A k \in 1..Len(it.seen) - 1 : Follows(it.seen[k + 1], it.seen[k])
    /\ (it.op = "begin" /\ it.at = End /\ ~it.dead) =>
         IF Snapshots THEN seen = DOMAIN it.over ELSE it.present \subseteq seen
=============================================================================
