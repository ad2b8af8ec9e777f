---------------------------- MODULE Collections ----------------------------
(***************************************************************************)
(* UniqueCollection and Collection over MemoryBlock: objects are placed in *)
(* blocks that double in size, never moved, and destroyed all at once.     *)
(* The callers keep the pointers they get.  An address is <<block, place>>.*)
(***************************************************************************)
EXTENDS Integers, Sequences, FiniteSets, TLC

CONSTANTS
  Signatures, Contents,   \* of an object: what makes it unique, and the rest
  InitialSize, MaxBlock,  \* MaxBlock: 65536 in the code
  MaxObjects              \* bound: objects made between two calls of Clear()

VARIABLES
  unique,          \* a UniqueCollection, or a Collection
  block_size, partial_usage,
  obj,             \* the objects in memory: [address -> object]
  collection,      \* addresses; the order of an unordered set is that of insertion
  result           \* of the last call

vars == <<unique, block_size, partial_usage, obj, collection, result>>

Objects == [sig : Signatures, content : Contents]
Members == {collection[i] : i \in DOMAIN collection}
Null == <<>>

-----------------------------------------------------------------------------
\* The size of the next block.
NextBlockSize ==
  IF block_size = <<>> THEN InitialSize
  ELSE LET last == block_size[Len(block_size)] IN IF last < MaxBlock THEN last * 2 ELSE last

\* Alloc(), with Grow() when the last block is full.
Alloc ==
  IF block_size = <<>> \/ partial_usage >= block_size[Len(block_size)]
  THEN [sizes |-> Append(block_size, NextBlockSize), used |-> 1]
  ELSE [sizes |-> block_size, used |-> partial_usage + 1]

\* The objects that MemoryBlock::Clear() destroys, by the usage of each block.
Destroyed ==
  UNION {{<<i, j>> : j \in 1..(IF i = Len(block_size) THEN partial_usage ELSE block_size[i])} :
           i \in DOMAIN block_size}

-----------------------------------------------------------------------------
Init ==
  /\ unique \in BOOLEAN
  /\ block_size = <<>> /\ partial_usage = 0 /\ obj = <<>> /\ collection = <<>>
  /\ result = [op |-> "none"]

\* collection_.find(): by the signature.
LookupSig(sig) == LET S == {a \in Members : obj[a].sig = sig} IN
                  IF S = {} THEN Null ELSE CHOOSE a \in S : TRUE

\* What collection_ is after an insert of the object o at the address a.
Inserted(c, a, o) ==
  IF unique /\ \E i \in DOMAIN c : obj[c[i]].sig = o.sig THEN c ELSE Append(c, a)

Insert_Mutable(op, o) ==
  LET mem == Alloc
      a == <<Len(mem.sizes), mem.used>> IN
  /\ Cardinality(DOMAIN obj) < MaxObjects
  /\ block_size' = mem.sizes /\ partial_usage' = mem.used
  /\ obj' = (a :> o) @@ obj
  /\ collection' = Inserted(collection, a, o)
  /\ result' = [op |-> op, ptr |-> a, of |-> o, fresh |-> a \notin DOMAIN obj]
  /\ UNCHANGED unique

\* UniqueCollection::Store(): the object that is there, or a new one; a Collection
\* makes one in any case.
Store(o) ==
  LET a == IF unique THEN LookupSig(o.sig) ELSE Null IN
  \/ a = Null /\ Insert_Mutable("store", o)
  \/ /\ a # Null
     /\ result' = [op |-> "store", ptr |-> a, of |-> o, fresh |-> TRUE]
     /\ UNCHANGED <<unique, block_size, partial_usage, obj, collection>>

\* Insert() does not look: a second object of a signature is no member.
Insert(o) == unique /\ Insert_Mutable("insert", o)

\* The place of the old object is used again.
Replace(old, o) ==
  LET a == LookupSig(old)
      left == SelectSeq(collection, LAMBDA x : x # a) IN
  /\ unique
  /\ IF a = Null
     THEN result' = [op |-> "replace", ptr |-> Null] /\ UNCHANGED <<obj, collection>>
     ELSE /\ obj' = [obj EXCEPT ![a] = o]
          /\ collection' = Inserted(left, a, o)
          /\ result' = [op |-> "replace", ptr |-> a, of |-> o, new |-> \A x \in Members \ {a} : obj[x].sig # o.sig]
  /\ UNCHANGED <<unique, block_size, partial_usage>>

\* A caller writes through its pointer, not to the signature.
Mutate(a, content) ==
  /\ a \in DOMAIN obj /\ obj[a].content # content
  /\ obj' = [obj EXCEPT ![a].content = content]
  /\ result' = [op |-> "mutate"]
  /\ UNCHANGED <<unique, block_size, partial_usage, collection>>

Sort ==
  /\ ~unique /\ Len(collection) > 1
  /\ \E p \in Permutations(DOMAIN collection) :
       LET sorted == [i \in DOMAIN collection |-> collection[p[i]]] IN
       /\ \A i \in 1..Len(sorted) - 1 : obj[sorted[i]].sig <= obj[sorted[i + 1]].sig
       /\ collection' = sorted
  /\ result' = [op |-> "sort"]
  /\ UNCHANGED <<unique, block_size, partial_usage, obj>>

Clear ==
  /\ obj # <<>>
  /\ result' = [op |-> "clear", destroyed |-> Destroyed, made |-> DOMAIN obj]
  /\ block_size' = <<>> /\ partial_usage' = 0 /\ obj' = <<>> /\ collection' = <<>>
  /\ UNCHANGED unique

Next ==
  \/ \E o \in Objects : Store(o) \/ Insert(o)
  \/ \E old \in Signatures, o \in Objects : Replace(old, o)
  \/ \E a \in DOMAIN obj, content \in Contents : Mutate(a, content)
  \/ Sort \/ Clear

Spec == Init /\ [][Next]_vars

-----------------------------------------------------------------------------
\* "makes sure that no duplicate objects exist inside the collection", also when
\* an object is replaced by one that is there already; and the pointer that
\* Store() returns is the one member like the object asked for, as is that of
\* Replace() unless there was another.
NoDuplicates ==
  /\ unique => \A a, b \in Members : obj[a].sig = obj[b].sig => a = b
  /\ result.op = "store" => result.ptr \in Members /\ obj[result.ptr].sig = result.of.sig
  /\ (result.op = "replace" /\ result.ptr # Null) =>
       obj[result.ptr] = result.of /\ (result.ptr \in Members <=> result.new)

\* No object is placed over another one or outside of its block, so that pointers
\* stay good until Clear(), which destroys exactly the objects that were made.
PlacedOnce ==
  /\ result.op \in {"store", "insert"} => result.fresh
  /\ result.op = "clear" => result.destroyed = result.made
  /\ \A a \in DOMAIN obj : a[1] \in DOMAIN block_size /\ a[2] \in 1..block_size[a[1]]
  /\ Members \subseteq DOMAIN obj
  /\ ~unique => Members = DOMAIN obj /\ Len(collection) = Cardinality(DOMAIN obj)
=============================================================================
