-------------------------------- MODULE BestN --------------------------------
(***************************************************************************)
(* tl::RAHeap under any sequence of calls: a binary heap of items that     *)
(* know their position.  h.heap is heap_, h.index the member of the items  *)
(* that holds the position (positions count from 1), the largest item is   *)
(* at the top.  And tl::BestN over it, with std::less: the Capacity        *)
(* smallest items of a stream, one for each key.  GetBestN() empties the   *)
(* heap and leaves the map.                                                *)
(***************************************************************************)
EXTENDS Integers, FiniteSets, SequencesExt

\* swap_items().
Swap(h, p, q) ==
  [heap |-> [h.heap EXCEPT ![p] = h.heap[q], ![q] = h.heap[p]],
   index |-> [h.index EXCEPT ![h.heap[p]] = q, ![h.heap[q]] = p]]

RECURSIVE HeapifyUp(_, _, _)
HeapifyUp(h, val, p) ==
  IF p = 1 \/ val[h.heap[p \div 2]] >= val[h.heap[p]] THEN h
  ELSE HeapifyUp(Swap(h, p, p \div 2), val, p \div 2)

RECURSIVE HeapifyDown(_, _, _)
HeapifyDown(h, val, p) ==
  LET left == 2 * p
      right == 2 * p + 1
      child == IF right <= Len(h.heap) /\ val[h.heap[left]] < val[h.heap[right]]
               THEN right ELSE left IN
  IF left > Len(h.heap) \/ val[h.heap[p]] >= val[h.heap[child]] THEN h
  ELSE HeapifyDown(Swap(h, p, child), val, child)

\* insert().
HeapInsert(h, val, i) ==
  HeapifyUp([heap |-> Append(h.heap, i), index |-> [h.index EXCEPT ![i] = Len(h.heap) + 1]],
            val, Len(h.heap) + 1)

\* erase_at(): the last item takes the place and is moved down.  When the last
\* item is the one erased, heap_[p] is read behind the end of the vector after
\* pop_back(), which neither moves nor clears it: the item's position is set.
HeapEraseAt(h, val, p) ==
  LET last == h.heap[Len(h.heap)]
      rest == SubSeq([h.heap EXCEPT ![p] = last], 1, Len(h.heap) - 1) IN
  IF p > Len(h.heap) THEN h
  ELSE HeapifyDown([heap |-> rest, index |-> [h.index EXCEPT ![last] = p]], val, p)

HeapPop(h, val) == HeapEraseAt(h, val, 1)

\* update_at(): up, or else down.
HeapUpdateAt(h, val, p) ==
  LET up == HeapifyUp(h, val, p) IN
  IF p > Len(h.heap) THEN h ELSE IF up # h THEN up ELSE HeapifyDown(h, val, p)

\* No item is larger than the one above it.
Ordered(h, val) == \A p \in 2..Len(h.heap) : val[h.heap[p \div 2]] >= val[h.heap[p]]

\* The items know where they are.
Indexed(h) == \A p \in DOMAIN h.heap : h.index[h.heap[p]] = p

-----------------------------------------------------------------------------
CONSTANTS
  Keys,         \* the items of a heap, the keys of a BestN
  Values,
  Capacity      \* capacity_

VARIABLES
  h,       \* the heap, ra_heap_ of a BestN
  val,     \* what orders the items of a heap of its own
  erased,  \* history: an item below the top has been erased
  kv,      \* kv_map_: the data of the keys it has
  offer,   \* history: the best item offered for each key, or None
  res,     \* the last result of GetBestN()
  mode     \* history: "calls" of a heap of its own; of a BestN "fresh" until a
           \* GetBestN(), "read" until an insert() after it, "mixed", and
           \* "undefined" when worst() read a null pointer

bestVars == <<kv, offer, res, mode>>
vars == <<h, val, erased, bestVars>>

None == 1 + CHOOSE m \in Values : \A v \in Values : v <= m

Init ==
  /\ h = [heap |-> <<>>, index |-> [k \in Keys |-> 0]]
  /\ \/ mode = "calls" /\ val \in [Keys -> Values]
     \/ mode = "fresh" /\ val = <<>>
  /\ erased = FALSE /\ kv = <<>> /\ offer = [k \in Keys |-> None] /\ res = <<>>

-----------------------------------------------------------------------------
In == Range(h.heap)

push(i) == mode = "calls" /\ i \notin In /\ h' = HeapInsert(h, val, i) /\ UNCHANGED <<val, erased, bestVars>>
pop == mode = "calls" /\ h.heap # <<>> /\ h' = HeapPop(h, val) /\ UNCHANGED <<val, erased, bestVars>>
erase(i) ==
  /\ mode = "calls" /\ i \in In /\ h' = HeapEraseAt(h, val, h.index[i])
  /\ erased' = (erased \/ h.index[i] > 1) /\ UNCHANGED <<val, bestVars>>

\* The caller changes an item and calls update().
update(i, v) ==
  /\ mode = "calls" /\ i \in In /\ val' = [val EXCEPT ![i] = v]
  /\ h' = HeapUpdateAt(h, val', h.index[i])
  /\ UNCHANGED <<erased, bestVars>>

-----------------------------------------------------------------------------
Size == Cardinality(DOMAIN kv)
With(k, v) == [j \in DOMAIN kv \cup {k} |-> IF j = k THEN v ELSE kv[j]]
Drop(m, k) == [j \in DOMAIN m \ {k} |-> m[j]]

\* What every insert() records.
Offered(k, v) ==
  /\ offer' = [offer EXCEPT ![k] = IF v < @ THEN v ELSE @]
  /\ UNCHANGED <<res, val, erased>>

\* CheckAndUpdateExistingItem() of a known key.
UpdateKnown(k, v) ==
  /\ k \in DOMAIN kv
  /\ kv' = IF v < kv[k] THEN With(k, v) ELSE kv
  /\ h' = IF v < kv[k] THEN HeapUpdateAt(h, kv', h.index[k]) ELSE h

\* AddNewItem() below the capacity.
AddNewItem(k, v) ==
  /\ k \notin DOMAIN kv /\ Size < Capacity
  /\ kv' = With(k, v)
  /\ h' = HeapInsert(h, kv', k)

\* At the capacity: worst(), RemoveTopItem() and AddNewItem().
\* A bug: the test lets a worse item in.
Replaces_Worse(v, worst) == v # worst
Replaces(v, worst) == v < worst

ReplaceWorst(k, v) ==
  /\ k \notin DOMAIN kv /\ Size = Capacity /\ h.heap # <<>>
  /\ LET top == h.heap[1] IN
       IF Replaces(v, kv[top])
       THEN /\ kv' = Drop(With(k, v), top)
            /\ h' = HeapInsert(HeapPop(h, kv), [j \in Keys |->
                         IF j \in DOMAIN kv' THEN kv'[j] ELSE None], k)
       ELSE UNCHANGED <<kv, h>>

insert(k, v) ==
  /\ mode \notin {"calls", "undefined"}
  /\ \/ UpdateKnown(k, v) \/ AddNewItem(k, v) \/ ReplaceWorst(k, v)
  /\ Offered(k, v)
  /\ mode' = IF mode = "fresh" THEN "fresh" ELSE "mixed"

\* worst() of an empty heap: a null pointer is read.
insert_Null(k, v) ==
  /\ mode \notin {"calls", "undefined"} /\ k \notin DOMAIN kv /\ Size = Capacity /\ h.heap = <<>>
  /\ mode' = "undefined"
  /\ UNCHANGED <<kv, h, offer, res, val, erased>>

\* GetBestN(): RebuildHeap() in the order of the map when the heap is smaller
\* than the map, then everything is popped.
RebuildHeap ==
  FoldSeq(LAMBDA k, g : HeapInsert(g, kv, k), h, SetToSeq(DOMAIN kv))

RECURSIVE Popped(_, _)
Popped(g, out) ==
  IF g.heap = <<>> THEN out ELSE Popped(HeapPop(g, kv), <<kv[g.heap[1]]>> \o out)

GetBestN ==
  /\ mode \notin {"calls", "undefined"}
  /\ LET g == IF Len(h.heap) < Size THEN RebuildHeap ELSE h IN
       /\ res' = Popped(g, <<>>)
       /\ h' = [heap |-> <<>>, index |-> [k \in Keys |-> IF k \in Range(g.heap) THEN 1 ELSE g.index[k]]]
  /\ mode' = CASE mode = "mixed" -> "mixed" [] OTHER -> "read"
  /\ UNCHANGED <<kv, offer, val, erased>>

Next ==
  \/ pop \/ \E i \in Keys : push(i) \/ erase(i) \/ \E v \in Values : update(i, v)
  \/ GetBestN \/ \E k \in Keys, v \in Values : insert(k, v) \/ insert_Null(k, v)
Spec == Init /\ [][Next]_vars

-----------------------------------------------------------------------------
\* "Heapify downwords to fix the heap": the heap is ordered after every call, so
\* that the item at its top is the largest.
HeapOrdered == mode = "calls" => Ordered(h, val)

\* The same for the calls that BestN makes: push(), pop() and update().
OrderedUnerased == ~erased => HeapOrdered

\* The items in the heap know their positions: erase() and update() find them.
PositionsKnown == mode = "calls" => Indexed(h)

\* The number of keys with items below v, and of keys in the map below v.
Below(f, v) == Cardinality({k \in DOMAIN f : f[k] < v})
AtMost(n) == IF n < Capacity THEN n ELSE Capacity

\* "Maintains the best n items in a streaming model": below each value the map
\* has as many items as the best ones offered for the keys, up to the capacity.
KeepsBest == \A v \in Values \cup {None} : Below(kv, v) = AtMost(Below(offer, v))

\* As long as nothing is inserted after a GetBestN().
KeepsBestFresh == mode \in {"fresh", "read"} => KeepsBest

\* Then the heap has the keys of the map, ordered and with known positions.
HeapOfMap == mode = "fresh" =>
  /\ Range(h.heap) = DOMAIN kv /\ Len(h.heap) = Size
  /\ Indexed(h) /\ Ordered(h, kv)

\* And GetBestN() has every item of the map, the best first, each time it is called.
ResultSorted == mode = "read" =>
  /\ Len(res) = Size
  /\ \A i \in 1..Len(res) - 1 : res[i] <= res[i + 1]
  /\ \A v \in Values \cup {None} : Below(res, v) = Below(kv, v)
=============================================================================
