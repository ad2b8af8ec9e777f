---------------------------- MODULE StringIndex ----------------------------
(***************************************************************************)
(* Indexes on string keys: Index and HeavyIndex (util/index/index.h) of    *)
(* several threads, which share the global, case-insensitive string        *)
(* storage (util/memory/stringstorage.h).  A key is a sequence of one or   *)
(* two strings (a pair); it is normalized to the pointers of its strings   *)
(* in the storage, and the maps compare pointers.  A pointer is the number *)
(* of the stored copy, 0 is NULL.  A raw string is a letter and a case.    *)
(* Each thread has an index of each kind, which takes no lock.             *)
(***************************************************************************)
EXTENDS Naturals, Sequences, FiniteSets, FiniteSetsExt, SequencesExt

CONSTANTS Threads, Values,
          Letters,            \* strings up to case
          Keys,               \* the keys that are used, sequences of raw strings
          Space,              \* the bytes that a string takes in the storage
          BlockSize,          \* gMemoryBlockSize
          MaxItems,           \* max_items_per_key_, not positive: no limit
          MaxCalls            \* bound on the calls of all threads

VARIABLES storage,            \* text: the copies, used: bytes of each block,
                              \* index_string: the copies that are indexed
          locked,             \* locked_ of the storage
          call,               \* of each thread: where it is and with what
          index,              \* index_ of each Index: pairs of key and value
          heavy,              \* index_ of each HeavyIndex
          wanted,             \* history: what each index should hold
          raced,              \* history: letters that were stored by two threads at once
          removed,            \* history: threads that removed from their index
          calls

vars == <<storage, locked, call, index, heavy, wanted, raced, removed, calls>>

Raw == [letter : Letters, upper : BOOLEAN]

\* str_casefold_eq
SameString(r, q) == r.letter = q.letter

Folded(key) == [i \in DOMAIN key |-> key[i].letter]

Idle == [at |-> "idle", op |-> "add", raw |-> <<>>, done |-> <<>>, value |-> 0]

Init ==
  /\ storage = [text |-> <<>>, used |-> <<>>, index_string |-> {}]
  /\ locked = FALSE
  /\ call = [t \in Threads |-> Idle]
  /\ index = [t \in Threads |-> {}]
  /\ heavy = [t \in Threads |-> <<>>]
  /\ wanted = [t \in Threads |-> <<>>]
  /\ raced = {}
  /\ removed = {}
  /\ calls = 0

-----------------------------------------------------------------------------
Lookup(r) ==
  LET found == {p \in storage.index_string : SameString(storage.text[p], r)}
  IN  IF found = {} THEN 0 ELSE CHOOSE p \in found : TRUE

\* Normalize_R
NormalizeR(key) == [i \in DOMAIN key |-> Lookup(key[i])]

\* Retrieve() of both kinds
Retrieve(t, key) == {e[2] : e \in {f \in index[t] : f[1] = NormalizeR(key)}}

RetrieveHeavy(t, key) ==
  IF NormalizeR(key) \in DOMAIN heavy[t] THEN heavy[t][NormalizeR(key)] ELSE {}

\* AddToIndex() and RemoveFromIndex() begin: the strings of the key are to be
\* normalized, one after the other.
Begin(t, op, key, v) ==
  /\ call[t].at = "idle" /\ calls < MaxCalls
  /\ calls' = calls + 1
  /\ call' = [call EXCEPT ![t] = [at |-> "store", op |-> op, raw |-> key, done |-> <<>>, value |-> v]]
  /\ UNCHANGED <<storage, locked, index, heavy, wanted, raced, removed>>

Normalized(t, p) ==
  LET done == Append(call[t].done, p)
  IN  call' = [call EXCEPT ![t].done = done,
                           ![t].at = IF Len(done) = Len(call[t].raw) THEN "update" ELSE "store"]

Current(t) == call[t].raw[Len(call[t].done) + 1]

\* The first half of Store(): the assertion that the storage is not locked
\* ends the process; otherwise a copy is looked for under the mutex, which is
\* then given back.
StoreLookup(t) ==
  /\ call[t].at = "store" /\ ~locked
  /\ IF Lookup(Current(t)) # 0 THEN Normalized(t, Lookup(Current(t)))
     ELSE call' = [call EXCEPT ![t].at = "insert"]
  /\ UNCHANGED <<storage, locked, index, heavy, wanted, raced, removed, calls>>

\* The latest block with room for the string.
Room(size) ==
  LET fits == {i \in DOMAIN storage.used : storage.used[i] + size <= BlockSize}
  IN  IF fits = {} THEN 0 ELSE Max(fits)

\* The second half of Store(), under the mutex again: the string is copied and
\* the copy is indexed, unless an equal one has been indexed meanwhile.
StoreInsert(t) ==
  /\ call[t].at = "insert"
  /\ LET r == Current(t)
         b == Room(Space[r.letter])
         p == Len(storage.text) + 1
     IN  /\ storage' = [text |-> Append(storage.text, r),
                        used |-> IF b = 0 THEN Append(storage.used, Space[r.letter])
                                 ELSE [storage.used EXCEPT ![b] = @ + Space[r.letter]],
                        index_string |-> storage.index_string \cup
                                           (IF Lookup(r) = 0 THEN {p} ELSE {})]
         /\ Normalized(t, p)
         /\ raced' = IF Lookup(r) = 0 THEN raced ELSE raced \cup {r.letter}
  /\ UNCHANGED <<locked, index, heavy, wanted, removed, calls>>

\* Lock(), which takes no mutex.
LockStorage ==
  /\ ~locked /\ locked' = TRUE
  /\ UNCHANGED <<storage, call, index, heavy, wanted, raced, removed, calls>>

-----------------------------------------------------------------------------
Of(f, k) == IF k \in DOMAIN f THEN f[k] ELSE {}

Put(f, k, s) == [x \in DOMAIN f \cup {k} |-> IF x = k THEN s ELSE f[x]]

Full(n) == MaxItems > 0 /\ n >= MaxItems

\* Index::AddKeyValueToIndex(): nothing for a mapping that is there, or a key
\* that has enough items.
AddKeyValue(ix, k, v) ==
  LET same == {e \in ix : e[1] = k}
  IN  IF <<k, v>> \in ix \/ Full(Cardinality(same)) THEN ix ELSE ix \cup {<<k, v>>}

\* HeavyIndex::AddKeyValueToIndex(): a value set is created, or used unless it
\* is full.
AddHeavy(hx, k, v) ==
  IF k \in DOMAIN hx /\ Full(Cardinality(hx[k])) THEN hx ELSE Put(hx, k, Of(hx, k) \cup {v})

\* The update of the index itself, and what it should do by the strings.
Update(t) ==
  /\ call[t].at = "update"
  /\ LET k == call[t].done
         v == call[t].value
         s == Folded(call[t].raw)
         w == Of(wanted[t], s)
     IN  \/ /\ call[t].op = "add"
            /\ index' = [index EXCEPT ![t] = AddKeyValue(@, k, v)]
            /\ heavy' = [heavy EXCEPT ![t] = AddHeavy(@, k, v)]
            /\ wanted' = [wanted EXCEPT ![t] = IF Full(Cardinality(w)) THEN @ ELSE Put(@, s, w \cup {v})]
            /\ removed' = removed
         \/ /\ call[t].op = "remove"       \* HeavyIndex cannot remove
            /\ index' = [index EXCEPT ![t] = @ \ {<<k, v>>}]
            /\ wanted' = [wanted EXCEPT ![t] = Put(@, s, w \ {v})]
            /\ removed' = removed \cup {t}
            /\ heavy' = heavy
  /\ call' = [call EXCEPT ![t] = Idle]
  /\ UNCHANGED <<storage, locked, raced, calls>>

Clear(t) ==
  /\ call[t].at = "idle" /\ (index[t] # {} \/ heavy[t] # <<>>)
  /\ index' = [index EXCEPT ![t] = {}]
  /\ heavy' = [heavy EXCEPT ![t] = <<>>]
  /\ wanted' = [wanted EXCEPT ![t] = <<>>]
  /\ UNCHANGED <<storage, locked, call, raced, removed, calls>>

Next ==
  \/ LockStorage
  \/ \E t \in Threads :
       \/ \E op \in {"add", "remove"}, key \in Keys, v \in Values : Begin(t, op, key, v)
       \/ StoreLookup(t) \/ StoreInsert(t) \/ Update(t) \/ Clear(t)

Spec == Init /\ [][Next]_vars

-----------------------------------------------------------------------------
TypeOK ==
  /\ storage.text \in Seq(Raw)
  /\ storage.index_string \subseteq DOMAIN storage.text
  /\ \A t \in Threads : call[t].at \in {"idle", "store", "insert", "update"}

\* "Duplicate strings are stored only once" and every string lies within its
\* block, unless two threads looked for the same string before either stored
\* it (stringstorage.h).
StoredOnce ==
  /\ \A p, q \in DOMAIN storage.text :
       SameString(storage.text[p], storage.text[q]) =>
         p = q \/ storage.text[p].letter \in raced
  /\ \A i \in DOMAIN storage.used : storage.used[i] <= BlockSize
  /\ FoldLeft(LAMBDA a, b : a + b, 0, storage.used) =
       FoldLeft(LAMBDA a, r : a + Space[r.letter], 0, storage.text)

\* "Given a signature key, retrieve all items indexed by the signature",
\* whatever the case of the strings, the order of the calls and the other
\* threads, for the keys of which no string was stored twice; Index and
\* HeavyIndex answer alike, until something is removed from the Index (index.h).
RetrievesAll ==
  \A t \in Threads, key \in Keys :
    (\A i \in DOMAIN key : key[i].letter \notin raced) =>
      /\ Retrieve(t, key) = Of(wanted[t], Folded(key))
      /\ t \notin removed => RetrieveHeavy(t, key) = Of(wanted[t], Folded(key))
=============================================================================
