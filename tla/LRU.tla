---------------------------------- MODULE LRU ----------------------------------
(***************************************************************************)
(* The data structure of util/cache/shared_lru_cache.h: list_, the entries *)
(* from the most to the least recently used, and map_, which finds the     *)
(* entry of a key in the list.  Both change together under mutex_, so one  *)
(* sequence of entries stands for the two.                                 *)
(***************************************************************************)
EXTENDS Naturals, Sequences, FiniteSetTheorems, TLAPS

KeysIn(s) == {s[i].key : i \in 1 .. Len(s)}

(* map_.find(k): where the entry of the key is in list_.                   *)
Position(s, k) == CHOOSE i \in 1 .. Len(s) : s[i].key = k

EntryOf(s, k) == s[Position(s, k)]

(* list_.erase(it->second), if the key is there.                           *)
Without(s, k) ==
  IF k \in KeysIn(s)
  THEN SubSeq(s, 1, Position(s, k) - 1) \o SubSeq(s, Position(s, k) + 1, Len(s))
  ELSE s

(* find(): the entry is moved to the front.                                *)
Touch(s, k) == IF k \in KeysIn(s) THEN <<EntryOf(s, k)>> \o Without(s, k) ELSE s

(* insert(): an old entry of the key goes, the new one comes to the front, *)
(* the least recently used ones go while there are too many.               *)
Put(s, e, max) ==
  LET t == <<e>> \o Without(s, e.key)
  IN  SubSeq(t, 1, IF Len(t) > max THEN max ELSE Len(t))

-----------------------------------------------------------------------------
(* The entries of a list, and a list in which no key comes twice.          *)
EntriesIn(s) == {s[i] : i \in 1 .. Len(s)}

Distinct(s) == \A i, j \in 1 .. Len(s) : s[i].key = s[j].key => i = j

(* What map_ finds is the only entry of the key.                           *)
LEMMA PositionFacts ==
  ASSUME NEW s, NEW k \in KeysIn(s)
  PROVE  /\ Position(s, k) \in 1 .. Len(s) /\ EntryOf(s, k).key = k
         /\ EntryOf(s, k) \in EntriesIn(s)
         /\ Distinct(s) => \A e \in EntriesIn(s) : e.key = k => e = EntryOf(s, k)
  <1>1. PICK i \in 1 .. Len(s) : s[i].key = k
    BY Zenon DEF KeysIn
  <1>2. Position(s, k) \in 1 .. Len(s) /\ s[Position(s, k)].key = k
    BY <1>1, Zenon DEF Position
  <1> QED
    BY <1>2, Zenon DEF EntryOf, EntriesIn, Distinct

(* erase() closes the gap that the entry leaves.                           *)
LEMMA WithoutAt ==
  ASSUME NEW S, NEW s \in Seq(S), NEW k \in KeysIn(s)
  PROVE  /\ Without(s, k) \in Seq(S) /\ Len(Without(s, k)) = Len(s) - 1
         /\ \A i \in 1 .. Len(s) - 1 :
              Without(s, k)[i] = IF i < Position(s, k) THEN s[i] ELSE s[i + 1]
  <1> DEFINE p == Position(s, k)
             l == SubSeq(s, 1, p - 1)
             r == SubSeq(s, p + 1, Len(s))
             t == l \o r
  <1>1. p \in 1 .. Len(s) /\ s[p].key = k /\ Len(s) \in Nat
    BY PositionFacts DEF EntryOf
  <1> HIDE DEF p
  <1>2. /\ l \in Seq(S) /\ Len(l) = p - 1 /\ \A i \in 1 .. p - 1 : l[i] = s[i]
    BY <1>1
  <1>3. /\ r \in Seq(S) /\ Len(r) = Len(s) - p /\ \A i \in 1 .. Len(s) - p : r[i] = s[i + p]
    BY <1>1
  <1> HIDE DEF l, r
  <1>4. /\ t \in Seq(S) /\ Len(t) = Len(s) - 1
        /\ \A i \in 1 .. Len(s) - 1 : t[i] = IF i < p THEN s[i] ELSE s[i + 1]
    <2>0. l \in Seq(S) /\ r \in Seq(S)
      BY <1>2, <1>3
    <2>1. /\ t \in Seq(S) /\ Len(t) = Len(l) + Len(r)
          /\ \A i \in 1 .. Len(t) : t[i] = IF i <= Len(l) THEN l[i] ELSE r[i - Len(l)]
      BY <2>0
    <2>2. Len(t) = Len(s) - 1
      BY <1>1, <1>2, <1>3, <2>1
    <2> HIDE DEF t
    <2>3. ASSUME NEW i \in 1 .. Len(s) - 1 PROVE t[i] = IF i < p THEN s[i] ELSE s[i + 1]
      <3>1. CASE i < p
        BY <1>1, <1>2, <2>1, <2>2, <3>1
      <3>2. CASE i >= p
        <4>0. i - Len(l) = i - p + 1 /\ ~(i <= Len(l)) /\ i - p + 1 \in 1 .. Len(s) - p
          BY <1>1, <1>2, <3>2
        <4>1. t[i] = r[i - Len(l)] /\ i - Len(l) = i - p + 1 /\ i - p + 1 \in 1 .. Len(s) - p
          BY <2>1, <2>2, <4>0
        <4>2. r[i - p + 1] = s[i - p + 1 + p]
          BY <1>3, <4>1
        <4> QED
          BY <1>1, <3>2, <4>1, <4>2
      <3> QED
        BY <1>1, <3>1, <3>2
    <2> QED
      BY <2>1, <2>2, <2>3
  <1>5. Without(s, k) = t
    BY DEF Without, p, l, r
  <1> QED
    BY <1>4, <1>5 DEF p

(* erase() removes the entry of the key and no other, and keeps the order. *)
LEMMA WithoutFacts ==
  ASSUME NEW S, NEW s \in Seq(S), NEW k, Distinct(s)
  PROVE  /\ Without(s, k) \in Seq(S) /\ Distinct(Without(s, k))
         /\ EntriesIn(Without(s, k)) = {e \in EntriesIn(s) : e.key # k}
  <1>1. CASE k \notin KeysIn(s)
    <2>1. Without(s, k) = s
      BY <1>1 DEF Without
    <2>2. \A e \in EntriesIn(s) : e.key # k
      BY <1>1 DEF EntriesIn, KeysIn
    <2> QED
      BY <2>1, <2>2, Zenon
  <1>2. CASE k \in KeysIn(s)
    <2> DEFINE p == Position(s, k)
               t == Without(s, k)
    <2>1. p \in 1 .. Len(s) /\ s[p].key = k /\ Len(s) \in Nat
      BY <1>2, PositionFacts DEF EntryOf
    <2>4. /\ t \in Seq(S) /\ Len(t) = Len(s) - 1
          /\ \A i \in 1 .. Len(s) - 1 : t[i] = IF i < p THEN s[i] ELSE s[i + 1]
      BY <1>2, WithoutAt
    <2> HIDE DEF p
    <2> HIDE DEF t
    <2>6. Distinct(t)
      <3>1. SUFFICES ASSUME NEW i \in 1 .. Len(t), NEW j \in 1 .. Len(t), t[i].key = t[j].key
                     PROVE  i = j
        BY DEF Distinct
      <3> DEFINE at(n) == IF n < p THEN n ELSE n + 1
      <3>2. /\ at(i) \in 1 .. Len(s) /\ t[i] = s[at(i)]
            /\ at(j) \in 1 .. Len(s) /\ t[j] = s[at(j)]
        BY <2>1, <2>4
      <3>3. at(i) = at(j)
        BY <3>1, <3>2, Zenon DEF Distinct
      <3> QED
        BY <2>1, <2>4, <3>3
    <2>7. ASSUME NEW i \in 1 .. Len(t) PROVE t[i] \in EntriesIn(s) /\ t[i].key # k
      <3> DEFINE j == IF i < p THEN i ELSE i + 1
      <3>1. j \in 1 .. Len(s) /\ j # p /\ t[i] = s[j]
        BY <2>1, <2>4
      <3> HIDE DEF j
      <3> QED
        BY <2>1, <3>1, Zenon DEF Distinct, EntriesIn
    <2>8. ASSUME NEW j \in 1 .. Len(s), s[j].key # k PROVE s[j] \in EntriesIn(t)
      <3>1. CASE j < p
        BY <2>1, <2>4, <3>1 DEF EntriesIn
      <3>2. CASE j > p
        <4>1. j - 1 \in 1 .. Len(t) /\ t[j - 1] = s[j]
          BY <2>1, <2>4, <3>2
        <4> QED
          BY <4>1, Zenon DEF EntriesIn
      <3> QED
        BY <2>1, <2>8, <3>1, <3>2
    <2>9. EntriesIn(t) = {e \in EntriesIn(s) : e.key # k}
      <3>1. \A e \in EntriesIn(t) : e \in EntriesIn(s) /\ e.key # k
        BY <2>7, Zenon DEF EntriesIn
      <3>2. \A e \in EntriesIn(s) : e.key # k => e \in EntriesIn(t)
        BY <2>8, Zenon DEF EntriesIn
      <3> QED
        BY <3>1, <3>2, Zenon
    <2> QED
      BY <2>4, <2>6, <2>9, Zenon DEF t
  <1> QED
    BY <1>1, <1>2

(* An entry put in front of a list without its key.                        *)
LEMMA FrontFacts ==
  ASSUME NEW S, NEW s \in Seq(S), NEW e \in S, Distinct(s), \A x \in EntriesIn(s) : x.key # e.key
  PROVE  /\ <<e>> \o s \in Seq(S) /\ Distinct(<<e>> \o s)
         /\ Len(<<e>> \o s) = Len(s) + 1 /\ (<<e>> \o s)[1] = e
         /\ EntriesIn(<<e>> \o s) = EntriesIn(s) \cup {e}
  <1> DEFINE t == <<e>> \o s
  <1>1. /\ t \in Seq(S) /\ Len(t) = Len(s) + 1 /\ t[1] = e /\ Len(s) \in Nat
        /\ \A i \in 1 .. Len(s) : t[i + 1] = s[i]
    OBVIOUS
  <1>2. \A i \in 2 .. Len(s) + 1 : i - 1 \in 1 .. Len(s) /\ t[i] = s[i - 1]
    BY <1>1
  <1> HIDE DEF t
  <1>3. \A i \in 1 .. Len(s) : s[i].key # e.key
    BY DEF EntriesIn
  <1>4. Distinct(t)
    <2>1. SUFFICES ASSUME NEW i \in 1 .. Len(t), NEW j \in 1 .. Len(t), t[i].key = t[j].key
                   PROVE  i = j
      BY DEF Distinct
    <2>2. /\ i = 1 \/ (i \in 2 .. Len(s) + 1 /\ i - 1 \in 1 .. Len(s) /\ t[i] = s[i - 1])
          /\ j = 1 \/ (j \in 2 .. Len(s) + 1 /\ j - 1 \in 1 .. Len(s) /\ t[j] = s[j - 1])
      BY <1>1, <1>2
    <2>3. i # 1 /\ j # 1 => i - 1 = j - 1
      BY <2>1, <2>2, Zenon DEF Distinct
    <2>4. i = 1 <=> j = 1
      BY <1>1, <1>3, <2>1, <2>2, Zenon
    <2> QED
      BY <2>3, <2>4
  <1>5. ASSUME NEW x \in EntriesIn(t) PROVE x \in EntriesIn(s) \cup {e}
    <2>1. PICK i \in 1 .. Len(t) : x = t[i]
      BY Zenon DEF EntriesIn
    <2>2. i = 1 \/ i \in 2 .. Len(s) + 1
      BY <1>1
    <2> QED
      BY <1>1, <1>2, <2>1, <2>2, Zenon DEF EntriesIn
  <1>6. ASSUME NEW i \in 1 .. Len(s) PROVE s[i] \in EntriesIn(t)
    <2>1. i + 1 \in 1 .. Len(t) /\ t[i + 1] = s[i]
      BY <1>1
    <2> QED
      BY <2>1, Zenon DEF EntriesIn
  <1>7. e \in EntriesIn(t)
    <2>1. 1 \in 1 .. Len(t)
      BY <1>1
    <2> QED
      BY <1>1, <2>1, Zenon DEF EntriesIn
  <1>8. EntriesIn(t) = EntriesIn(s) \cup {e}
    <2>1. \A x \in EntriesIn(s) : x \in EntriesIn(t)
      BY <1>6, Zenon DEF EntriesIn
    <2> QED
      BY <1>5, <1>7, <2>1, Zenon
  <1> QED
    BY <1>1, <1>4, <1>8, Zenon DEF t

(* find() changes the order only.                                          *)
LEMMA TouchFacts ==
  ASSUME NEW S, NEW s \in Seq(S), NEW k, Distinct(s)
  PROVE  /\ Touch(s, k) \in Seq(S) /\ Distinct(Touch(s, k))
         /\ EntriesIn(Touch(s, k)) = EntriesIn(s)
  <1>1. CASE k \notin KeysIn(s)
    BY <1>1 DEF Touch
  <1>2. CASE k \in KeysIn(s)
    <2> DEFINE e == EntryOf(s, k)
               t == Without(s, k)
    <2>1. /\ e \in EntriesIn(s) /\ e.key = k
          /\ \A x \in EntriesIn(s) : x.key = k => x = e
      BY <1>2, PositionFacts, Zenon
    <2>2. e \in S
      BY <2>1 DEF EntriesIn
    <2>3. /\ t \in Seq(S) /\ Distinct(t) /\ EntriesIn(t) = {x \in EntriesIn(s) : x.key # k}
      BY WithoutFacts
    <2>4. Touch(s, k) = <<e>> \o t
      BY <1>2 DEF Touch
    <2> HIDE DEF e, t
    <2>5. \A x \in EntriesIn(t) : x.key # e.key
      BY <2>1, <2>3, Zenon
    <2>6. /\ <<e>> \o t \in Seq(S) /\ Distinct(<<e>> \o t)
          /\ EntriesIn(<<e>> \o t) = EntriesIn(t) \cup {e}
      BY <2>2, <2>3, <2>5, FrontFacts
    <2>7. EntriesIn(t) \cup {e} = EntriesIn(s)
      BY <2>1, <2>3, Zenon
    <2> QED
      BY <2>4, <2>6, <2>7, Zenon
  <1> QED
    BY <1>1, <1>2

(* insert() leaves the new entry and old entries of other keys.            *)
LEMMA PutFacts ==
  ASSUME NEW S, NEW s \in Seq(S), NEW e \in S, Distinct(s), NEW max \in Nat \ {0}
  PROVE  /\ Put(s, e, max) \in Seq(S) /\ Distinct(Put(s, e, max))
         /\ Len(Put(s, e, max)) <= max
         /\ e \in EntriesIn(Put(s, e, max))
         /\ EntriesIn(Put(s, e, max)) \subseteq {x \in EntriesIn(s) : x.key # e.key} \cup {e}
  <1> DEFINE w == Without(s, e.key)
             t == <<e>> \o w
             n == IF Len(t) > max THEN max ELSE Len(t)
             r == SubSeq(t, 1, n)
  <1>1. w \in Seq(S) /\ Distinct(w) /\ EntriesIn(w) = {x \in EntriesIn(s) : x.key # e.key}
    BY WithoutFacts
  <1>2. Put(s, e, max) = r
    BY DEF Put
  <1> HIDE DEF w
  <1>3. \A x \in EntriesIn(w) : x.key # e.key
    BY <1>1, Zenon
  <1>4. /\ t \in Seq(S) /\ Distinct(t) /\ Len(t) = Len(w) + 1 /\ t[1] = e
        /\ EntriesIn(t) = EntriesIn(w) \cup {e}
    BY <1>1, <1>3, FrontFacts
  <1>5. Len(w) \in Nat
    BY <1>1
  <1> HIDE DEF t
  <1>6. n \in 1 .. Len(t) /\ n <= max
    BY <1>4, <1>5
  <1> HIDE DEF n
  <1>8. r \in Seq(S) /\ Len(r) = n /\ \A i \in 1 .. n : r[i] = t[i]
    BY <1>4, <1>6
  <1> HIDE DEF r
  <1>9. Distinct(r)
    BY <1>4, <1>6, <1>8 DEF Distinct
  <1>10. e \in EntriesIn(r)
    <2>1. 1 \in 1 .. Len(r) /\ r[1] = e
      BY <1>4, <1>6, <1>8
    <2> QED
      BY <2>1, Zenon DEF EntriesIn
  <1>11. EntriesIn(r) \subseteq EntriesIn(t)
    BY <1>6, <1>8 DEF EntriesIn
  <1> QED
    BY <1>1, <1>2, <1>4, <1>6, <1>8, <1>9, <1>10, <1>11, Zenon DEF w

-----------------------------------------------------------------------------
(* Two entries of w that come in their order in s as well.                 *)
Kept(w, s, i, j) == \E a, b \in 1 .. Len(s) : a < b /\ s[a] = w[i] /\ s[b] = w[j]

(* erase() keeps the order of the entries it leaves.                       *)
LEMMA WithoutOrder ==
  ASSUME NEW S, NEW s \in Seq(S), NEW k,
         NEW i \in 1 .. Len(Without(s, k)), NEW j \in 1 .. Len(Without(s, k)), i < j
  PROVE  Kept(Without(s, k), s, i, j)
  <1>1. CASE k \notin KeysIn(s)
    BY <1>1 DEF Without, Kept
  <1>2. CASE k \in KeysIn(s)
    <2> DEFINE p == Position(s, k)
               w == Without(s, k)
    <2>1. p \in 1 .. Len(s) /\ Len(s) \in Nat
      BY <1>2, PositionFacts
    <2>2. /\ Len(w) = Len(s) - 1
          /\ \A x \in 1 .. Len(s) - 1 : w[x] = IF x < p THEN s[x] ELSE s[x + 1]
      BY <1>2, WithoutAt
    <2> HIDE DEF p
    <2> DEFINE a == IF i < p THEN i ELSE i + 1
               b == IF j < p THEN j ELSE j + 1
    <2>3. i \in 1 .. Len(w) /\ j \in 1 .. Len(w)
      OBVIOUS
    <2> HIDE DEF w
    <2>4. a \in 1 .. Len(s) /\ b \in 1 .. Len(s) /\ a < b
      BY <2>1, <2>2, <2>3
    <2>5. s[a] = w[i] /\ s[b] = w[j]
      BY <2>1, <2>2, <2>3
    <2> HIDE DEF a, b
    <2> QED
      BY <2>4, <2>5 DEF Kept, w
  <1> QED
    BY <1>1, <1>2

(* insert() and find() put one entry before all others, and keep the order *)
(* of those.                                                               *)
LEMMA FrontOrder ==
  ASSUME NEW S, NEW s \in Seq(S), NEW e \in S, Distinct(s), NEW n \in Nat,
         NEW t, t = SubSeq(<<e>> \o Without(s, e.key), 1, n),
         n <= Len(Without(s, e.key)) + 1,
         NEW i \in 1 .. Len(t), NEW j \in 1 .. Len(t), i < j
  PROVE  /\ t[j].key # e.key
         /\ t[i] = e \/ (t[i].key # e.key /\ Kept(t, s, i, j))
  <1> DEFINE w == Without(s, e.key)
             u == <<e>> \o w
  <1>1. /\ w \in Seq(S) /\ EntriesIn(w) = {x \in EntriesIn(s) : x.key # e.key}
    BY WithoutFacts
  <1>2. t = SubSeq(u, 1, n) /\ n <= Len(w) + 1
    OBVIOUS
  <1>3. \A x, y \in 1 .. Len(w) : x < y => Kept(w, s, x, y)
    BY WithoutOrder
  <1> HIDE DEF w
  <1>4. Len(w) \in Nat /\ u \in Seq(S) /\ Len(u) = Len(w) + 1 /\ u[1] = e
        /\ \A x \in 1 .. Len(w) : u[x + 1] = w[x]
    BY <1>1
  <1>5. \A x \in 2 .. Len(w) + 1 : x - 1 \in 1 .. Len(w) /\ u[x] = w[x - 1]
    BY <1>4
  <1> HIDE DEF u
  <1>6. Len(t) = n /\ \A x \in 1 .. n : t[x] = u[x]
    BY <1>2, <1>4
  <1>7. j \in 2 .. Len(w) + 1 /\ t[j] = u[j] /\ t[i] = u[i]
    BY <1>2, <1>4, <1>6
  <1>8. \A x \in 1 .. Len(w) : w[x].key # e.key
    BY <1>1, Zenon DEF EntriesIn
  <1>9. t[j] = w[j - 1] /\ j - 1 \in 1 .. Len(w)
    BY <1>5, <1>7
  <1>10. CASE i = 1
    BY <1>4, <1>7, <1>8, <1>9, <1>10
  <1>11. CASE i # 1
    <2>1. i \in 2 .. Len(w) + 1 /\ i - 1 < j - 1
      BY <1>4, <1>7, <1>11
    <2>2. t[i] = w[i - 1] /\ i - 1 \in 1 .. Len(w)
      BY <1>5, <1>7, <2>1
    <2>3. Kept(w, s, i - 1, j - 1)
      BY <1>3, <1>9, <2>1, <2>2, Zenon
    <2> QED
      BY <1>8, <1>9, <2>2, <2>3, Zenon DEF Kept
  <1> QED
    BY <1>10, <1>11

(* The same for the two operations themselves.                             *)
LEMMA PutOrder ==
  ASSUME NEW S, NEW s \in Seq(S), NEW e \in S, Distinct(s), NEW max \in Nat,
         NEW t, t = Put(s, e, max), NEW i \in 1 .. Len(t), NEW j \in 1 .. Len(t), i < j
  PROVE  /\ t[j].key # e.key
         /\ t[i] = e \/ (t[i].key # e.key /\ Kept(t, s, i, j))
  <1> DEFINE u == <<e>> \o Without(s, e.key)
             n == IF Len(u) > max THEN max ELSE Len(u)
  <1>1. Without(s, e.key) \in Seq(S)
    BY WithoutFacts
  <1>2. Len(u) \in Nat /\ Len(u) = Len(Without(s, e.key)) + 1
    BY <1>1
  <1>3. n \in Nat /\ n <= Len(Without(s, e.key)) + 1
    BY <1>2
  <1>4. t = SubSeq(u, 1, n)
    BY DEF Put
  <1> HIDE DEF n
  <1> QED
    BY <1>3, <1>4, FrontOrder

LEMMA TouchOrder ==
  ASSUME NEW S, NEW s \in Seq(S), Distinct(s), NEW k \in KeysIn(s),
         NEW t, t = Touch(s, k), NEW i \in 1 .. Len(t), NEW j \in 1 .. Len(t), i < j
  PROVE  /\ t[j].key # k
         /\ t[i].key = k \/ (t[i].key # k /\ Kept(t, s, i, j))
  <1> DEFINE e == EntryOf(s, k)
             u == <<e>> \o Without(s, k)
  <1>1. e \in EntriesIn(s) /\ e.key = k
    BY PositionFacts
  <1>2. e \in S
    BY <1>1 DEF EntriesIn
  <1>3. Without(s, k) \in Seq(S)
    BY WithoutFacts
  <1>4. t = u
    BY DEF Touch
  <1> HIDE DEF e
  <1>5. u \in Seq(S) /\ Len(u) = Len(Without(s, k)) + 1 /\ Len(u) \in Nat
    BY <1>2, <1>3
  <1> HIDE DEF u
  <1>6. u = SubSeq(u, 1, Len(u))
    BY <1>5
  <1>7. t = SubSeq(<<e>> \o Without(s, e.key), 1, Len(u))
    BY <1>1, <1>4, <1>6 DEF u
  <1>8. Len(u) <= Len(Without(s, e.key)) + 1
    BY <1>1, <1>5
  <1>9. /\ t[j].key # e.key
        /\ t[i] = e \/ (t[i].key # e.key /\ Kept(t, s, i, j))
    BY <1>2, <1>5, <1>7, <1>8, FrontOrder
  <1> QED
    BY <1>1, <1>9

(* find() of a key that is there leaves the list as long as it was.        *)
LEMMA TouchLength ==
  ASSUME NEW S, NEW s \in Seq(S), NEW k \in KeysIn(s)
  PROVE  Len(Touch(s, k)) = Len(s)
  <1>1. EntryOf(s, k) \in S /\ Len(s) \in Nat
    BY PositionFacts DEF EntryOf
  <1>2. Touch(s, k) = <<EntryOf(s, k)>> \o Without(s, k)
    BY DEF Touch
  <1>3. Without(s, k) \in Seq(S) /\ Len(Without(s, k)) = Len(s) - 1
    BY WithoutAt
  <1> QED
    BY <1>1, <1>2, <1>3

(* In a list without a key twice there are as many keys as entries.        *)
LEMMA DistinctCount ==
  ASSUME NEW s, Len(s) \in Nat, Distinct(s)
  PROVE  Cardinality(KeysIn(s)) = Len(s)
  <1> DEFINE f == [i \in 1 .. Len(s) |-> s[i].key]
  <1>1. f \in [1 .. Len(s) -> KeysIn(s)]
    BY DEF KeysIn
  <1>2. \A i, j \in 1 .. Len(s) : f[i] = f[j] => i = j
    BY DEF Distinct
  <1>3. \A k \in KeysIn(s) : \E i \in 1 .. Len(s) : f[i] = k
    BY DEF KeysIn
  <1> HIDE DEF f
  <1>4. f \in Bijection(1 .. Len(s), KeysIn(s))
    BY <1>1, <1>2, <1>3 DEF Bijection, Injection, Surjection, IsInjective
  <1>5. ExistsBijection(1 .. Len(s), KeysIn(s))
    BY <1>4 DEF ExistsBijection
  <1> QED
    BY <1>5, FS_CountingElements
=============================================================================
