------------------------------ MODULE Counter ------------------------------
(***************************************************************************)
(* Counter: events are counted in bins of time, in sets of bins of growing *)
(* size; what leaves a set of bins moves to the next one.  The metrics of  *)
(* a bin are the set of its events (their "count" is its size).  The clock *)
(* is read again between the update of the bins and the placing of events. *)
(***************************************************************************)
EXTENDS Integers, SequencesExt, FiniteSetsExt

CONSTANTS
  Config,     \* time_config: a sequence of [size, n], bin sizes and numbers of bins
  Events,
  Ages,       \* ages of the events when they are counted, negative in the future
  MaxNow,     \* bound: the clock
  Delays      \* how far the clock goes on between two readings of a call

VARIABLES now, binsets, happened

vars == <<now, binsets, happened>>

Length(k) == Config[k].size * Config[k].n
LengthTo(i, k) == FoldLeft(LAMBDA sum, j : sum + Length(j), 0, [x \in 1..k - i + 1 |-> x + i - 1])
Sets == 1..Len(Config)
Ceil(a, b) == (a + b - 1) \div b

\* Initialize(): each set of bins starts when the ones before it are full.
Init ==
  /\ now = 1
  /\ binsets = [k \in Sets |-> [ts |-> now + LengthTo(1, k - 1), last |-> 0, total |-> {},
                                bins |-> [i \in 0..Config[k].n - 1 |-> {}]]]
  /\ happened = <<>>

\* The set of bins and the bin, counted back from last_index, for an age from
\* the set k on; the set is past the end for an age that is not tracked.
SetOf(age, k) == Min({j \in k..Len(Config) : age <= LengthTo(k, j)} \cup {Len(Config) + 1})
BinsBack(age, k) == Ceil(age - LengthTo(k, SetOf(age, k) - 1), Config[SetOf(age, k)].size) - 1

Put(b, k, i, evs) == [b EXCEPT ![k].bins[i] = @ \cup evs, ![k].total = @ \cup evs]

\* PlaceMetricsInBin(): age 0 is bin 0, whatever last_index is.
PlaceMetricsInBin(b, t, timestamp, evs, k) ==
  LET age == IF t > timestamp THEN t - timestamp ELSE 0
      s == SetOf(age, k) IN
  IF s > Len(Config) THEN b
  ELSE Put(b, s, IF age = 0 THEN 0 ELSE (b[s].last - BinsBack(age, k)) % Config[s].n, evs)

\* UpdateBins(): the steps that each set of bins goes on, the bins they free
\* with their new timestamps, and the events of those bins in the next set.
Steps(b, k) == IF now > b[k].ts THEN (now - b[k].ts) \div Config[k].size ELSE 0
Freed(b, k) == {i \in DOMAIN b[k].bins : \E j \in 1..Steps(b, k) : (b[k].last + j) % Config[k].n = i}

Advanced(b, k) ==
  [ts |-> b[k].ts + Steps(b, k) * Config[k].size,
   last |-> (b[k].last + Steps(b, k)) % Config[k].n,
   total |-> b[k].total \ UNION {b[k].bins[i] : i \in Freed(b, k)},
   bins |-> [i \in DOMAIN b[k].bins |-> IF i \in Freed(b, k) THEN {} ELSE b[k].bins[i]]]

\* The new time of a freed bin, the first time that the update comes to it.
BinTimestamp(b, k, i) ==
  LET j == Min({j \in 1..Steps(b, k) : (b[k].last + j) % Config[k].n = i}) IN
  Max({0, Advanced(b, k).ts - (Steps(b, k) - j) * Config[k].size})

\* A bug: what leaves a set of bins is dropped.
UpdateBins_Drop(b, t) == [k \in Sets |-> Advanced(b, k)]

UpdateBins(b, t) ==
  LET moves == {<<k, i>> \in Sets \X (0..Max({c.n : c \in Range(Config)})) : i \in Freed(b, k)} IN
  FoldSet(LAMBDA m, c : PlaceMetricsInBin(c, t, BinTimestamp(b, m[1], m[2]), b[m[1]].bins[m[2]], m[1] + 1),
          [k \in Sets |-> Advanced(b, k)], moves)

\* ProcessEvent(); the event is placed at a later time than the update.
ProcessEvent(e, age, delay) ==
  /\ ~\E h \in Range(happened) : h.event = e
  /\ now - age >= 0
  /\ now + delay <= MaxNow /\ now' = now + delay
  /\ binsets' = PlaceMetricsInBin(UpdateBins(binsets, now + delay), now + delay, now - age, {e}, 1)
  /\ happened' = Append(happened, [event |-> e, time |-> now - age, age |-> age])

Tick ==
  /\ now < MaxNow
  /\ now' = now + 1
  /\ UNCHANGED <<binsets, happened>>

\* GetMetricsForInterval(): whole sets of bins, then bins back from last_index.
CountedIn(b, d) ==
  LET s == SetOf(d, 1)
      whole == UNION {b[k].total : k \in Sets \cap 1..s - 1} IN
  IF d = 0 THEN {} ELSE IF s > Len(Config) THEN whole
  ELSE whole \cup UNION {b[s].bins[(b[s].last - j) % Config[s].n] : j \in 0..BinsBack(d, 1)}

\* GetMetricsForInterval() updates the bins first.
GetMetrics(delay) ==
  /\ now + delay <= MaxNow /\ now' = now + delay
  /\ binsets' = UpdateBins(binsets, now + delay)
  /\ UNCHANGED happened

Next ==
  \/ \E e \in Events, age \in Ages, delay \in Delays : ProcessEvent(e, age, delay)
  \/ \E delay \in Delays : GetMetrics(delay)
  \/ Tick

Spec == Init /\ [][Next]_vars

-----------------------------------------------------------------------------
\* The total of a set of bins is that of its bins, and no event is counted in
\* two bins, after any updates.
TotalsMatch ==
  \A k \in Sets : LET bs == binsets[k].bins IN
    /\ binsets[k].total = UNION {bs[i] : i \in DOMAIN bs}
    /\ \A k2 \in Sets : \A i \in DOMAIN bs, j \in DOMAIN binsets[k2].bins :
         bs[i] \cap binsets[k2].bins[j] # {} => k = k2 /\ i = j

\* "information about what happened in the last X": an event that is not from
\* the future is in the metrics of every interval that is longer than its age
\* by the largest bin, and in those of none that is shorter than its age by
\* more than one bin of each set of bins.
LastX ==
  LET sizes == {Config[k].size : k \in Sets}
      slack == FoldLeft(LAMBDA sum, c : sum + c.size, 0, Config) IN
  \A delay \in Delays : LET b == UpdateBins(binsets, now + delay) IN
  \A h \in Range(happened) : \A d \in 1..LengthTo(1, Len(Config)) :
    h.age >= 0 =>
      LET counted == h.event \in CountedIn(b, d) IN
      /\ now - h.time <= d - Max(sizes) => counted
      /\ now - h.time > d + slack => ~counted
=============================================================================
