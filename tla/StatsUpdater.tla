---------------------------- MODULE StatsUpdater ----------------------------
(***************************************************************************)
(* IncrementalLogStatsUpdater: a job that is run again and again.  A run   *)
(* adds the logs of the days since the last run to the files of several    *)
(* statistics and may fail or crash on its way.  A statistic is, for each  *)
(* day, how often the events of that day are in it; keys and the amount of *)
(* decay are left out.  The output files of a run are the input files of   *)
(* the next one.                                                           *)
(***************************************************************************)
EXTENDS Integers, FiniteSetsExt

CONSTANTS
  Stats,       \* 1..n, in the order of the flags
  MaxDay,      \* bound: days of the clock
  MaxTroubles, \* bound: runs that crash or do not decay
  Ends         \* values of logging_end_date, 0 when it is not given

StatsUpdaterAssumption ==
  /\ 1 \in Stats /\ Stats \subseteq Nat
  /\ MaxDay \in Nat \ {0, 1} /\ MaxTroubles \in Nat
  /\ Ends \subseteq Nat

VARIABLES today, file, job, troubles

vars == <<today, file, job, troubles>>

Days == 1..MaxDay

\* A statistic in memory: its BasicMetaData, how often each day is in it (0, 1
\* or more) and, as history, the first day it was asked for and what may have
\* disturbed the days since.
Fresh == [ts |-> 0, ahead |-> 0, count |-> [d \in Days |-> 0], from |-> 0, odd |-> {}]
Idle == [at |-> "idle", begin |-> 0, end |-> 0, given |-> FALSE, inputs |-> FALSE,
         gap |-> FALSE, mem |-> [s \in Stats |-> Fresh], next |-> 1]

Stat == [ts : Nat, ahead : Nat, count : [Days -> 0..2], from : Nat,
         odd : SUBSET {"dates", "gap", "midnight"}]
Places == {"idle", "load", "decay", "read", "write", "writing"}

\* What every variable may hold.
TypeOK ==
  /\ today \in 2..MaxDay
  /\ file \in [Stats -> [state : {"missing", "torn", "ok"}, stat : Stat]]
  /\ job \in [at : Places, begin : Nat, end : Nat, given : BOOLEAN, inputs : BOOLEAN,
             gap : BOOLEAN, mem : [Stats -> Stat], next : Stats]
  /\ troubles \in 0..MaxTroubles

Init ==
  /\ today = 2
  /\ file = [s \in Stats |-> [state |-> "missing", stat |-> Fresh]]
  /\ job = Idle
  /\ troubles = 0

Exit == job' = Idle

Trouble == troubles < MaxTroubles /\ troubles' = troubles + 1

\* ParseFlags() with ParseDates().  The test begin > end compares pointers;
\* the reader of the logs rejects such dates later.
ParseFlags(given, begin, inputs, gap) ==
  /\ job.at = "idle"
  /\ job' = [Idle EXCEPT !.at = "load", !.begin = begin, !.inputs = inputs, !.gap = gap,
                         !.given = given # 0, !.end = IF given = 0 THEN today ELSE given]
  /\ UNCHANGED <<today, file, troubles>>

\* ReadUptoTimeForSignal() of the files read: read_ahead_from_time is not
\* serialized and is 0 in all of them.
ReadUptoTimes(mem) == {mem[s].ts : s \in Stats} \ {0}

ReadFrom(mem) == Min(ReadUptoTimes(mem))

Marked(stat, why) == [stat EXCEPT !.odd = @ \cup why]

Explicit(mem) ==
  [s \in Stats |-> Marked(mem[s], IF job.given THEN {"dates"} ELSE {})]

\* Initialize() up to the decay: reads the input files and moves the begin.
Load ==
  LET mem == [s \in Stats |-> IF job.inputs THEN file[s].stat
                                            ELSE [Fresh EXCEPT !.from = job.begin]]
      date == ReadFrom(mem)
      skips == IF date < job.begin THEN {"gap"} ELSE {}
  IN
  /\ job.at = "load"
  /\ \/ /\ job.inputs /\ \E s \in Stats : file[s].state # "ok"
        /\ Exit
     \/ /\ job.inputs => \A s \in Stats : file[s].state = "ok"
        /\ IF ReadUptoTimes(mem) = {}
           THEN job' = [job EXCEPT !.at = "decay", !.mem = Explicit(mem)]
           ELSE IF date > job.end
           THEN job' = [job EXCEPT !.at = "read", !.mem = Explicit(mem)]
           ELSE IF date < job.begin /\ ~job.gap
           THEN Exit
           ELSE job' = [job EXCEPT
                  !.at = "decay", !.begin = Max({job.begin, date}),
                  !.mem = [s \in Stats |-> Marked(Explicit(mem)[s], skips)]]
  /\ UNCHANGED <<today, file, troubles>>

\* TimeDecaySignalData(): the clock is read again, after ParseDates().
TimeDecaySignalData(stat) ==
  IF today < stat.ts THEN stat ELSE [stat EXCEPT !.ahead = stat.ts, !.ts = today]

\* The rest of Initialize(): with logging_stats_time_decay_data or without, and
\* then the timestamps stay what they are, too.
Decay ==
  LET late == IF today = job.end THEN {} ELSE {"midnight"}
  IN
  /\ job.at = "decay"
  /\ \/ /\ job' = [job EXCEPT !.at = "read",
                     !.mem = [s \in Stats |-> Marked(TimeDecaySignalData(job.mem[s]), late)]]
        /\ UNCHANGED troubles
     \/ /\ job' = [job EXCEPT !.at = "read",
                     !.mem = [s \in Stats |-> Marked(job.mem[s], {"dates"})]]
        /\ Trouble
  /\ UNCHANGED <<today, file>>

\* Mutant: events that the statistic already holds are added again.
Counts_Again(stat, d) == TRUE

\* The filter of IncrementKeyForSignalWithTimestamp().
Counts(stat, d) == d >= stat.ahead

More(n) == Min({n + 1, 2})

\* The statistic with the events of the logs of [begin, end).
Incremented(stat) ==
  [stat EXCEPT !.count = [d \in Days |->
     IF d \in job.begin..(job.end - 1) /\ Counts(stat, d) THEN More(@[d]) ELSE @[d]]]

\* ReadLogs() and PostProcess(): the events of [begin, end), or the exit when
\* there are none.
ReadLogs ==
  /\ job.at = "read"
  /\ \/ Exit
     \/ /\ job.begin < job.end
        /\ job' = [job EXCEPT !.at = "write",
             !.mem = [s \in Stats |-> Incremented(job.mem[s])]]
  /\ UNCHANGED <<today, file, troubles>>

\* WriteFiles(): each file is truncated and written, or cannot be opened and
\* the next one is written all the same.
Written == job' = IF job.next + 1 \in Stats
                  THEN [job EXCEPT !.at = "write", !.next = @ + 1] ELSE Idle

OpenFile ==
  /\ job.at = "write"
  /\ \/ Written /\ UNCHANGED file
     \/ /\ file' = [file EXCEPT ![job.next] = [state |-> "torn", stat |-> Fresh]]
        /\ job' = [job EXCEPT !.at = "writing"]
  /\ UNCHANGED <<today, troubles>>

WriteFile ==
  /\ job.at = "writing"
  /\ file' = [file EXCEPT ![job.next] =
                [state |-> "ok", stat |-> [job.mem[job.next] EXCEPT !.ahead = 0]]]
  /\ Written
  /\ UNCHANGED <<today, troubles>>

\* The process is killed or its machine fails.
Crash ==
  /\ job.at # "idle"
  /\ Exit
  /\ Trouble
  /\ UNCHANGED <<today, file>>

Midnight ==
  /\ today < MaxDay
  /\ today' = today + 1
  /\ UNCHANGED <<file, job, troubles>>

Next ==
  \/ \E given \in Ends, begin \in 1..today, inputs, gap \in BOOLEAN :
       ParseFlags(given, begin, inputs, gap)
  \/ Load \/ Decay \/ ReadLogs \/ OpenFile \/ WriteFile \/ Crash \/ Midnight

Spec == Init /\ [][Next]_vars

Readable == {s \in Stats : file[s].state = "ok"}

\* No event is added twice to a statistic, whatever runs failed or crashed
\* after some of the files had been written, as long as logging_end_date is
\* not given and the decay, which moves the timestamp, not switched off.
CountedOnce ==
  \A s \in Readable : "dates" \notin file[s].stat.odd =>
    \A d \in Days : file[s].stat.count[d] <= 1

\* "The timestamp up to which the stats have already been collected": every
\* day from the first one asked for up to the timestamp of a file is in it,
\* unless a run was given an end date or did not decay, was allowed a gap, or
\* began before midnight and read the clock again after it.
Complete ==
  \A s \in Readable : file[s].stat.odd = {} =>
    \A d \in file[s].stat.from..(file[s].stat.ts - 1) : file[s].stat.count[d] = 1

\* What the proofs of these two need.  A day that is in a statistic is in it
\* once and lies before the day t, and all days up to t are in it.
Once(stat, t) == \A d \in Days : stat.count[d] # 0 => stat.count[d] = 1 /\ d < t
Whole(stat, t) == \A d \in stat.from..(t - 1) : stat.count[d] = 1

\* A statistic as it is written.
Kept(stat) ==
  /\ stat.ts <= today /\ stat.from >= 1
  /\ "dates" \notin stat.odd => stat.ts >= 1 /\ Once(stat, stat.ts)
  /\ stat.odd = {} => Whole(stat, stat.ts)

\* A statistic before its decay: the logs are read from where it ends.
Loaded(stat) ==
  /\ stat.ahead = 0 /\ stat.ts <= today /\ stat.from >= 1
  /\ "dates" \notin stat.odd =>
       stat.ts <= job.end /\ job.end <= today /\ Once(stat, stat.ts)
  /\ stat.odd = {} =>
       IF stat.ts = 0 THEN stat.from = job.begin
       ELSE job.begin <= stat.ts /\ Whole(stat, stat.ts)

\* A statistic after its decay, if any: its old timestamp is where it ends.
Decayed(stat) ==
  /\ stat.ts <= today /\ stat.ahead <= stat.ts /\ stat.from >= 1
  /\ "dates" \notin stat.odd =>
       stat.ts >= 1 /\ job.end <= stat.ts /\ Once(stat, stat.ahead)
  /\ stat.odd = {} =>
       /\ stat.ts = job.end
       /\ IF stat.ahead = 0 THEN stat.from = job.begin
          ELSE job.begin <= stat.ahead /\ Whole(stat, stat.ahead)

FileInv == \A s \in Readable : Kept(file[s].stat) /\ file[s].stat.ahead = 0

JobInv ==
  /\ job.at # "idle" => job.begin >= 1
  /\ job.at = "load" /\ ~job.given =>
       job.end <= today /\ \A s \in Readable : file[s].stat.ts <= job.end
  /\ job.at = "decay" => \A s \in Stats : Loaded(job.mem[s])
  /\ job.at = "read" => \A s \in Stats : Decayed(job.mem[s])
  /\ job.at \in {"write", "writing"} => \A s \in Stats : Kept(job.mem[s])

Inv == TypeOK /\ FileInv /\ JobInv
=============================================================================
