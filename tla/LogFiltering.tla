---------------------------- MODULE LogFiltering ----------------------------
(***************************************************************************)
(* The offline filters of the user logs (meta/log/offline).  ReadLogs()    *)
(* reads the days of a range, each in a thread, a day that is a directory  *)
(* file by file in threads of its own, with a bound on the threads that    *)
(* are not waited for yet.  Each element goes to the pool of the log       *)
(* manager, where triggers write it to the file that their end point       *)
(* names; Wait() ends when the pool is empty.                              *)
(*                                                                         *)
(* A day is missing, a file or a directory.  A line is a part of an        *)
(* element: bad if it does not parse, last if it completes the element,    *)
(* and the end of a file may lack its newline.                             *)
(***************************************************************************)
EXTENDS Integers, Sequences, FiniteSets, FiniteSetsExt, SequencesExt

CONSTANTS Days,           \* the kind and the file names of each day, in order
          Lines,          \* the lines of each file
          Compressed,     \* the files that are compressed
          Unreadable,     \* the files that cannot be opened
          Elements,       \* of each element: office, sharded and its shard
          MaxAsync,       \* gFlag_max_async_calls
          Workers         \* the threads of the log manager's pool

VARIABLES main,           \* ReadLogs() and the Wait() after it
          job,            \* the asynchronous calls
          pool,           \* the elements that wait for a worker
          worker,         \* what each worker does
          writers_map,    \* the files with a writer
          opened,         \* the files that were opened, how often
          output          \* what was written to each file

vars == <<main, job, pool, worker, writers_map, opened, output>>

Files == DOMAIN Lines

DayJobs == {<<d>> : d \in DOMAIN Days}

FileJobs == {<<d, f>> : d \in {x \in DOMAIN Days : Days[x].kind = "dir"}, f \in Files}

\* The paths under the writing path: the day, and the file or the shard.
Paths == (DOMAIN Days) \X (Files \cup {Elements[e].shard : e \in DOMAIN Elements})

Idle == [st |-> "none", next |-> 1, line |-> <<>>, finished |-> 0, sum |-> 0]

Init ==
  /\ main = [pc |-> "launch", date |-> 1, counts |-> <<>>, finished |-> 0, sum |-> 0]
  /\ job = [j \in DayJobs \cup FileJobs |-> Idle]
  /\ pool = <<>>
  /\ worker = [w \in Workers |-> [pc |-> "idle"]]
  /\ writers_map = {}
  /\ opened = [p \in Paths |-> 0]
  /\ output = [p \in Paths |-> <<>>]

-----------------------------------------------------------------------------
\* Too many calls that were not waited for.
TooMany(launched, finished) == launched - finished > MaxAsync

\* The loop over the dates; a date without a file or directory is left out.
LaunchDay ==
  /\ main.pc = "launch" /\ ~TooMany(Len(main.counts), main.finished)
  /\ IF main.date > Len(Days)
     THEN main' = [main EXCEPT !.pc = "drain"] /\ UNCHANGED job
     ELSE /\ main' = [main EXCEPT !.date = @ + 1,
                                  !.counts = IF Days[main.date].kind = "none" THEN @
                                             ELSE Append(@, <<main.date>>)]
          /\ job' = IF Days[main.date].kind = "none" THEN job
                    ELSE [job EXCEPT ![<<main.date>>].st = "run"]
  /\ UNCHANGED <<pool, worker, writers_map, opened, output>>

\* get() of the oldest call, and its result.
GetDay ==
  /\ \/ main.pc = "launch" /\ TooMany(Len(main.counts), main.finished)
     \/ main.pc = "drain" /\ main.finished < Len(main.counts)
  /\ LET j == main.counts[main.finished + 1]
     IN  /\ job[j].st = "done"
         /\ main' = [main EXCEPT !.finished = @ + 1, !.sum = @ + job[j].sum]
  /\ UNCHANGED <<job, pool, worker, writers_map, opened, output>>

\* ReadLogs() returns.
ReadLogsEnds ==
  /\ main.pc = "drain" /\ main.finished = Len(main.counts)
  /\ main' = [main EXCEPT !.pc = "wait"]
  /\ UNCHANGED <<job, pool, worker, writers_map, opened, output>>

PoolEmpty == pool = <<>> /\ \A w \in Workers : worker[w].pc = "idle"

\* Mutant of Waited: the calls are waited for, but not the pool.
Waited_NoPool == main.pc = "wait"

\* LogManager::Wait()
Waited == main.pc = "wait" /\ PoolEmpty

Wait ==
  /\ Waited
  /\ main' = [main EXCEPT !.pc = "done"]
  /\ UNCHANGED <<job, pool, worker, writers_map, opened, output>>

\* ReadDirectory(), as ReadLogs() over the files.
LaunchFile(d) ==
  LET j == <<d>>
      names == Days[d].files
  IN  /\ Days[d].kind = "dir" /\ job[j].st = "run"
      /\ job[j].next <= Len(names) /\ ~TooMany(job[j].next - 1, job[j].finished)
      /\ job' = [job EXCEPT ![j].next = @ + 1, ![<<d, names[job[j].next]>>].st = "run"]
      /\ UNCHANGED <<main, pool, worker, writers_map, opened, output>>

GetFile(d) ==
  LET j == <<d>>
      names == Days[d].files
  IN  /\ Days[d].kind = "dir" /\ job[j].st = "run"
      /\ job[j].next > Len(names) \/ TooMany(job[j].next - 1, job[j].finished)
      /\ IF job[j].finished = Len(names)
         THEN job' = [job EXCEPT ![j].st = "done"]
         ELSE LET f == <<d, names[job[j].finished + 1]>>
              IN  /\ job[f].st = "done"
                  /\ job' = [job EXCEPT ![j].finished = @ + 1, ![j].sum = @ + job[f].sum]
      /\ UNCHANGED <<main, pool, worker, writers_map, opened, output>>

-----------------------------------------------------------------------------
\* The file that a call reads.
FileOf(j) == IF Len(j) = 2 THEN j[2] ELSE Days[j[1]].files[1]

ReadsFile(j) == Len(j) = 2 \/ Days[j[1]].kind = "file"

End(j, sum) == job' = [job EXCEPT ![j].st = "done", ![j].sum = sum]

\* elem_reader.Read() of what was read so far: the element, "more" or "bad".
Read(lines) ==
  CASE \E l \in ToSet(lines) : l.bad -> "bad"
    [] ~Last(lines).last -> "more"
    [] OTHER -> Last(lines).elem

Forward(j, elem) == pool' = Append(pool, [elem |-> elem, day |-> j[1], file |-> FileOf(j)])

CannotOpen(j) ==
  /\ job[j].st = "run" /\ ReadsFile(j) /\ FileOf(j) \in Unreadable
  /\ End(j, -1)
  /\ UNCHANGED <<main, pool, worker, writers_map, opened, output>>

\* ProcessGzipLines(): lines are collected until they are an element; a line
\* without its newline is not looked at, and a bad one ends the file.
ReadCompressed(j) ==
  LET f == FileOf(j)
      k == job[j].next
      lines == Append(job[j].line, Lines[f][k])
      res == Read(lines)
  IN  /\ job[j].st = "run" /\ ReadsFile(j) /\ f \in Compressed \ Unreadable
      /\ IF k > Len(Lines[f])
         THEN End(j, job[j].sum) /\ UNCHANGED pool
         ELSE IF ~Lines[f][k].newline \/ res = "more"
         THEN job' = [job EXCEPT ![j].next = @ + 1, ![j].line = lines] /\ UNCHANGED pool
         ELSE IF res = "bad"
         THEN End(j, job[j].sum) /\ UNCHANGED pool
         ELSE /\ job' = [job EXCEPT ![j].next = @ + 1, ![j].line = <<>>, ![j].sum = @ + 1]
              /\ Forward(j, res)
      /\ UNCHANGED <<main, worker, writers_map, opened, output>>

\* FileReader::ProcessAll(): each line is an element, and all are counted.
ReadUncompressed(j) ==
  LET f == FileOf(j)
      k == job[j].next
      res == Read(<<Lines[f][k]>>)
  IN  /\ job[j].st = "run" /\ ReadsFile(j) /\ f \notin Compressed \cup Unreadable
      /\ IF k > Len(Lines[f])
         THEN End(j, job[j].sum) /\ UNCHANGED pool
         ELSE /\ job' = [job EXCEPT ![j].next = @ + 1, ![j].sum = @ + 1]
              /\ IF res \in {"more", "bad"} THEN UNCHANGED pool ELSE Forward(j, res)
      /\ UNCHANGED <<main, worker, writers_map, opened, output>>

-----------------------------------------------------------------------------
\* The end point for the shard that an element belongs to.
ShardTarget(x) ==
  IF Elements[x.elem].sharded THEN <<<<x.day, Elements[x.elem].shard>>>> ELSE <<>>

\* The end point for the elements of the office: a copy of the log.
OfficeTarget(x) == IF Elements[x.elem].office THEN <<<<x.day, x.file>>>> ELSE <<>>

\* RunTriggers()
Targets(x) == ShardTarget(x) \o OfficeTarget(x)

\* A worker takes an element and runs its triggers.
TakeElement(w) ==
  /\ worker[w].pc = "idle" /\ pool # <<>>
  /\ pool' = Tail(pool)
  /\ worker' = [worker EXCEPT ![w] = [pc |-> "find", elem |-> Head(pool).elem, to |-> Targets(Head(pool))]]
  /\ UNCHANGED <<main, job, writers_map, opened, output>>

\* WriteLogElement(): the writer of the file, under the mutex of the map.
FindWriter(w) ==
  /\ worker[w].pc = "find"
  /\ IF worker[w].to = <<>>
     THEN worker' = [worker EXCEPT ![w] = [pc |-> "idle"]] /\ UNCHANGED writers_map
     ELSE /\ worker' = [worker EXCEPT ![w].pc = "write"]
          /\ writers_map' = writers_map \cup {Head(worker[w].to)}
  /\ UNCHANGED <<main, job, pool, opened, output>>

\* WriteLog(): the file is opened the first time, and written to.
WriteLog(w) ==
  LET p == Head(worker[w].to)
  IN  /\ worker[w].pc = "write"
      /\ opened' = [opened EXCEPT ![p] = IF @ = 0 THEN 1 ELSE @]
      /\ output' = [output EXCEPT ![p] = Append(@, worker[w].elem)]
      /\ worker' = [worker EXCEPT ![w].pc = "find", ![w].to = Tail(@)]
      /\ UNCHANGED <<main, job, pool, writers_map>>

ReadStep(j) == CannotOpen(j) \/ ReadCompressed(j) \/ ReadUncompressed(j)

Work(w) == TakeElement(w) \/ FindWriter(w) \/ WriteLog(w)

ReadLogs == LaunchDay \/ GetDay \/ ReadLogsEnds \/ Wait

ReadDirectory(d) == LaunchFile(d) \/ GetFile(d)

Next ==
  \/ ReadLogs
  \/ \E d \in DOMAIN Days : ReadDirectory(d)
  \/ \E j \in DayJobs \cup FileJobs : ReadStep(j)
  \/ \E w \in Workers : Work(w)

\* Each thread goes on.
Fairness ==
  /\ WF_vars(ReadLogs)
  /\ \A d \in DOMAIN Days : WF_vars(ReadDirectory(d))
  /\ \A j \in DayJobs \cup FileJobs : WF_vars(ReadStep(j))
  /\ \A w \in Workers : WF_vars(Work(w))

Spec == Init /\ [][Next]_vars /\ Fairness

-----------------------------------------------------------------------------
Readable(d) == IF Days[d].kind = "none" THEN {} ELSE ToSet(Days[d].files) \ Unreadable

\* The lines of a file that a reader gets to: a compressed file is read up to
\* the first bad line or the line without a newline.
Reached(f) ==
  {k \in DOMAIN Lines[f] : f \in Compressed => /\ \A i \in 1 .. k : ~Lines[f][i].bad
                                               /\ Lines[f][k].newline}

\* The elements of a file that are read: in a compressed file the last of its
\* lines stands for the element.
ElementsOf(f) == {k \in Reached(f) : Lines[f][k].last /\ ~Lines[f][k].bad}

Expected(p, e) ==
  LET d == p[1]
      times(f) == Cardinality({k \in ElementsOf(f) : Lines[f][k].elem = e})
  IN  (IF Elements[e].sharded /\ Elements[e].shard = p[2]
       THEN MapThenSumSet(times, Readable(d)) ELSE 0) +
      (IF Elements[e].office /\ p[2] \in Readable(d) THEN times(p[2]) ELSE 0)

Written(p, e) == Len(SelectSeq(output[p], LAMBDA x : x = e))

\* When the filters have ended, each element that was read is in the file of
\* its day and shard, once for each time it was logged, and so with the
\* elements of the office; at no time is one written too often, and a file is
\* opened once.
FilteredOnce ==
  \A p \in Paths : /\ \A e \in DOMAIN Elements : Written(p, e) <= Expected(p, e)
                   /\ main.pc = "done" => \A e \in DOMAIN Elements : Written(p, e) = Expected(p, e)
                   /\ opened[p] = (IF output[p] = <<>> THEN 0 ELSE 1)

\* No more calls run at a time than the bound allows, of a directory or in all.
CallsBounded ==
  /\ Cardinality({j \in DayJobs : job[j].st = "run"}) <= MaxAsync + 1
  /\ \A d \in DOMAIN Days : Cardinality({j \in FileJobs : j[1] = d /\ job[j].st = "run"}) <= MaxAsync + 1

\* What ReadLogs() returns: the elements, the lines of files that are not
\* compressed, bad or not, and -1 for each file that cannot be opened.
Counted ==
  LET count(f) == IF f \in Unreadable THEN -1
                  ELSE IF f \in Compressed THEN Cardinality(ElementsOf(f)) ELSE Len(Lines[f])
      day(d) == IF Days[d].kind = "none" THEN 0 ELSE MapThenSumSet(count, ToSet(Days[d].files))
  IN  main.pc \in {"wait", "done"} => main.sum = MapThenSumSet(day, DOMAIN Days)

Ended == main.pc = "done"

\* The filters end, with threads that wait for threads.
FilteringEnds == <>Ended
=============================================================================
