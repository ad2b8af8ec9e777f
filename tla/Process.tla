----------------------------- MODULE Process --------------------------------
(***************************************************************************)
(* The parts of a process that share tables between threads or runs, of    *)
(* which one runs in a behaviour: the task server, the hooks of init and   *)
(* exit, the cache of a store, and the job that updates statistics. Keys   *)
(* and threads are interchangeable. The proofs about the four follow.      *)
(***************************************************************************)
EXTENDS TaskServer, Integers, Sequences, FiniteSetTheorems,
        WellFoundedInduction, TLC, TLAPS

CONSTANTS
  InitHooks, ExitHooks, Level, Group, Groups, Required, RegisterExit, Main,
  Quitters,                                    \* of InitExit
  CacheKeys, StoredKeys, CacheThreads, none,
  CacheSize, MaxMisses,                        \* of SimpleCacher
  Statistics, MaxDay, MaxTroubles, Ends         \* of StatsUpdater

\* The instance that is model-checked.
HookLevel == "i1" :> -1 @@ "i2" :> 0 @@ "ireg" :> 0 @@ "i3" :> 1 @@ "e1" :> 0 @@ "ereq" :> 0 @@ "e2" :> 1
HookGroup == [h \in DOMAIN HookLevel |-> IF h \in {"ireg", "ereq"} THEN "req" ELSE "g"]

Symmetry == Permutations(CacheKeys) \cup Permutations(CacheThreads)

VARIABLES which, i_include, i_exclude, i_async, i_hook, i_starts, i_future,
          i_lists, i_pc, i_kind, i_level, i_todo, i_ran_before, i_process,
          s_list, s_cache, s_asking, s_misses, s_twice, u_today, u_file,
          u_job, u_troubles   \* which: the component that runs

Hooks == INSTANCE InitExit WITH
  include <- i_include, exclude <- i_exclude, async <- i_async,
  hook <- i_hook, starts <- i_starts, future <- i_future, lists <- i_lists,
  pc <- i_pc, kind <- i_kind, level <- i_level, todo <- i_todo,
  ran_before <- i_ran_before, process <- i_process

Cacher == INSTANCE SimpleCacher WITH
  list <- s_list, cache <- s_cache, asking <- s_asking, misses <- s_misses,
  twice <- s_twice, Keys <- CacheKeys \cup StoredKeys, Threads <- CacheThreads,
  NoKey <- none, Present <- StoredKeys

Stats == INSTANCE StatsUpdater WITH
  today <- u_today, file <- u_file, job <- u_job, troubles <- u_troubles,
  Stats <- Statistics

ASSUME HooksAssumption == Hooks!InitExitAssumption
ASSUME CacherAssumption == Cacher!SimpleCacherAssumption
ASSUME StatsAssumption == Stats!StatsUpdaterAssumption

TasksVars == <<locked, running, future, result, pc, held, got, start, clock,
               hist, crashed>>
HooksVars == <<i_include, i_exclude, i_async, i_hook, i_starts, i_future,
               i_lists, i_pc, i_kind, i_level, i_todo, i_ran_before, i_process>>
CacherVars == <<s_list, s_cache, s_asking, s_misses, s_twice>>
StatsVars == <<u_today, u_file, u_job, u_troubles>>

allVars == <<which, TasksVars, HooksVars, CacherVars, StatsVars>>

AllInit ==
  /\ which \in {"tasks", "init", "cacher", "stats"}
  /\ Init
  /\ IF which = "init" THEN Hooks!Init
     ELSE i_include = 0 /\ i_exclude = 0 /\ i_async = 0 /\ i_hook = 0 /\ i_starts = 0 /\ i_future = 0 /\ i_lists = 0 /\ i_pc = 0 /\ i_kind = 0 /\ i_level = 0 /\ i_todo = 0 /\ i_ran_before = 0 /\ i_process = 0
  /\ IF which = "cacher" THEN Cacher!Init
     ELSE s_list = 0 /\ s_cache = 0 /\ s_asking = 0 /\ s_misses = 0 /\ s_twice = 0
  /\ IF which = "stats" THEN Stats!Init
     ELSE u_today = 0 /\ u_file = 0 /\ u_job = 0 /\ u_troubles = 0

AllNext ==
  /\ UNCHANGED which
  /\ \/ /\ which = "tasks" /\ Next
        /\ UNCHANGED <<HooksVars, CacherVars, StatsVars>>
     \/ /\ which = "init" /\ Hooks!Next
        /\ UNCHANGED <<TasksVars, CacherVars, StatsVars>>
     \/ /\ which = "cacher" /\ Cacher!Next
        /\ UNCHANGED <<TasksVars, HooksVars, StatsVars>>
     \/ /\ which = "stats" /\ (Stats!Next \/ UNCHANGED StatsVars)
        /\ UNCHANGED <<TasksVars, HooksVars, CacherVars>>

AllSpec == AllInit /\ [][AllNext]_allVars

-----------------------------------------------------------------------------
\* The init hooks of a priority start when the selected ones of all lower
\* priorities have returned, and init_main() runs after exactly the selected
\* ones, whoever ends the process.  Of the exit hooks the same order holds, and
\* that the process does not end before each of them has run, once, if at most
\* one thread ends it: main() or quick_exit() of another thread after its
\* registration.  A second one finds ran_before set and ends the process under
\* the hooks.  What only main() ends has run the required hooks, whatever the
\* flags say (init.cc, main.cc).
HooksOrdered ==
  which = "init" => Hooks!TypeOK /\ Hooks!LevelOrder /\ Hooks!MainAfterInit
    /\ Hooks!RequiredRun /\ Hooks!ExitHooksRun

\* The iterator of every entry points to a node that is in the list and holds
\* its key, whatever duplicates the unlocked lookups have left, and each
\* duplicate costs at most one element too many (simple_cacher.h).
CacherNoDangling ==
  which = "cacher" => Cacher!TypeOK /\ Cacher!NoDangling /\
    Cacher!OverrunBounded

\* Every day up to the timestamp of a file is counted in it exactly once,
\* whatever runs failed or crashed after some of the files had been written;
\* with an end date, an allowed gap or a midnight within a run days may be
\* missing, and with an end date or the decay switched off, which also keeps the
\* timestamp, counted again (incremental_log_stats_updater.cc).
StatsExact ==
  which = "stats" => Stats!TypeOK /\ Stats!CountedOnce /\ Stats!Complete
-----------------------------------------------------------------------------
(* Proofs, for every set of Start calls: the flag locked_ is enough to     *)
(* keep the runs of a task apart and to keep the detached thread of one    *)
(* run from clearing running_ under the next.                              *)

(* The call has set locked_ and its detached thread has not cleared it.    *)
Holding(c) == pc[c] \in {"locked", "marked", "started", "wait", "waited", "unmarked"}

(* locked_ is a lock: it is set while a call holds it, and one call does.  *)
LockInv ==
  /\ \A c \in Calls : Holding(c) => locked
  /\ \A c, d \in Calls : Holding(c) /\ Holding(d) => c = d

(* running_ is set from the holder's mark to its removal.                  *)
MarkInv == \A c \in Calls : pc[c] \in {"marked", "started", "wait", "waited"} => running

(* A function that runs is that of the holder, which waits for it: no      *)
(* later run has come into future_, although get() of an earlier one may   *)
(* have emptied it.                                                        *)
FutureInv ==
  \A c \in Calls :
    result[c] = "running" => pc[c] \in {"started", "wait"} /\ future \in {c, None}

TypeInv ==
  /\ pc \in [Calls -> PCs]
  /\ result \in [Calls -> {"none", "running", "true", "false"}]

TaskInv == TypeInv /\ LockInv /\ MarkInv /\ FutureInv

(* TaskInv is inductive: it holds when the task is registered and every    *)
(* step of Start, of the function and of wait() keeps it.                  *)
THEOREM TaskInvariant == Spec => []TaskInv
  <1>1. Init => TaskInv
    BY DEF Init, TaskInv, TypeInv, LockInv, MarkInv, FutureInv, Holding, PCs
  <1>2. TaskInv /\ [Next]_vars => TaskInv'
    <2> SUFFICES ASSUME TaskInv, [Next]_vars PROVE TaskInv'
      OBVIOUS
    <2> USE TaskServerAssumption DEF TaskServerAssumption, TaskInv
    <2>1. CASE UNCHANGED vars
      BY <2>1 DEF vars, TypeInv, LockInv, MarkInv, FutureInv, Holding
    <2>2. ASSUME NEW c \in Calls, CallStep(c) PROVE TaskInv'
      <3> USE DEF TypeInv, LockInv, MarkInv, FutureInv, Holding, Goto, PCs, flagVars
      <3>1. CASE TestAndSet(c)
        BY <3>1 DEF TestAndSet
      <3>2. CASE MarkRunning(c)
        BY <3>2 DEF MarkRunning
      <3>3. CASE StartAsync(c)
        BY <3>3 DEF StartAsync
      <3>4. CASE FunctionReturns(c)
        BY <3>4 DEF FunctionReturns
      <3>5. CASE LogStart(c)
        BY <3>5 DEF LogStart
      <3>6. CASE AwaitFuture(c)
        BY <3>6 DEF AwaitFuture, Finished
      <3>7. CASE ClearRunning(c)
        BY <3>7 DEF ClearRunning
      <3>8. CASE ClearLock(c)
        BY <3>8 DEF ClearLock
      <3>9. CASE TakeState(c) \/ GetResult(c)
        BY <3>9 DEF TakeState, GetResult, Finished
      <3>10. CASE NoState(c)
        BY <3>10 DEF NoState
      <3>11. CASE LogFinish(c)
        BY <3>11 DEF LogFinish
      <3> QED
        BY <2>2, <3>1, <3>2, <3>3, <3>4, <3>5, <3>6, <3>7, <3>8, <3>9, <3>10, <3>11
        DEF CallStep
    <2>3. CASE Terminated
      BY <2>3 DEF Terminated, vars, TypeInv, LockInv, MarkInv, FutureInv, Holding
    <2> QED
      BY <2>1, <2>2, <2>3 DEF Next
  <1> QED
    BY <1>1, <1>2, PTL DEF Spec

(* The task is never run twice in parallel, whatever calls of Start        *)
(* overlap: two functions that run would belong to two holders of locked_. *)
THEOREM OneRun == Spec => []OneRunAtATime
  <1>1. TaskInv => OneRunAtATime
    <2> SUFFICES ASSUME TaskInv PROVE Cardinality(Running) <= 1
      BY DEF OneRunAtATime
    <2>1. \A c, d \in Running : c = d
      BY DEF TaskInv, LockInv, FutureInv, Holding, Running
    <2>2. CASE Running = {}
      BY <2>2, FS_EmptySet
    <2>3. CASE \E c \in Running : TRUE
      <3>1. PICK c \in Running : TRUE
        BY <2>3
      <3>2. Running = {c}
        BY <2>1, <3>1
      <3> QED
        BY <3>2, FS_Singleton
    <2> QED
      BY <2>2, <2>3
  <1> QED
    BY <1>1, TaskInvariant, PTL

(* Status answers that the task runs whenever its function does: running_  *)
(* is cleared by the detached thread of the run itself, after its function *)
(* has returned, and never by that of an older run.                        *)
THEOREM StatusTruthful == Spec => []StatusSeesRun
  <1>1. TaskInv => StatusSeesRun
    BY DEF TaskInv, MarkInv, FutureInv, StatusSeesRun, Running
  <1> QED
    BY <1>1, TaskInvariant, PTL
-----------------------------------------------------------------------------
(* Proofs about History: the ends of runs are entered late and in any      *)
(* order, so what Update() drops has to be argued about.                   *)

Starts == {start[c] : c \in Calls} \ {0}

(* A call has a start time once it is entered, and no two have the same.   *)
StartInv ==
  /\ \A c \in Calls : start[c] # 0 <=>
       pc[c] \in {"wait", "waited", "unmarked", "get", "taken", "update", "done"}
  /\ \A c, d \in Calls : start[c] = start[d] /\ start[c] # 0 => c = d
  /\ \A c \in Calls : start[c] <= clock
  /\ \A c \in Calls : pc[c] = "update" => got[c] # "none"

(* History holds the youngest runs: none is missing that is younger than   *)
(* one of them, and one is missing only if there are MaxHistory.           *)
HistoryInv ==
  /\ DOMAIN hist \subseteq Starts
  /\ \A s \in DOMAIN hist, u \in Starts : u > s => u \in DOMAIN hist
  /\ Cardinality(DOMAIN hist) <= MaxHistory
  /\ DOMAIN hist # Starts => Cardinality(DOMAIN hist) = MaxHistory

HistInv == TypeOK /\ StartInv /\ HistoryInv

(* The oldest entry of a history, which Update() drops.                    *)
LEMMA OldestFacts ==
  ASSUME NEW h, DOMAIN h \subseteq Nat, DOMAIN h # {}
  PROVE  Oldest(h) \in DOMAIN h /\ \A u \in DOMAIN h : Oldest(h) <= u
  <1>1. \E s \in DOMAIN h : \A u \in DOMAIN h : ~(<<u, s>> \in OpToRel(<, Nat))
    BY NatLessThanWellFounded, WFMin
  <1>2. PICK s \in DOMAIN h : \A u \in DOMAIN h : ~(<<u, s>> \in OpToRel(<, Nat))
    BY <1>1
  <1>3. \A u \in DOMAIN h : ~(u < s)
    BY <1>2 DEF OpToRel
  <1>4. \A u \in DOMAIN h : s <= u
    BY <1>3
  <1> QED
    BY <1>4 DEF Oldest

(* A history that holds the youngest of the runs still does so after       *)
(* Update(): of a run that is entered for the first time, which is younger *)
(* than all others, or of the end of a run, even one that was dropped.     *)
LEMMA UpdateFacts ==
  ASSUME NEW s \in Nat, NEW entry, NEW S, S \subseteq Nat, IsFiniteSet(S),
         DOMAIN hist \subseteq S,
         \A a \in DOMAIN hist, u \in S : u > a => u \in DOMAIN hist,
         Cardinality(DOMAIN hist) <= MaxHistory,
         DOMAIN hist # S => Cardinality(DOMAIN hist) = MaxHistory,
         s \in S \/ \A u \in S : u < s,
         Update(s, entry)
  PROVE  /\ DOMAIN hist' \subseteq S \cup {s}
         /\ \A a \in DOMAIN hist', u \in S \cup {s} : u > a => u \in DOMAIN hist'
         /\ Cardinality(DOMAIN hist') <= MaxHistory
         /\ DOMAIN hist' # S \cup {s} => Cardinality(DOMAIN hist') = MaxHistory
         /\ \A u \in DOMAIN hist' : hist'[u] = IF u = s THEN entry ELSE hist[u]
         /\ DOMAIN hist' \subseteq DOMAIN hist \cup {s}
  <1> DEFINE h == Updated(s, entry)
  <1> USE TaskServerAssumption DEF TaskServerAssumption
  <1>1. /\ DOMAIN h = DOMAIN hist \cup {s}
        /\ \A u \in DOMAIN h : h[u] = IF u = s THEN entry ELSE hist[u]
    BY DEF Updated
  <1>2. IsFiniteSet(DOMAIN hist) /\ Cardinality(DOMAIN hist) \in Nat
    BY FS_Subset, FS_CardinalityType
  <1>3. /\ IsFiniteSet(DOMAIN h)
        /\ Cardinality(DOMAIN h) =
             IF s \in DOMAIN hist THEN Cardinality(DOMAIN hist) ELSE Cardinality(DOMAIN hist) + 1
    BY <1>1, <1>2, FS_AddElement
  <1>4. CASE Cardinality(DOMAIN h) > MaxHistory
    <2>1. hist' = [u \in DOMAIN h \ {Oldest(h)} |-> h[u]]
      BY <1>4 DEF Update
    <2>2. s \notin DOMAIN hist /\ Cardinality(DOMAIN hist) = MaxHistory
      BY <1>2, <1>3, <1>4
    <2>3. Oldest(h) \in DOMAIN h /\ \A u \in DOMAIN h : Oldest(h) <= u
      BY <1>1, OldestFacts
    <2>4. DOMAIN hist' = DOMAIN h \ {Oldest(h)}
      BY <2>1
    <2>5. Cardinality(DOMAIN hist') = MaxHistory
      BY <1>2, <1>3, <2>2, <2>3, <2>4, FS_RemoveElement
    <2>6. ASSUME NEW a \in DOMAIN hist', NEW u \in S \cup {s}, u > a
          PROVE  u \in DOMAIN hist'
      <3>1. a \in DOMAIN h /\ a # Oldest(h) /\ a \in Nat /\ u \in Nat
        BY <1>1, <2>4
      <3>2. Oldest(h) \in Nat
        BY <1>1, <2>3
      <3>3. Oldest(h) <= a
        BY <2>3, <3>1
      <3>4. u # Oldest(h)
        BY <2>6, <3>1, <3>2, <3>3
      <3>5. u \in DOMAIN h
        <4>1. CASE a = s
          <5>1. s \in S
            BY <2>6, <4>1, <3>1
          <5>2. ASSUME NEW b \in DOMAIN hist PROVE b > s
            <6>1. b \in Nat /\ b # s /\ ~(s > b)
              BY <2>2, <5>1
            <6> QED
              BY <6>1
          <5>3. Oldest(h) # s /\ Oldest(h) \in DOMAIN hist
            BY <1>1, <2>3, <3>1, <4>1
          <5> QED
            BY <3>2, <3>3, <4>1, <5>2, <5>3
        <4>2. CASE a \in DOMAIN hist
          BY <1>1, <2>6, <4>2
        <4> QED
          BY <1>1, <3>1, <4>1, <4>2
      <3> QED
        BY <2>4, <3>4, <3>5
    <2> QED
      BY <1>1, <2>1, <2>4, <2>5, <2>6
  <1>5. CASE ~(Cardinality(DOMAIN h) > MaxHistory)
    <2>1. hist' = h
      BY <1>5 DEF Update
    <2>2. Cardinality(DOMAIN h) <= MaxHistory
      BY <1>2, <1>3, <1>5
    <2>3. s \in DOMAIN hist \/ \A u \in S : u < s
      <3>1. CASE s \in S /\ s \notin DOMAIN hist
        BY <1>2, <1>3, <1>5, <3>1
      <3> QED
        BY <3>1
    <2>4. DOMAIN h # S \cup {s} => Cardinality(DOMAIN h) = MaxHistory
      BY <1>1, <1>2, <1>3, <1>5
    <2>5. ASSUME NEW a \in DOMAIN h, NEW u \in S \cup {s}, u > a PROVE u \in DOMAIN h
      <3>1. CASE u = s
        BY <1>1, <3>1
      <3>2. CASE u \in S /\ a \in DOMAIN hist
        BY <1>1, <2>5, <3>2
      <3>3. CASE u \in S /\ a = s /\ a \notin DOMAIN hist
        <4>1. u < s /\ u \in Nat
          BY <2>3, <3>3
        <4> QED
          BY <2>5, <3>3, <4>1
      <3> QED
        BY <1>1, <3>1, <3>2, <3>3
    <2> QED
      BY <1>1, <2>1, <2>2, <2>4, <2>5
  <1> QED
    BY <1>4, <1>5

(* The entries of History are runs, the last ones of them, although the    *)
(* ends are entered late: TaskHistory and the invariant it needs.          *)
THEOREM HistoryInvariant == Spec => []HistInv
  <1> USE TaskServerAssumption DEF TaskServerAssumption
  <1>1. Init => HistInv
    <2> SUFFICES ASSUME Init PROVE HistInv
      OBVIOUS
    <2>1. DOMAIN hist = {} /\ Cardinality(DOMAIN hist) = 0
      BY FS_EmptySet DEF Init
    <2>2. Starts = {}
      BY DEF Init, Starts
    <2>3. HistoryInv
      BY <2>1, <2>2 DEF HistoryInv
    <2>4. StartInv
      BY DEF Init, StartInv
    <2>5. TypeOK
      BY <2>1 DEF Init, TypeOK, PCs
    <2> QED
      BY <2>3, <2>4, <2>5 DEF HistInv
  <1>2. HistInv /\ [Next]_vars => HistInv'
    <2> SUFFICES ASSUME HistInv, [Next]_vars PROVE HistInv'
      OBVIOUS
    <2>0. TypeOK /\ StartInv /\ HistoryInv
      BY DEF HistInv
    <2>1. ASSUME UNCHANGED <<hist, start>> PROVE HistoryInv'
      BY <2>0, <2>1 DEF HistoryInv, Starts
    <2>2. CASE UNCHANGED vars
      BY <2>0, <2>1, <2>2 DEF vars, TypeOK, StartInv, HistInv
    <2>3. CASE Terminated
      BY <2>2, <2>3 DEF Terminated
    <2>4. Starts \subseteq Nat /\ IsFiniteSet(Starts)
      <3>1. Starts \subseteq Nat /\ \A s \in Starts : s <= clock
        BY <2>0 DEF TypeOK, StartInv, Starts
      <3> QED
        BY <2>0, <3>1, FS_BoundedSetOfNaturals DEF TypeOK
    <2>5. ASSUME NEW c \in Calls, CallStep(c) PROVE HistInv'
      <3>1. CASE LogStart(c)
        <4> DEFINE s == clock + 1
        <4>1. /\ s \in Nat /\ \A u \in Starts : u < s
              /\ start' = [start EXCEPT ![c] = s] /\ clock' = s
              /\ Update(s, [finish |-> 0, success |-> "false"])
          BY <2>0, <3>1 DEF LogStart, TypeOK, StartInv, Starts
        <4>2. Starts' = Starts \cup {s}
          <5>1. start[c] = 0
            BY <2>0, <3>1 DEF LogStart, Goto, StartInv
          <5> QED
            BY <2>0, <4>1, <5>1 DEF Starts, TypeOK
        <4> HIDE DEF s
        <4>3. /\ HistoryInv' /\ DOMAIN hist' \subseteq DOMAIN hist \cup {s}
              /\ \A u \in DOMAIN hist' : hist'[u] = IF u = s THEN [finish |-> 0, success |-> "false"] ELSE hist[u]
          <5>1. /\ DOMAIN hist \subseteq Starts
                /\ \A a \in DOMAIN hist, u \in Starts : u > a => u \in DOMAIN hist
                /\ Cardinality(DOMAIN hist) <= MaxHistory
                /\ DOMAIN hist # Starts => Cardinality(DOMAIN hist) = MaxHistory
            BY <2>0 DEF HistoryInv
          <5>2. s \in Nat /\ (s \in Starts \/ \A u \in Starts : u < s)
            BY <2>4, <4>1
          <5>3. /\ DOMAIN hist' \subseteq Starts \cup {s}
                /\ \A a \in DOMAIN hist', u \in Starts \cup {s} : u > a => u \in DOMAIN hist'
                /\ Cardinality(DOMAIN hist') <= MaxHistory
                /\ DOMAIN hist' # Starts \cup {s} => Cardinality(DOMAIN hist') = MaxHistory
                /\ \A u \in DOMAIN hist' : hist'[u] = IF u = s THEN [finish |-> 0, success |-> "false"] ELSE hist[u]
                /\ DOMAIN hist' \subseteq DOMAIN hist \cup {s}
            BY <2>4, <4>1, <5>1, <5>2, UpdateFacts, ZenonT(40)
          <5> QED
            BY <4>2, <5>3 DEF HistoryInv
        <4>4. TypeOK'
          <5>1. DOMAIN hist' \subseteq 1 .. clock'
            BY <2>0, <4>1, <4>3 DEF TypeOK, s
          <5>2. \A u \in DOMAIN hist' : hist'[u] \in [finish : Nat, success : {"true", "false"}]
            BY <2>0, <4>3 DEF TypeOK
          <5> QED
            BY <2>0, <3>1, <4>1, <5>1, <5>2 DEF TypeOK, LogStart, Goto, flagVars, PCs
        <4>5. StartInv'
          BY <2>0, <3>1, <4>1 DEF StartInv, TypeOK, LogStart, Goto, Starts, s
        <4> QED
          BY <4>3, <4>4, <4>5 DEF HistInv
      <3>2. CASE LogFinish(c)
        <4>0. PICK t \in start[c] .. clock + 1 : Update(start[c], [finish |-> t, success |-> got[c]])
          BY <3>2 DEF LogFinish
        <4> DEFINE entry == [finish |-> t, success |-> got[c]]
        <4>1. start[c] \in Starts /\ Update(start[c], entry) /\ start' = start
          BY <2>0, <3>2, <4>0 DEF LogFinish, Goto, StartInv, Starts
        <4>2. Starts' = Starts /\ Starts = Starts \cup {start[c]}
          BY <4>1 DEF Starts
        <4>3. /\ HistoryInv' /\ DOMAIN hist' \subseteq DOMAIN hist \cup {start[c]}
              /\ \A u \in DOMAIN hist' : hist'[u] = IF u = start[c] THEN entry ELSE hist[u]
          <5>1. /\ DOMAIN hist \subseteq Starts
                /\ \A a \in DOMAIN hist, u \in Starts : u > a => u \in DOMAIN hist
                /\ Cardinality(DOMAIN hist) <= MaxHistory
                /\ DOMAIN hist # Starts => Cardinality(DOMAIN hist) = MaxHistory
            BY <2>0 DEF HistoryInv
          <5>2. start[c] \in Nat /\ (start[c] \in Starts \/ \A u \in Starts : u < start[c])
            BY <2>4, <4>1
          <5>3. /\ DOMAIN hist' \subseteq Starts \cup {start[c]}
                /\ \A a \in DOMAIN hist', u \in Starts \cup {start[c]} : u > a => u \in DOMAIN hist'
                /\ Cardinality(DOMAIN hist') <= MaxHistory
                /\ DOMAIN hist' # Starts \cup {start[c]} => Cardinality(DOMAIN hist') = MaxHistory
                /\ \A u \in DOMAIN hist' : hist'[u] = IF u = start[c] THEN entry ELSE hist[u]
                /\ DOMAIN hist' \subseteq DOMAIN hist \cup {start[c]}
            BY <2>4, <4>1, <5>1, <5>2, UpdateFacts, ZenonT(40)
          <5> QED
            BY <4>2, <5>3 DEF HistoryInv
        <4>4. entry \in [finish : Nat, success : {"true", "false"}]
          BY <2>0, <3>2 DEF LogFinish, Goto, StartInv, TypeOK
        <4>5. DOMAIN hist' \subseteq 1 .. clock'
          BY <2>0, <3>2, <4>1, <4>3 DEF TypeOK, StartInv, LogFinish, Starts
        <4> HIDE DEF entry
        <4>6. TypeOK'
          BY <2>0, <3>2, <4>3, <4>4, <4>5 DEF TypeOK, LogFinish, Goto, flagVars, PCs
        <4>7. StartInv'
          BY <2>0, <3>2 DEF StartInv, TypeOK, LogFinish, Goto
        <4> QED
          BY <4>3, <4>6, <4>7 DEF HistInv
      <3> USE DEF TypeOK, StartInv, HistInv, Goto, PCs, flagVars, histVars
      <3>3. CASE TestAndSet(c)
        BY <2>0, <2>1, <3>3 DEF TestAndSet
      <3>4. CASE MarkRunning(c)
        BY <2>0, <2>1, <3>4 DEF MarkRunning
      <3>5. CASE StartAsync(c)
        BY <2>0, <2>1, <3>5 DEF StartAsync
      <3>6. CASE FunctionReturns(c)
        BY <2>0, <2>1, <3>6 DEF FunctionReturns
      <3>7. CASE AwaitFuture(c)
        BY <2>0, <2>1, <3>7 DEF AwaitFuture
      <3>8. CASE ClearRunning(c)
        BY <2>0, <2>1, <3>8 DEF ClearRunning
      <3>9. CASE ClearLock(c)
        BY <2>0, <2>1, <3>9 DEF ClearLock
      <3>10. CASE TakeState(c) \/ GetResult(c)
        BY <2>0, <2>1, <3>10 DEF TakeState, GetResult, Finished
      <3>11. CASE NoState(c)
        BY <2>0, <2>1, <3>11 DEF NoState
      <3> QED
        BY <2>5, <3>1, <3>2, <3>3, <3>4, <3>5, <3>6, <3>7, <3>8, <3>9, <3>10, <3>11
        DEF CallStep
    <2> QED
      BY <2>2, <2>3, <2>5 DEF Next
  <1> QED
    BY <1>1, <1>2, PTL DEF Spec

(* History shows a run iff fewer than MaxHistory runs started after it,    *)
(* whatever the order in which the detached threads enter the ends.        *)
THEOREM HistoryTruthful == Spec => []TaskHistory
  <1> USE TaskServerAssumption DEF TaskServerAssumption
  <1>1. HistInv => TaskHistory
    <2> SUFFICES ASSUME HistInv, NEW s \in Starts
                 PROVE  s \in DOMAIN hist <=> Cardinality({u \in Starts : u > s}) < MaxHistory
      BY DEF HistInv, TaskHistory, HistoryKeepsLast, Starts
    <2> DEFINE after == {u \in Starts : u > s}
    <2>1. Starts \subseteq Nat /\ \A u \in Starts : u <= clock
      BY DEF HistInv, TypeOK, StartInv, Starts
    <2>2. IsFiniteSet(Starts) /\ clock \in Nat
      BY <2>1, FS_BoundedSetOfNaturals DEF HistInv, TypeOK
    <2>3. /\ IsFiniteSet(after) /\ Cardinality(after) \in Nat
          /\ IsFiniteSet(DOMAIN hist) /\ Cardinality(DOMAIN hist) \in Nat
      BY <2>2, FS_Subset, FS_CardinalityType DEF HistInv, HistoryInv
    <2>4. CASE s \in DOMAIN hist
      <3>1. after \subseteq DOMAIN hist \ {s}
        BY <2>1, <2>4 DEF HistInv, HistoryInv
      <3>2. /\ IsFiniteSet(DOMAIN hist \ {s})
            /\ Cardinality(DOMAIN hist \ {s}) = Cardinality(DOMAIN hist) - 1
        BY <2>3, <2>4, FS_RemoveElement
      <3>3. Cardinality(after) <= Cardinality(DOMAIN hist) - 1
        BY <3>1, <3>2, FS_Subset
      <3> QED
        BY <2>3, <2>4, <3>3 DEF HistInv, HistoryInv
    <2>5. CASE s \notin DOMAIN hist
      <3>1. ASSUME NEW u \in DOMAIN hist PROVE u \in after
        <4>1. u \in Starts /\ u # s /\ ~(s > u)
          BY <2>5 DEF HistInv, HistoryInv
        <4>2. u \in Nat /\ s \in Nat
          BY <2>1, <4>1
        <4>3. u > s
          BY <4>1, <4>2
        <4> QED
          BY <4>1, <4>3
      <3>2. Cardinality(DOMAIN hist) <= Cardinality(after)
        BY <2>3, <3>1, FS_Subset
      <3>3. Cardinality(DOMAIN hist) = MaxHistory
        BY <2>5 DEF HistInv, HistoryInv
      <3> QED
        BY <2>3, <2>5, <3>2, <3>3
    <2> QED
      BY <2>4, <2>5
  <1> QED
    BY <1>1, HistoryInvariant, PTL
-----------------------------------------------------------------------------
(* Proofs about the cache of a store, for all keys, threads and sizes.     *)

\* The keys and the nodes of the instance.
CKeys == CacheKeys \cup StoredKeys
CNode == [key : CKeys, id : Nat]

(* SimpleCacher counts with the operators of FiniteSets.                   *)
LEMMA CacherFinite ==
  ASSUME NEW S
  PROVE  (Cacher!IsFiniteSet(S) <=> IsFiniteSet(S)) /\ Cacher!Cardinality(S) = Cardinality(S)
  <1>1. Cacher!IsFiniteSet(S) <=> IsFiniteSet(S)
    BY DEF Cacher!IsFiniteSet, IsFiniteSet
  <1>2. Cacher!Cardinality(S) = Cardinality(S)
    BY DEF Cacher!Cardinality, Cardinality
  <1> QED
    BY <1>1, <1>2

(* There is always an address for a new node: one of the first Len + 1 is  *)
(* not that of one of the Len nodes.                                       *)
LEMMA NewIdFresh ==
  ASSUME s_list \in Seq(CNode)
  PROVE  /\ Cacher!NewId \in Nat
         /\ \A i \in 1 .. Len(s_list) : s_list[i].id # Cacher!NewId
  <1> DEFINE n == Len(s_list)
             Free(x) == \A m \in Cacher!Nodes : m.id # x
  <1>1. n \in Nat
    OBVIOUS
  <1>2. \E x \in 1 .. n + 1 : Free(x)
    <2> SUFFICES ASSUME \A x \in 1 .. n + 1 : ~Free(x) PROVE FALSE
      OBVIOUS
    <2> DEFINE f == [x \in 1 .. n + 1 |-> CHOOSE i \in 1 .. n : s_list[i].id = x]
    <2>1. ASSUME NEW x \in 1 .. n + 1 PROVE \E i \in 1 .. n : s_list[i].id = x
      BY DEF Cacher!Nodes
    <2>2. f \in [1 .. n + 1 -> 1 .. n] /\ \A x \in 1 .. n + 1 : s_list[f[x]].id = x
      BY <2>1
    <2>3. /\ IsFiniteSet(1 .. n + 1) /\ Cardinality(1 .. n + 1) = n + 1
          /\ IsFiniteSet(1 .. n) /\ Cardinality(1 .. n) = n
      <3> HIDE DEF n
      <3>1. \A m \in Nat : IsFiniteSet(1 .. m) /\ Cardinality(1 .. m) = m
        <4> TAKE m \in Nat
        <4>1. 1 \in Int /\ m \in Int
          OBVIOUS
        <4>2. IsFiniteSet(1 .. m) /\ Cardinality(1 .. m) = IF 1 > m THEN 0 ELSE m - 1 + 1
          BY <4>1, FS_Interval
        <4> QED
          BY <4>2
      <3>2. n + 1 \in Nat
        BY <1>1
      <3> QED
        BY <1>1, <3>1, <3>2
    <2>4. \E x, y \in 1 .. n + 1 : x # y /\ f[x] = f[y]
      <3> DEFINE A == 1 .. n + 1
                 B == 1 .. n
      <3> HIDE DEF f, n
      <3>1. Cardinality(B) < Cardinality(A)
        BY <1>1, <2>3
      <3>2. IsFiniteSet(A) /\ IsFiniteSet(B) /\ f \in [A -> B]
        BY <2>2, <2>3
      <3> HIDE DEF A, B
      <3>3. \E x, y \in A : x # y /\ f[x] = f[y]
        BY <3>1, <3>2, FS_PigeonHole
      <3> QED
        BY <3>3 DEF A
    <2> HIDE DEF f
    <2> QED
      BY <2>2, <2>4
  <1>3. Cacher!NewId \in 1 .. n + 1 /\ Free(Cacher!NewId)
    BY <1>2 DEF Cacher!NewId
  <1> QED
    BY <1>1, <1>3 DEF Cacher!Nodes

(* What push_front() does to the list.                                     *)
LEMMA PushFront ==
  ASSUME NEW S, NEW e \in S, NEW s \in Seq(S)
  PROVE  /\ <<e>> \o s \in Seq(S) /\ Len(<<e>> \o s) = Len(s) + 1 /\ Len(s) \in Nat
         /\ (<<e>> \o s)[1] = e
         /\ \A i \in 1 .. Len(s) : (<<e>> \o s)[i + 1] = s[i]
         /\ \A i \in 2 .. Len(s) + 1 : (<<e>> \o s)[i] = s[i - 1]
  OBVIOUS

(* What pop_back() leaves of the list.                                     *)
LEMMA PopBack ==
  ASSUME NEW S, NEW s \in Seq(S), NEW m \in Nat, m <= Len(s)
  PROVE  /\ SubSeq(s, 1, m) \in Seq(S) /\ Len(SubSeq(s, 1, m)) = m
         /\ \A i \in 1 .. m : SubSeq(s, 1, m)[i] = s[i]
  <1>1. Len(SubSeq(s, 1, m)) = m
    OBVIOUS
  <1>2. \A i \in 1 .. m : SubSeq(s, 1, m)[i] = s[i]
    OBVIOUS
  <1>3. \A i \in 1 .. m : s[i] \in S
    OBVIOUS
  <1>4. SubSeq(s, 1, m) \in Seq(S)
    BY <1>1, <1>2, <1>3
  <1> QED
    BY <1>1, <1>2, <1>4

(* What erase() of the node of an entry does to the list.                  *)
LEMMA ErasedFacts ==
  ASSUME s_list \in Seq(CNode), NEW p \in 1 .. Len(s_list)
  PROVE  /\ Cacher!Erased(p) \in Seq(CNode)
         /\ Len(Cacher!Erased(p)) = Len(s_list) - 1
         /\ \A j \in 1 .. Len(s_list) - 1 :
              Cacher!Erased(p)[j] = IF j < p THEN s_list[j] ELSE s_list[j + 1]
         /\ \A i \in 1 .. Len(s_list) : i # p =>
              \E j \in 1 .. Len(s_list) - 1 : Cacher!Erased(p)[j] = s_list[i]
  <1>1. Len(s_list) - 1 \in Nat /\ Len(s_list) \in Nat
    OBVIOUS
  <1>2. /\ Cacher!Erased(p) \in [1 .. Len(s_list) - 1 -> CNode]
        /\ \A j \in 1 .. Len(s_list) - 1 :
              Cacher!Erased(p)[j] = IF j < p THEN s_list[j] ELSE s_list[j + 1]
    BY <1>1 DEF Cacher!Erased
  <1>3. Cacher!Erased(p) \in Seq(CNode) /\ Len(Cacher!Erased(p)) = Len(s_list) - 1
    BY <1>1, <1>2
  <1>4. ASSUME NEW i \in 1 .. Len(s_list), i # p
        PROVE  \E j \in 1 .. Len(s_list) - 1 : Cacher!Erased(p)[j] = s_list[i]
    <2>1. CASE i < p
      BY <1>1, <1>2, <2>1
    <2>2. CASE i > p
      <3>1. i - 1 \in 1 .. Len(s_list) - 1 /\ ~(i - 1 < p) /\ (i - 1) + 1 = i
        BY <1>1, <2>2
      <3> QED
        BY <1>2, <3>1
    <2> QED
      BY <1>1, <1>4, <2>1, <2>2
  <1> QED
    BY <1>2, <1>3, <1>4

(* A hit moves the element of its entry into a new node at the front.      *)
LEMMA CacherHit ==
  ASSUME Cacher!Inv, NEW t \in CacheThreads, NEW k \in CKeys, Cacher!Hit(t, k)
  PROVE  Cacher!Inv'
  <1> USE DEF CNode
  <1> DEFINE id == Cacher!NewId
             e == [key |-> k, id |-> id]
  <1>1. /\ s_list \in Seq(CNode) /\ s_cache \subseteq [key : CKeys, id : Nat, end : BOOLEAN]
        /\ \A c, d \in s_cache : c.key = d.key => c = d
    BY DEF Cacher!Inv, Cacher!TypeOK, CKeys
  <1>2. id \in Nat /\ \A i \in 1 .. Len(s_list) : s_list[i].id # id
    BY <1>1, NewIdFresh
  <1>3. PICK c \in s_cache :
          /\ c.key = k
          /\ s_list' = <<e>> \o Cacher!Erased(Cacher!Position(c.id))
          /\ s_cache' = (s_cache \ {c}) \cup {[c EXCEPT !.id = id]}
    BY DEF Cacher!Hit, Cacher!Cached, Cacher!Moved
  <1> DEFINE p == Cacher!Position(c.id)
             w == Cacher!Erased(p)
             n == Len(s_list)
             cc == [c EXCEPT !.id = id]
  <1>4. n \in Nat /\ p \in 1 .. n /\ s_list[p] = [key |-> k, id |-> c.id]
    <2>1. PICK i \in 1 .. n : s_list[i] = [key |-> c.key, id |-> c.id]
      BY DEF Cacher!Inv, Cacher!NoDangling, Cacher!Nodes
    <2>2. p \in 1 .. n /\ s_list[p].id = c.id
      BY <2>1 DEF Cacher!Position
    <2>3. p = i
      BY <2>1, <2>2 DEF Cacher!Inv, Cacher!Distinct
    <2> QED
      BY <1>1, <1>3, <2>1, <2>3
  <1>5. /\ w \in Seq(CNode) /\ Len(w) = n - 1
        /\ \A j \in 1 .. n - 1 : w[j] = IF j < p THEN s_list[j] ELSE s_list[j + 1]
        /\ \A i \in 1 .. n : i # p => \E j \in 1 .. n - 1 : w[j] = s_list[i]
    BY <1>1, <1>4, ErasedFacts
  <1>6. e \in CNode /\ cc = [key |-> k, id |-> id, end |-> c.end] /\ c.end \in BOOLEAN
    BY <1>1, <1>2, <1>3
  <1> HIDE DEF id, p, w, e, cc
  <1>7. /\ s_list' \in Seq(CNode) /\ Len(s_list') = n
        /\ s_list'[1] = e /\ \A i \in 2 .. n : s_list'[i] = w[i - 1]
        /\ \A i \in 1 .. n - 1 : s_list'[i + 1] = w[i]
    <2>1. s_list' = <<e>> \o w
      BY <1>3 DEF w, p
    <2>2. /\ <<e>> \o w \in Seq(CNode) /\ Len(<<e>> \o w) = Len(w) + 1 /\ (<<e>> \o w)[1] = e
          /\ \A i \in 1 .. Len(w) : (<<e>> \o w)[i + 1] = w[i]
          /\ \A i \in 2 .. Len(w) + 1 : (<<e>> \o w)[i] = w[i - 1]
      BY <1>5, <1>6, PushFront
    <2> QED
      BY <1>4, <1>5, <2>1, <2>2
  <1>8. UNCHANGED <<s_asking, s_misses, s_twice>>
    BY DEF Cacher!Hit
  <1>9. s_cache' = (s_cache \ {c}) \cup {cc}
    BY <1>3 DEF cc
  <1>10. Cacher!TypeOK'
    <2>1. s_cache' \subseteq [key : CKeys, id : Nat, end : BOOLEAN]
      BY <1>1, <1>2, <1>6, <1>9
    <2>2. \A a, b \in s_cache' : a.key = b.key => a = b
      BY <1>1, <1>3, <1>6, <1>9
    <2> QED
      BY <1>7, <1>8, <2>1, <2>2 DEF Cacher!Inv, Cacher!TypeOK, CKeys
  <1>11. Cacher!Distinct'
    <2>1. ASSUME NEW i \in 2 .. n PROVE s_list'[i].id # id
      <3>1. i - 1 \in 1 .. n - 1 /\ i - 1 \in 1 .. n /\ (i - 1) + 1 \in 1 .. n
        BY <1>4
      <3>2. w[i - 1] = IF i - 1 < p THEN s_list[i - 1] ELSE s_list[i]
        BY <1>5, <3>1
      <3>3. s_list'[i] = w[i - 1]
        BY <1>7
      <3> QED
        BY <1>2, <1>4, <3>1, <3>2, <3>3
    <2>2. ASSUME NEW i \in 2 .. n, NEW j \in 2 .. n, s_list'[i].id = s_list'[j].id
          PROVE  i = j
      <3>1. i - 1 \in 1 .. n - 1 /\ j - 1 \in 1 .. n - 1 /\ (i - 1) + 1 = i /\ (j - 1) + 1 = j
        BY <1>4
      <3>2. w[i - 1].id = w[j - 1].id
        BY <1>7, <2>2
      <3> DEFINE a == IF i - 1 < p THEN i - 1 ELSE i
                 b == IF j - 1 < p THEN j - 1 ELSE j
      <3>3. a \in 1 .. n /\ b \in 1 .. n /\ s_list[a].id = s_list[b].id
        <4>1. w[i - 1] = IF i - 1 < p THEN s_list[i - 1] ELSE s_list[i]
          BY <1>5, <3>1
        <4>2. w[j - 1] = IF j - 1 < p THEN s_list[j - 1] ELSE s_list[j]
          BY <1>5, <3>1
        <4> QED
          BY <1>4, <3>1, <3>2, <4>1, <4>2
      <3>4. a = b
        BY <3>3 DEF Cacher!Inv, Cacher!Distinct
      <3> QED
        BY <1>4, <3>1, <3>4
    <2>3. e.id = id
      BY DEF e
    <2>4. \A i \in 1 .. n : i = 1 \/ i \in 2 .. n
      BY <1>4
    <2> QED
      BY <1>7, <2>1, <2>2, <2>3, <2>4 DEF Cacher!Distinct
  <1>12. Cacher!NoDangling'
    <2> SUFFICES ASSUME NEW d \in s_cache'
                 PROVE  \E i \in 1 .. n : s_list'[i] = [key |-> d.key, id |-> d.id]
      BY <1>7 DEF Cacher!NoDangling, Cacher!Nodes
    <2>1. CASE d = cc
      BY <1>4, <1>6, <1>7, <2>1 DEF e
    <2>2. CASE d \in s_cache /\ d # c
      <3>1. PICK i \in 1 .. n : s_list[i] = [key |-> d.key, id |-> d.id]
        BY <2>2 DEF Cacher!Inv, Cacher!NoDangling, Cacher!Nodes
      <3>2. d.key # k
        BY <1>1, <1>3, <2>2
      <3>3. i # p
        BY <1>4, <3>1, <3>2
      <3>4. PICK j \in 1 .. n - 1 : w[j] = s_list[i]
        BY <1>5, <3>3
      <3>5. j + 1 \in 1 .. n /\ s_list'[j + 1] = w[j]
        BY <1>4, <1>7, <3>4
      <3> QED
        BY <3>1, <3>4, <3>5
    <2> QED
      BY <1>9, <2>1, <2>2
  <1>13. IsFiniteSet(s_cache') /\ Cardinality(s_cache') = Cardinality(s_cache)
    <2>1. cc \notin s_cache \ {c}
      BY <1>1, <1>3, <1>6
    <2>2. IsFiniteSet(s_cache)
      BY CacherFinite DEF Cacher!Inv, Cacher!Counted
    <2>3. IsFiniteSet(s_cache \ {c}) /\ Cardinality(s_cache \ {c}) = Cardinality(s_cache) - 1
      BY <1>3, <2>2, FS_RemoveElement
    <2>4. /\ IsFiniteSet((s_cache \ {c}) \cup {cc})
          /\ Cardinality((s_cache \ {c}) \cup {cc}) = Cardinality(s_cache \ {c}) + 1
      BY <2>1, <2>3, FS_AddElement
    <2>5. Cardinality(s_cache) \in Nat
      BY <2>2, FS_CardinalityType
    <2> QED
      BY <1>9, <2>3, <2>4, <2>5
  <1>14. Cacher!Counted' /\ Cacher!OverrunBounded'
    BY <1>7, <1>8, <1>13, CacherFinite
    DEF Cacher!Inv, Cacher!Counted, Cacher!OverrunBounded
  <1> QED
    BY <1>10, <1>11, <1>12, <1>14 DEF Cacher!Inv

(* The store has answered: the result goes to the front, the last element  *)
(* and the entry of its key go if there are too many.                      *)
LEMMA CacherAnswer ==
  ASSUME Cacher!Inv, NEW t \in CacheThreads, Cacher!Answer(t)
  PROVE  Cacher!Inv'
  <1> USE CacherAssumption DEF CNode
  <1> DEFINE k == s_asking[t]
             id == Cacher!NewId
             e == [key |-> k, id |-> id]
             l == <<e>> \o s_list
             c == Cacher!Added(k, id)
             n == Len(s_list)
             last == l[n + 1]
  <1>1. /\ s_list \in Seq(CNode) /\ s_cache \subseteq [key : CKeys, id : Nat, end : BOOLEAN]
        /\ \A a, b \in s_cache : a.key = b.key => a = b
        /\ s_twice \in Nat /\ n \in Nat /\ k \in CKeys
    BY DEF Cacher!Inv, Cacher!TypeOK, CKeys, Cacher!Answer
  <1>2. id \in Nat /\ \A i \in 1 .. n : s_list[i].id # id
    BY <1>1, NewIdFresh
  <1>3. e \in CNode
    BY <1>1, <1>2
  <1> HIDE DEF id, k
  <1>4. /\ l \in Seq(CNode) /\ Len(l) = n + 1 /\ l[1] = e
        /\ \A i \in 1 .. n : l[i + 1] = s_list[i]
        /\ \A i \in 2 .. n + 1 : l[i] = s_list[i - 1]
    <2> HIDE DEF e, CNode
    <2>1. s_list \in Seq(CNode)
      BY <1>1
    <2> QED
      BY <1>3, <2>1, PushFront
  <1>5. /\ s_list' = IF Cacher!Full(c) THEN SubSeq(l, 1, n) ELSE l
        /\ s_cache' = IF Cacher!Full(c) THEN {d \in c : d.key # last.key} ELSE c
        /\ s_twice' = IF Cacher!Cached(k) = {} THEN s_twice ELSE s_twice + 1
        /\ s_asking' = [s_asking EXCEPT ![t] = none] /\ s_misses' = s_misses
    <2>1. Len(l) - 1 = n
      BY <1>1, <1>4
    <2> QED
      BY <1>4, <2>1 DEF Cacher!Answer, Cacher!Evicted, k, id
  <1>6. c = IF Cacher!Cached(k) = {} THEN s_cache \cup {[key |-> k, id |-> id, end |-> k \notin StoredKeys]}
            ELSE s_cache
    BY DEF Cacher!Added
  <1> HIDE DEF l, c, e
  <1>7. /\ c \subseteq [key : CKeys, id : Nat, end : BOOLEAN]
        /\ \A a, b \in c : a.key = b.key => a = b
    <2> DEFINE x == [key |-> k, id |-> id, end |-> k \notin StoredKeys]
    <2>1. (k \notin StoredKeys) \in BOOLEAN
      OBVIOUS
    <2>2. x \in [key : CKeys, id : Nat, end : BOOLEAN] /\ x.key = k
      BY <1>1, <1>2, <2>1
    <2> HIDE DEF x
    <2>3. CASE Cacher!Cached(k) = {}
      BY ZenonT(60), <1>1, <1>6, <2>2, <2>3 DEF Cacher!Cached, x
    <2>4. CASE Cacher!Cached(k) # {}
      BY <1>1, <1>6, <2>4
    <2> QED
      BY <2>3, <2>4
  <1>8. \A i, j \in 1 .. n + 1 : l[i].id = l[j].id => i = j
    <2>1. ASSUME NEW i \in 2 .. n + 1 PROVE l[i].id # id /\ l[i] = s_list[i - 1] /\ i - 1 \in 1 .. n
      <3>1. i - 1 \in 1 .. n
        BY <1>1
      <3> QED
        BY <1>2, <1>4, <3>1
    <2>2. ASSUME NEW i \in 2 .. n + 1, NEW j \in 2 .. n + 1, l[i].id = l[j].id PROVE i = j
      <3>1. i - 1 = j - 1
        BY <2>1, <2>2 DEF Cacher!Inv, Cacher!Distinct
      <3> QED
        BY <1>1, <3>1
    <2>3. l[1].id = id
      BY <1>4 DEF e
    <2>4. \A i \in 1 .. n + 1 : i = 1 \/ i \in 2 .. n + 1
      BY <1>1
    <2> QED
      BY <2>1, <2>2, <2>3, <2>4
  <1>9. ASSUME NEW d \in c
        PROVE  \E i \in 1 .. n + 1 : l[i] = [key |-> d.key, id |-> d.id]
    <2>1. CASE d \in s_cache
      <3>1. PICK i \in 1 .. n : s_list[i] = [key |-> d.key, id |-> d.id]
        BY <2>1 DEF Cacher!Inv, Cacher!NoDangling, Cacher!Nodes
      <3>2. i + 1 \in 1 .. n + 1 /\ l[i + 1] = s_list[i]
        BY <1>1, <1>4
      <3> QED
        BY <3>1, <3>2
    <2>2. CASE d = [key |-> k, id |-> id, end |-> k \notin StoredKeys]
      <3>1. 1 \in 1 .. n + 1
        BY <1>1
      <3> QED
        BY <1>4, <2>2, <3>1 DEF e
    <2> QED
      BY <1>6, <2>1, <2>2
  <1>10. IsFiniteSet(s_cache) /\ Cardinality(s_cache) \in Nat /\ n <= Cardinality(s_cache) + s_twice
    BY FS_CardinalityType, CacherFinite DEF Cacher!Inv, Cacher!Counted
  <1>11. IsFiniteSet(c) /\ Cardinality(c) \in Nat /\ n + 1 <= Cardinality(c) + s_twice'
    <2>1. CASE Cacher!Cached(k) = {}
      <3> DEFINE x == [key |-> k, id |-> id, end |-> k \notin StoredKeys]
      <3>1. x \notin s_cache
        BY <2>1 DEF Cacher!Cached
      <3>2. IsFiniteSet(s_cache \cup {x}) /\ Cardinality(s_cache \cup {x}) = Cardinality(s_cache) + 1
        BY <1>10, <3>1, FS_AddElement
      <3> QED
        BY <1>1, <1>5, <1>6, <1>10, <2>1, <3>2
    <2>2. CASE Cacher!Cached(k) # {}
      BY <1>1, <1>5, <1>6, <1>10, <2>2
    <2> QED
      BY <2>1, <2>2
  <1>12. /\ s_twice' \in Nat /\ s_twice <= s_twice'
         /\ s_asking' \in [CacheThreads -> CKeys \cup {none}] /\ s_misses' \in 0 .. MaxMisses
    BY <1>1, <1>5 DEF Cacher!Inv, Cacher!TypeOK, CKeys
  <1>13. CASE ~Cacher!Full(c)
    <2>1. s_list' = l /\ s_cache' = c
      BY <1>5, <1>13
    <2>2. Cardinality(c) <= CacheSize
      BY <1>11, <1>13, CacherFinite DEF Cacher!Full, Cacher!SimpleCacherAssumption
    <2>3. Cacher!TypeOK'
      BY <1>4, <1>7, <1>12, <2>1 DEF Cacher!TypeOK, CKeys
    <2>4. Cacher!Distinct' /\ Cacher!NoDangling'
      BY <1>4, <1>8, <1>9, <2>1 DEF Cacher!Distinct, Cacher!NoDangling, Cacher!Nodes
    <2>5. Cacher!Counted'
      BY <1>4, <1>11, <2>1, CacherFinite DEF Cacher!Counted
    <2>6. Cacher!OverrunBounded'
      BY <1>1, <1>4, <1>11, <1>12, <2>1, <2>2
      DEF Cacher!OverrunBounded, Cacher!SimpleCacherAssumption
    <2> QED
      BY <2>3, <2>4, <2>5, <2>6 DEF Cacher!Inv
  <1>14. CASE Cacher!Full(c)
    <2>1. /\ s_list' \in Seq(CNode) /\ Len(s_list') = n
          /\ \A i \in 1 .. n : s_list'[i] = l[i]
      <3>1. s_list' = SubSeq(l, 1, n)
        BY <1>5, <1>14
      <3>2. l \in Seq(CNode) /\ n \in Nat /\ n <= Len(l)
        BY <1>1, <1>4
      <3> HIDE DEF n
      <3>3. /\ SubSeq(l, 1, n) \in Seq(CNode) /\ Len(SubSeq(l, 1, n)) = n
            /\ \A i \in 1 .. n : SubSeq(l, 1, n)[i] = l[i]
        BY <3>2, PopBack
      <3> QED
        BY <3>1, <3>3
    <2>2. s_cache' = {d \in c : d.key # last.key}
      BY <1>5, <1>14
    <2>3. Cacher!TypeOK'
      BY <1>7, <1>12, <2>1, <2>2 DEF Cacher!TypeOK, CKeys
    <2>4. Cacher!Distinct'
      <3>1. \A i \in 1 .. n : i \in 1 .. n + 1
        BY <1>1
      <3> HIDE DEF n
      <3> QED
        BY <1>8, <2>1, <3>1 DEF Cacher!Distinct
    <2>5. Cacher!NoDangling'
      <3> SUFFICES ASSUME NEW d \in s_cache'
                   PROVE  \E i \in 1 .. n : s_list'[i] = [key |-> d.key, id |-> d.id]
        BY <2>1 DEF Cacher!NoDangling, Cacher!Nodes
      <3>1. d \in c /\ d.key # last.key
        BY <2>2
      <3>2. PICK i \in 1 .. n + 1 : l[i] = [key |-> d.key, id |-> d.id]
        BY <1>9, <3>1
      <3>3. i # n + 1
        BY <3>1, <3>2
      <3>4. i \in 1 .. n
        BY <1>1, <3>3
      <3> QED
        BY <2>1, <3>2, <3>4
    <2>6. IsFiniteSet(s_cache') /\ Cardinality(s_cache') \in Nat /\ Cardinality(c) <= Cardinality(s_cache') + 1
      <3>1. CASE s_cache' = c
        BY <1>11, <3>1
      <3>2. CASE \E d \in c : d.key = last.key
        <4>1. PICK d \in c : d.key = last.key
          BY <3>2
        <4>2. s_cache' = c \ {d}
          BY <1>7, <2>2, <4>1
        <4>3. IsFiniteSet(c \ {d}) /\ Cardinality(c \ {d}) = Cardinality(c) - 1
          BY <1>11, <4>1, FS_RemoveElement
        <4> QED
          BY <1>11, <4>2, <4>3, FS_CardinalityType
      <3> QED
        BY <2>2, <3>1, <3>2
    <2>7. Cacher!Counted'
      BY <1>1, <1>11, <1>12, <2>1, <2>6, CacherFinite DEF Cacher!Counted
    <2>8. Cacher!OverrunBounded'
      BY <1>1, <1>12, <2>1
      DEF Cacher!Inv, Cacher!OverrunBounded, Cacher!SimpleCacherAssumption
    <2> QED
      BY <2>3, <2>4, <2>5, <2>7, <2>8 DEF Cacher!Inv
  <1> QED
    BY <1>13, <1>14

(* The invariant of the cache: it holds when the store is opened, and each *)
(* hit, miss and late answer keeps it.                                     *)
LEMMA CacherStep == Cacher!Inv /\ [Cacher!Next]_CacherVars => Cacher!Inv'
  <1> SUFFICES ASSUME Cacher!Inv, [Cacher!Next]_CacherVars PROVE Cacher!Inv'
    OBVIOUS
  <1> USE DEF Cacher!Inv, Cacher!TypeOK, Cacher!Distinct, Cacher!NoDangling,
              Cacher!Counted, Cacher!OverrunBounded, Cacher!Nodes
  <1>1. ASSUME NEW t \in CacheThreads, NEW k \in CKeys, Cacher!Miss(t, k)
        PROVE  Cacher!Inv'
    <2>1. /\ UNCHANGED <<s_list, s_cache, s_twice>> /\ s_misses < MaxMisses
          /\ s_misses' = s_misses + 1 /\ s_asking' = [s_asking EXCEPT ![t] = k]
      BY <1>1 DEF Cacher!Miss
    <2>2. s_misses' \in 0 .. MaxMisses
      BY <2>1, CacherAssumption DEF Cacher!SimpleCacherAssumption
    <2>3. s_asking' \in [CacheThreads -> CKeys \cup {none}]
      BY <2>1 DEF CKeys
    <2>4. Cacher!TypeOK'
      BY <2>1, <2>2, <2>3 DEF CKeys
    <2>5. (Cacher!Distinct /\ Cacher!NoDangling /\ Cacher!OverrunBounded)'
      BY <2>1
    <2>6. Cacher!Counted'
      BY <2>1
    <2> HIDE DEF Cacher!TypeOK, Cacher!Distinct, Cacher!NoDangling, Cacher!Counted, Cacher!OverrunBounded
    <2> QED
      BY <2>4, <2>5, <2>6
  <1>2. CASE UNCHANGED CacherVars
    BY <1>2 DEF CacherVars
  <1> QED
    BY <1>1, <1>2, CacherHit, CacherAnswer DEF Cacher!Next, CKeys

(* For every number of threads, keys and places: the iterator of an entry  *)
(* of cache_ never dangles although the lock is released during a lookup,  *)
(* and each duplicate costs at most one element too many.                  *)
THEOREM CacherIterators == AllSpec => []CacherNoDangling
  <1> DEFINE I == which = "cacher" => Cacher!Inv
  <1>1. AllInit => I
    <2> SUFFICES ASSUME AllInit, which = "cacher" PROVE Cacher!Inv
      OBVIOUS
    <2>1. Cacher!Init
      BY DEF AllInit
    <2>2. IsFiniteSet({}) /\ Cardinality({}) = 0
      BY FS_EmptySet
    <2> QED
      BY <2>1, <2>2, CacherFinite, CacherAssumption
      DEF Cacher!Init, Cacher!Inv, Cacher!TypeOK, Cacher!Distinct, Cacher!NoDangling,
          Cacher!Counted, Cacher!OverrunBounded, Cacher!Nodes, Cacher!SimpleCacherAssumption
  <1>2. I /\ [AllNext]_allVars => I'
    <2> SUFFICES ASSUME I, [AllNext]_allVars, which' = "cacher" PROVE Cacher!Inv'
      OBVIOUS
    <2>1. which = "cacher" /\ [Cacher!Next]_CacherVars
      BY DEF AllNext, allVars
    <2> QED
      BY <2>1, CacherStep
  <1>3. I => CacherNoDangling
    BY DEF CacherNoDangling, Cacher!Inv
  <1> QED
    BY <1>1, <1>2, <1>3, PTL DEF AllSpec

-----------------------------------------------------------------------------
(* Proofs about the hooks, for all sets of hooks, priorities and threads.  *)

(* InitExit counts with the operators of FiniteSets.                       *)
LEMMA HooksFinite ==
  ASSUME NEW S
  PROVE  (Hooks!IsFiniteSet(S) <=> IsFiniteSet(S)) /\ Hooks!Cardinality(S) = Cardinality(S)
  <1>1. Hooks!IsFiniteSet(S) <=> IsFiniteSet(S)
    BY DEF Hooks!IsFiniteSet, IsFiniteSet
  <1>2. Hooks!Cardinality(S) = Cardinality(S)
    BY DEF Hooks!Cardinality, Cardinality
  <1> QED
    BY <1>1, <1>2

(* A finite set of priorities has a lowest one: otherwise take a smallest  *)
(* set that has none, and one element out of it.                           *)
LEMMA FiniteMin ==
  ASSUME NEW S, S \subseteq Int, IsFiniteSet(S), S # {}
  PROVE  \E m \in S : \A y \in S : m <= y
  <1> DEFINE HasMin(A) == \E m \in A : \A y \in A : m <= y
             T == {n \in Nat : \E A \in SUBSET S : A # {} /\ Cardinality(A) = n /\ ~HasMin(A)}
  <1> SUFFICES ASSUME ~HasMin(S) PROVE FALSE
    OBVIOUS
  <1>1. T \subseteq Nat /\ T # {}
    <2>1. Cardinality(S) \in Nat /\ S \in SUBSET S
      BY FS_CardinalityType
    <2> QED
      BY <2>1
  <1>2. PICK n \in T : \A i \in T : ~(<<i, n>> \in OpToRel(<, Nat))
    <2> HIDE DEF T
    <2> QED
      BY <1>1, NatLessThanWellFounded, WFMin
  <1>3. \A i \in T : ~(i < n)
    BY <1>2 DEF OpToRel
  <1>4. PICK A \in SUBSET S : A # {} /\ Cardinality(A) = n /\ ~HasMin(A)
    BY <1>2
  <1>5. PICK a \in A : TRUE
    BY <1>4
  <1> DEFINE B == A \ {a}
  <1>6. IsFiniteSet(A) /\ IsFiniteSet(B) /\ Cardinality(B) = n - 1 /\ Cardinality(B) \in Nat
    <2>1. IsFiniteSet(A)
      BY FS_Subset
    <2> QED
      BY <1>4, <1>5, <2>1, FS_RemoveElement, FS_CardinalityType
  <1>7. B # {}
    <2> SUFFICES ASSUME B = {} PROVE FALSE
      OBVIOUS
    <2>1. A = {a} /\ a \in Int
      BY <1>5
    <2> QED
      BY <1>4, <2>1
  <1>8. HasMin(B)
    <2> SUFFICES ASSUME ~HasMin(B) PROVE FALSE
      OBVIOUS
    <2>1. B \in SUBSET S /\ n - 1 \in Nat
      BY <1>6
    <2>2. n - 1 \in T
      BY <1>6, <1>7, <2>1
    <2> QED
      BY <1>1, <1>3, <2>2
  <1>9. PICK m \in B : \A y \in B : m <= y
    BY <1>8
  <1>10. \A y \in A : y = a \/ y \in B
    OBVIOUS
  <1>11. CASE m <= a
    <2>1. m \in A /\ \A y \in A : m <= y
      BY <1>9, <1>10, <1>11
    <2> QED
      BY <1>4, <2>1
  <1>12. CASE ~(m <= a)
    <2>1. a \in Int /\ m \in Int /\ B \subseteq Int /\ a <= m /\ a <= a
      BY <1>5, <1>9, <1>12
    <2>2. \A y \in B : a <= y
      BY <1>9, <2>1
    <2>3. a \in A /\ \A y \in A : a <= y
      BY <1>5, <1>10, <2>1, <2>2
    <2> QED
      BY <1>4, <2>3
  <1> QED
    BY <1>11, <1>12

\* The hooks and the threads of the instance.
HH == Hooks!Hooks
TT == Hooks!Threads

(* Hooks with one list are of one kind, priority and group, and the flags  *)
(* select all of them or none.                                             *)
LEMMA KeyFacts ==
  ASSUME NEW g \in HH, NEW h \in HH, Hooks!Key(g) = Hooks!Key(h)
  PROVE  /\ Hooks!Kind(g) = Hooks!Kind(h) /\ Level[g] = Level[h]
         /\ Hooks!Selected(g) <=> Hooks!Selected(h)
  <1>1. /\ Hooks!Kind(g) = Hooks!Kind(h) /\ Level[g] = Level[h] /\ Group[g] = Group[h]
    BY DEF Hooks!Key
  <1> QED
    BY <1>1 DEF Hooks!Selected

(* The lists of a priority are those of its selected hooks.                *)
LEMMA KeysOfFacts ==
  ASSUME NEW kd, NEW n
  PROVE  /\ \A h \in HH : Hooks!Key(h) \in Hooks!KeysOf(kd, n) <=>
                            Hooks!Kind(h) = kd /\ Hooks!Selected(h) /\ Level[h] = n
         /\ Hooks!KeysOf(kd, n) \subseteq {Hooks!Key(h) : h \in HH}
  <1>1. \A k : k \in Hooks!KeysOf(kd, n) <=>
          \E g \in HH : Hooks!Key(g) = k /\ Hooks!Kind(g) = kd /\ Hooks!Selected(g) /\ Level[g] = n
    BY DEF Hooks!KeysOf, HH
  <1> QED
    BY <1>1, KeyFacts

(* FirstLevel is below all selected hooks, and the next priority below all *)
(* that are higher.                                                        *)
LEMMA LevelFacts ==
  ASSUME NEW kd
  PROVE  /\ Hooks!FirstLevel(kd) \in Int
         /\ \A h \in HH : Hooks!Kind(h) = kd /\ Hooks!Selected(h) =>
              Level[h] \in Hooks!LevelsOf(kd) /\ Hooks!FirstLevel(kd) <= Level[h]
         /\ \A S \in SUBSET Hooks!LevelsOf(kd) : S # {} =>
              Hooks!Min(S) \in Int /\ Hooks!Min(S) \in S /\ \A n \in S : Hooks!Min(S) <= n
  <1>1. Level \in [HH -> Int] /\ IsFiniteSet(HH)
    BY HooksAssumption, HooksFinite DEF Hooks!InitExitAssumption, HH
  <1>2. Hooks!LevelsOf(kd) \subseteq Int /\ IsFiniteSet(Hooks!LevelsOf(kd))
    <2> DEFINE D == {g \in HH : Hooks!Kind(g) = kd /\ Hooks!Selected(g)}
    <2>1. IsFiniteSet(D)
      BY <1>1, FS_Subset
    <2>2. Hooks!LevelsOf(kd) = {Level[h] : h \in D}
      BY DEF Hooks!LevelsOf, HH
    <2>3. Hooks!LevelsOf(kd) \subseteq Int
      BY <1>1, <2>2
    <2>4. [h \in D |-> Level[h]] \in Surjection(D, Hooks!LevelsOf(kd))
      BY <2>2 DEF Surjection
    <2> HIDE DEF D
    <2>5. IsFiniteSet(Hooks!LevelsOf(kd))
      BY <2>1, <2>4, FS_Surjection
    <2> QED
      BY <2>3, <2>5
  <1>3. ASSUME NEW S \in SUBSET Hooks!LevelsOf(kd), S # {}
        PROVE  Hooks!Min(S) \in Int /\ Hooks!Min(S) \in S /\ \A n \in S : Hooks!Min(S) <= n
    <2>1. IsFiniteSet(S) /\ S \subseteq Int
      BY <1>2, <1>3, FS_Subset
    <2>2. \E m \in S : \A y \in S : m <= y
      BY <1>3, <2>1, FiniteMin
    <2>3. Hooks!Min(S) \in S /\ \A n \in S : Hooks!Min(S) <= n
      BY <2>2 DEF Hooks!Min
    <2> QED
      BY <2>1, <2>3
  <1>4. \A h \in HH : Hooks!Kind(h) = kd /\ Hooks!Selected(h) => Level[h] \in Hooks!LevelsOf(kd)
    BY DEF Hooks!LevelsOf, HH
  <1>5. CASE Hooks!LevelsOf(kd) = {}
    BY <1>3, <1>4, <1>5 DEF Hooks!FirstLevel
  <1>6. CASE Hooks!LevelsOf(kd) # {}
    BY <1>3, <1>4, <1>6 DEF Hooks!FirstLevel
  <1> QED
    BY <1>5, <1>6

(* The set of threads that have come past a hook only grows.               *)
LEMMA CountGrows ==
  ASSUME NEW T, IsFiniteSet(T), NEW A, NEW B, A \subseteq B, B \subseteq T
  PROVE  /\ Cardinality(A) \in Nat /\ Cardinality(B) \in Nat
         /\ Cardinality(A) <= Cardinality(B) /\ Cardinality(B) <= Cardinality(T)
         /\ \A x \in B : x \notin A => Cardinality(A) + 1 <= Cardinality(B)
  <1>1. IsFiniteSet(A) /\ IsFiniteSet(B)
    BY FS_Subset
  <1>2. /\ Cardinality(A) \in Nat /\ Cardinality(B) \in Nat
        /\ Cardinality(A) <= Cardinality(B) /\ Cardinality(B) <= Cardinality(T)
    BY <1>1, FS_CardinalityType, FS_Subset
  <1>3. ASSUME NEW x \in B, x \notin A PROVE Cardinality(A) + 1 <= Cardinality(B)
    <2>1. IsFiniteSet(A \cup {x}) /\ Cardinality(A \cup {x}) = Cardinality(A) + 1
      BY <1>1, <1>3, FS_AddElement
    <2>2. A \cup {x} \subseteq B
      OBVIOUS
    <2> QED
      BY <1>1, <2>1, <2>2, FS_Subset
  <1> QED
    BY <1>2, <1>3

(* What the invariant says of a thread x in Run() and of a hook h.         *)
LEMMA TodoFacts ==
  ASSUME Hooks!ThreadInv, NEW x \in TT, NEW h \in HH,
         Hooks!Running(x), Hooks!Key(h) \in i_todo[x]
  PROVE  /\ Hooks!Kind(h) = i_kind[x] /\ Level[h] = i_level[x] /\ Hooks!Selected(h)
         /\ i_pc[x] = "run" => ~Hooks!Begun(x, h)
  <1>1. i_todo[x] \subseteq Hooks!KeysOf(i_kind[x], i_level[x])
    BY DEF Hooks!ThreadInv, TT
  <1>2. /\ Hooks!Kind(h) = i_kind[x] /\ Level[h] = i_level[x] /\ Hooks!Selected(h)
    BY <1>1, KeysOfFacts
  <1>3. Level[h] \in Int
    BY HooksAssumption DEF Hooks!InitExitAssumption, HH
  <1> QED
    BY <1>2, <1>3 DEF Hooks!Begun, Hooks!Running

(* The starts are counted if the threads that have come past stay past     *)
(* and a hook is started by a thread that comes past it.                   *)
LEMMA StartsStep ==
  ASSUME Hooks!StartsInv, Hooks!TypeOK,
         \A y \in TT, h \in HH : Hooks!Begun(y, h) => Hooks!Begun(y, h)',
         \A h \in HH : \/ i_starts'[h] = i_starts[h]
                       \/ /\ i_starts'[h] = i_starts[h] + 1
                          /\ \E y \in TT : ~Hooks!Begun(y, h) /\ Hooks!Begun(y, h)'
  PROVE  /\ Hooks!StartsInv'
         /\ \A h \in HH : i_starts'[h] \in 0 .. Hooks!Cardinality(TT)
  <1> SUFFICES ASSUME NEW h \in HH
               PROVE  /\ i_starts'[h] <= Hooks!Cardinality({x \in TT : Hooks!Begun(x, h)'})
                      /\ i_starts'[h] \in 0 .. Hooks!Cardinality(TT)
    BY DEF Hooks!StartsInv, HH, TT
  <1> DEFINE A == {x \in TT : Hooks!Begun(x, h)}
             B == {x \in TT : Hooks!Begun(x, h)'}
  <1>1. IsFiniteSet(TT)
    <2>1. IsFiniteSet(Quitters) /\ TT = Quitters \cup {Main}
      BY HooksAssumption, HooksFinite DEF Hooks!InitExitAssumption, TT, Hooks!Threads
    <2> QED
      BY <2>1, FS_AddElement
  <1>2. A \subseteq B /\ B \subseteq TT
    OBVIOUS
  <1>3. i_starts[h] \in Nat /\ i_starts[h] <= Cardinality(A)
    BY HooksFinite DEF Hooks!TypeOK, Hooks!StartsInv, HH, TT
  <1>4. i_starts'[h] = i_starts[h] \/ (i_starts'[h] = i_starts[h] + 1 /\ \E y \in B : y \notin A)
    OBVIOUS
  <1> HIDE DEF A, B
  <1>5. /\ Cardinality(A) \in Nat /\ Cardinality(B) \in Nat
        /\ Cardinality(A) <= Cardinality(B) /\ Cardinality(B) <= Cardinality(TT)
        /\ \A x \in B : x \notin A => Cardinality(A) + 1 <= Cardinality(B)
    BY <1>1, <1>2, CountGrows
  <1>6. Cardinality(TT) \in Nat
    BY <1>1, FS_CardinalityType
  <1>7. i_starts'[h] <= Cardinality(B) /\ i_starts'[h] \in 0 .. Cardinality(TT)
    BY <1>3, <1>4, <1>5, <1>6
  <1> QED
    BY <1>7, HooksFinite DEF B

(* What the assumptions and the types say of a hook and of a thread.       *)
LEMMA HookTypes ==
  ASSUME Hooks!TypeOK
  PROVE  /\ \A h \in HH : Level[h] \in Int /\ Hooks!Kind(h) \in {"init", "exit"}
         /\ \A h \in HH : h \in InitHooks <=> Hooks!Kind(h) = "init"
         /\ \A y \in TT : i_kind[y] \in {"init", "exit"} /\ i_level[y] \in Int
         /\ Main \in TT /\ Quitters \subseteq TT /\ Main \notin Quitters
         /\ TT = {Main} \cup Quitters /\ InitHooks \subseteq HH
         /\ i_starts \in [HH -> Nat]
  BY HooksAssumption, HooksFinite
  DEF Hooks!TypeOK, Hooks!InitExitAssumption, HH, TT, Hooks!Hooks, Hooks!Threads,
      Hooks!Kind, Hooks!Kinds

(* A step leaves what is said of the hooks of a thread z that does not     *)
(* take it, unless it starts a hook of them.                               *)
LEMMA OtherThread ==
  ASSUME Hooks!StateInv, NEW z \in TT, NEW h \in HH, Hooks!Mine(z, h),
         UNCHANGED <<i_include, i_exclude>>,
         i_hook'[h] = i_hook[h], i_starts'[h] = i_starts[h],
         i_pc'[z] = i_pc[z], i_kind'[z] = i_kind[z],
         i_level'[z] = i_level[z], i_todo'[z] = i_todo[z]
  PROVE  Hooks!InStep(z, h)'
  <1>1. Hooks!Selected(h)' <=> Hooks!Selected(h)
    BY DEF Hooks!Selected
  <1>2. (Hooks!Begun(z, h)' <=> Hooks!Begun(z, h)) /\ (Hooks!Returned(z, h)' <=> Hooks!Returned(z, h))
    BY DEF Hooks!Begun, Hooks!Returned, Hooks!Running
  <1>3. Hooks!InStep(z, h)
    BY DEF Hooks!StateInv, HH, TT
  <1> QED
    BY <1>1, <1>2, <1>3 DEF Hooks!InStep

(* A thread that ends the process goes on ending it, so whose a hook is    *)
(* can only become open.                                                   *)
LEMMA MineStep ==
  ASSUME \A y \in TT : Hooks!Leaving(y) => Hooks!Leaving(y)'
  PROVE  \A z \in TT, h \in HH : Hooks!Mine(z, h)' => Hooks!Mine(z, h)
  BY DEF Hooks!Mine, Hooks!Sole, TT, HH

(* A thread in Run() that runs a hook of another thread is not its own.    *)
LEMMA RunsOwn ==
  ASSUME Hooks!TypeOK, Hooks!ThreadInv, NEW x \in TT, NEW z \in TT, z # x, NEW h \in HH,
         Hooks!Running(x), Hooks!Mine(z, h)
  PROVE  Hooks!Kind(h) # i_kind[x]
  <1>1. CASE Hooks!Kind(h) = "init"
    BY <1>1 DEF Hooks!Mine, Hooks!ThreadInv, TT
  <1>2. CASE Hooks!Kind(h) # "init"
    BY <1>2, HookTypes DEF Hooks!Mine, Hooks!Sole, Hooks!Leaving, TT
  <1> QED
    BY <1>1, <1>2

(* A hook runs or returns: the threads stay where they are.                *)
LEMMA HookSteps ==
  ASSUME Hooks!Inv, NEW h \in HH, Hooks!HookStep(h)
  PROVE  Hooks!Inv'
  <1> USE HookTypes DEF Hooks!Inv
  <1>1. /\ i_hook[h] \in {"started", "running"} /\ i_hook[h] # "done"
        /\ \E s \in {"running", "done"} : i_hook' = [i_hook EXCEPT ![h] = s]
        /\ UNCHANGED <<i_include, i_exclude, i_async, i_starts, i_future, i_lists, i_pc, i_kind,
                       i_level, i_todo, i_ran_before, i_process>>
    BY DEF Hooks!HookStep, Hooks!HookRuns, Hooks!HookReturns, Hooks!flags, Hooks!threadVars
  <1>2. \A g \in HH : (i_hook'[g] = "idle" <=> i_hook[g] = "idle") /\ (i_hook[g] = "done" => i_hook'[g] = "done")
    BY <1>1 DEF Hooks!TypeOK, HH
  <1>3. Hooks!TypeOK'
    BY <1>1 DEF Hooks!TypeOK, HH, Hooks!Key
  <1>4. Hooks!ThreadInv'
    BY <1>1 DEF Hooks!ThreadInv, Hooks!KeysOf, Hooks!Selected, Hooks!Running
  <1>5. Hooks!IdleInv'
    BY <1>1, <1>2 DEF Hooks!IdleInv, HH
  <1>6. Hooks!StartsInv'
    BY <1>1 DEF Hooks!StartsInv, Hooks!Begun, Hooks!Running
  <1>7. Hooks!StateInv'
    <2> SUFFICES ASSUME NEW z \in TT, NEW g \in HH, Hooks!Mine(z, g)
                 PROVE  Hooks!InStep(z, g)'
      BY <1>1 DEF Hooks!StateInv, Hooks!Mine, Hooks!Sole, Hooks!Leaving, HH, TT
    <2>1. Hooks!Selected(g)' <=> Hooks!Selected(g)
      BY <1>1 DEF Hooks!Selected
    <2>2. (Hooks!Begun(z, g)' <=> Hooks!Begun(z, g)) /\ (Hooks!Returned(z, g)' <=> Hooks!Returned(z, g))
      BY <1>1 DEF Hooks!Begun, Hooks!Returned, Hooks!Running
    <2>3. Hooks!InStep(z, g)
      BY DEF Hooks!StateInv, HH, TT
    <2> QED
      BY <1>1, <1>2, <2>1, <2>2, <2>3 DEF Hooks!InStep
  <1>8. Hooks!EndInv'
    BY <1>1 DEF Hooks!EndInv
  <1> QED
    BY <1>3, <1>4, <1>5, <1>6, <1>7, <1>8

(* A list is started.                                                      *)
LEMMA StartListStep ==
  ASSUME Hooks!Inv, NEW x \in TT, NEW k \in i_todo[x], Hooks!StartList(x, k)
  PROVE  Hooks!Inv'
  <1> USE HookTypes DEF Hooks!Inv
  <1>1. /\ i_process = "alive" /\ i_pc[x] = "run" /\ Hooks!Running(x)
        /\ i_todo' = [i_todo EXCEPT ![x] = @ \ {k}]
        /\ UNCHANGED <<i_include, i_exclude, i_async, i_pc, i_kind, i_level, i_ran_before, i_process>>
    BY DEF Hooks!StartList, Hooks!flags, Hooks!Running
  <1>2. i_todo \in [TT -> SUBSET {Hooks!Key(h) : h \in HH}] /\ i_lists \subseteq {Hooks!Key(h) : h \in HH}
    BY DEF Hooks!TypeOK, HH, TT
  <1>3. PICK g \in HH : Hooks!Key(g) = k
    BY <1>2
  <1>4. \A h \in HH : Hooks!Key(h) = k => /\ Hooks!Kind(h) = i_kind[x] /\ Level[h] = i_level[x]
                                          /\ Hooks!Selected(h) /\ ~Hooks!Begun(x, h)
    BY <1>1, TodoFacts
  <1>5. ASSUME NEW y \in TT, NEW h \in HH
        PROVE  /\ Hooks!Begun(y, h) => Hooks!Begun(y, h)'
               /\ y # x \/ Hooks!Key(h) # k => (Hooks!Begun(y, h)' <=> Hooks!Begun(y, h))
               /\ y = x /\ Hooks!Key(h) = k => Hooks!Begun(y, h)'
    BY <1>1, <1>2, <1>4 DEF Hooks!Begun, Hooks!Running
  <1>6. \A h \in HH : Hooks!Selected(h)' <=> Hooks!Selected(h)
    BY <1>1 DEF Hooks!Selected
  <1>7. Hooks!ThreadInv'
    <2>1. ASSUME NEW y \in TT PROVE i_todo'[y] \subseteq i_todo[y]
      BY <1>1, <1>2
    <2> QED
      BY <1>1, <2>1 DEF Hooks!ThreadInv, Hooks!KeysOf, Hooks!Selected, Hooks!Running, TT
  <1>8. \A z \in TT, h \in HH : Hooks!Mine(z, h)' => Hooks!Mine(z, h)
    BY <1>1, MineStep DEF Hooks!Leaving
  <1>9. Hooks!EndInv'
    BY <1>1 DEF Hooks!EndInv
  <1>10. ASSUME NEW h \in HH, Hooks!Key(h) # k PROVE Hooks!Returned(x, h)' <=> Hooks!Returned(x, h)
    BY <1>1, <1>2, <1>10 DEF Hooks!Returned, Hooks!Running
  <1>11. CASE k \in i_lists
    <2>1. UNCHANGED <<i_hook, i_starts, i_future, i_lists>>
      BY <1>11 DEF Hooks!StartList, Hooks!hookVars
    <2>2. Hooks!StartsInv' /\ \A h \in HH : i_starts'[h] \in 0 .. Hooks!Cardinality(TT)
      BY <1>5, <2>1, StartsStep
    <2>3. Hooks!TypeOK'
      BY <1>1, <1>2, <2>1 DEF Hooks!TypeOK, HH, TT, Hooks!Key
    <2>4. Hooks!IdleInv'
      BY <2>1 DEF Hooks!IdleInv
    <2>5. Hooks!StateInv'
      <3> SUFFICES ASSUME NEW z \in TT, NEW h \in HH, Hooks!Mine(z, h)
                   PROVE  Hooks!InStep(z, h)'
        BY <1>8 DEF Hooks!StateInv, HH, TT
      <3>1. CASE z # x
        BY <1>1, <1>2, <2>1, <3>1, OtherThread
      <3>2. CASE z = x
        <4>1. i_hook[g] # "idle"
          BY <1>3, <1>11 DEF Hooks!IdleInv, HH
        <4>2. ~Hooks!Mine(x, g)
          BY <1>3, <1>4, <4>1 DEF Hooks!StateInv, Hooks!InStep, HH, TT
        <4>3. Hooks!Key(h) # k
          BY <1>3, <3>2, <4>2, KeyFacts DEF Hooks!Mine
        <4>4. Hooks!InStep(x, h)
          BY <3>2 DEF Hooks!StateInv, HH, TT
        <4> QED
          BY <1>5, <1>6, <1>10, <2>1, <3>2, <4>3, <4>4 DEF Hooks!InStep
      <3> QED
        BY <3>1, <3>2
    <2> QED
      BY <1>7, <1>9, <2>2, <2>3, <2>4, <2>5
  <1>12. CASE k \notin i_lists
    <2>1. /\ i_lists' = i_lists \cup {k}
          /\ i_hook' = [h \in HH |-> IF Hooks!Key(h) = k THEN "started" ELSE i_hook[h]]
          /\ i_starts' = [h \in HH |-> IF Hooks!Key(h) = k THEN i_starts[h] + 1 ELSE i_starts[h]]
          /\ i_future' = [h \in HH |-> h \in Hooks!HooksOf(k) \/ i_future[h]]
      BY <1>12 DEF Hooks!StartList, Hooks!HooksOf, HH
    <2>2. Hooks!StartsInv' /\ \A h \in HH : i_starts'[h] \in 0 .. Hooks!Cardinality(TT)
      <3>1. \A h \in HH : \/ i_starts'[h] = i_starts[h]
                          \/ /\ i_starts'[h] = i_starts[h] + 1
                             /\ \E y \in TT : ~Hooks!Begun(y, h) /\ Hooks!Begun(y, h)'
        BY <1>4, <1>5, <2>1
      <3> QED
        BY <1>5, <3>1, StartsStep
    <2>3. Hooks!TypeOK'
      <3>1. i_starts' \in [HH -> 0 .. Hooks!Cardinality(TT)]
        BY <2>1, <2>2
      <3>2. i_hook' \in [HH -> {"idle", "started", "running", "done"}]
        BY <2>1 DEF Hooks!TypeOK, HH
      <3>3. i_future' \in [HH -> BOOLEAN]
        BY <2>1
      <3>4. i_lists' \subseteq {Hooks!Key(h) : h \in HH}
        BY <1>2, <1>3, <2>1
      <3>5. i_todo' \in [TT -> SUBSET {Hooks!Key(h) : h \in HH}]
        BY <1>1, <1>2
      <3> QED
        BY <1>1, <3>1, <3>2, <3>3, <3>4, <3>5 DEF Hooks!TypeOK, HH, TT
    <2>4. Hooks!IdleInv'
      BY <2>1 DEF Hooks!IdleInv, HH
    <2>5. Hooks!StateInv'
      <3> SUFFICES ASSUME NEW z \in TT, NEW h \in HH, Hooks!Mine(z, h)
                   PROVE  Hooks!InStep(z, h)'
        BY <1>8 DEF Hooks!StateInv, HH, TT
      <3>1. Hooks!InStep(z, h)
        BY DEF Hooks!StateInv, HH, TT
      <3>2. CASE z # x
        <4>1. Hooks!Key(h) # k
          BY <1>1, <1>4, <3>2, RunsOwn
        <4> QED
          BY <1>1, <1>2, <2>1, <3>2, <4>1, OtherThread
      <3>3. CASE z = x /\ Hooks!Key(h) # k
        BY <1>5, <1>6, <1>10, <2>1, <3>1, <3>3 DEF Hooks!InStep
      <3>4. CASE z = x /\ Hooks!Key(h) = k
        <4>1. i_starts[h] = 0
          BY <1>4, <3>1, <3>4 DEF Hooks!InStep
        <4>2. ~Hooks!Returned(x, h)'
          BY <1>1, <1>2, <1>4, <3>4 DEF Hooks!Returned, Hooks!Running
        <4> QED
          BY <1>4, <1>5, <1>6, <2>1, <3>4, <4>1, <4>2 DEF Hooks!InStep
      <3> QED
        BY <3>2, <3>3, <3>4
    <2> QED
      BY <1>7, <1>9, <2>2, <2>3, <2>4, <2>5
  <1> QED
    BY <1>11, <1>12

(* All lists of a priority are started, or one of them has been waited     *)
(* for.                                                                    *)
LEMMA WaitSteps ==
  ASSUME Hooks!Inv, NEW x \in TT,
         Hooks!AllStarted(x) \/ \E k \in i_todo[x] : Hooks!WaitList(x, k)
  PROVE  Hooks!Inv'
  <1> USE HookTypes DEF Hooks!Inv
  <1>1. /\ i_process = "alive" /\ Hooks!Running(x)
        /\ i_pc' = [i_pc EXCEPT ![x] = "wait"]
        /\ UNCHANGED <<i_include, i_exclude, i_async, i_hook, i_starts, i_kind, i_level,
                       i_ran_before, i_process>>
        /\ i_lists' \subseteq i_lists /\ i_future' \in [HH -> BOOLEAN]
    BY ZenonT(60) DEF Hooks!AllStarted, Hooks!WaitList, Hooks!flags, Hooks!hookVars, Hooks!Running, Hooks!TypeOK,
           HH, TT
  <1>2. /\ i_todo \in [TT -> SUBSET {Hooks!Key(h) : h \in HH}]
        /\ i_pc \in [TT -> {"run", "wait", "main", "test", "set", "over", "gone"}]
    BY DEF Hooks!TypeOK, HH, TT
  <1>3. PICK S \in SUBSET Hooks!KeysOf(i_kind[x], i_level[x]) : i_todo' = [i_todo EXCEPT ![x] = S]
    <2>1. i_todo[x] \subseteq Hooks!KeysOf(i_kind[x], i_level[x])
      BY <1>1 DEF Hooks!ThreadInv, TT
    <2> QED
      BY <1>2, <2>1 DEF Hooks!AllStarted, Hooks!WaitList
  <1>4. S \subseteq {Hooks!Key(h) : h \in HH}
    BY KeysOfFacts
  <1>5. ASSUME NEW y \in TT, NEW h \in HH PROVE Hooks!Begun(y, h) => Hooks!Begun(y, h)'
    BY <1>1, <1>2, <1>3 DEF Hooks!Begun, Hooks!Running
  <1>6. Hooks!StartsInv'
    BY <1>1, <1>5, StartsStep
  <1>7. Hooks!TypeOK'
    <2>1. /\ i_todo' \in [TT -> SUBSET {Hooks!Key(h) : h \in HH}]
          /\ i_pc' \in [TT -> {"run", "wait", "main", "test", "set", "over", "gone"}]
      BY <1>1, <1>2, <1>3, <1>4
    <2> QED
      BY <1>1, <2>1 DEF Hooks!TypeOK, HH, TT
  <1>8. Hooks!ThreadInv'
    BY ZenonT(60), <1>1, <1>2, <1>3 DEF Hooks!ThreadInv, Hooks!KeysOf, Hooks!Selected, Hooks!Running, TT
  <1>9. Hooks!IdleInv'
    BY <1>1 DEF Hooks!IdleInv
  <1>10. \A z \in TT, h \in HH : Hooks!Mine(z, h)' => Hooks!Mine(z, h)
    BY <1>1, <1>2, MineStep DEF Hooks!Leaving, Hooks!Running
  <1>11. Hooks!EndInv'
    BY <1>1, <1>2 DEF Hooks!EndInv, TT
  <1>12. Hooks!StateInv'
    <2> SUFFICES ASSUME NEW z \in TT, NEW h \in HH, Hooks!Mine(z, h)
                 PROVE  Hooks!InStep(z, h)'
      BY <1>10 DEF Hooks!StateInv, HH, TT
    <2>1. CASE z # x
      BY <1>1, <1>2, <1>3, <2>1, OtherThread
    <2>2. CASE z = x
      <3>1. Hooks!Selected(h)' <=> Hooks!Selected(h)
        BY <1>1 DEF Hooks!Selected
      <3>2. /\ ~Hooks!Selected(h) \/ ~Hooks!Begun(x, h) => i_hook[h] = "idle" /\ i_starts[h] = 0
            /\ Hooks!Selected(h) /\ Hooks!Begun(x, h) => i_hook[h] # "idle" /\ i_starts[h] = 1
            /\ Hooks!Selected(h) /\ Hooks!Returned(x, h) => i_hook[h] = "done"
        BY <2>2 DEF Hooks!StateInv, Hooks!InStep, HH, TT
      <3>3. CASE Hooks!AllStarted(x)
        <4>1. /\ i_pc[x] = "run" /\ i_todo[x] = {} /\ S = Hooks!KeysOf(i_kind[x], i_level[x])
          BY <1>2, <1>3, <2>2, <3>3 DEF Hooks!AllStarted
        <4>2. Hooks!Begun(x, h)' <=> Hooks!Begun(x, h)
          BY <1>1, <1>2, <1>3, <2>2, <4>1 DEF Hooks!Begun, Hooks!Running
        <4>3. Hooks!Selected(h) /\ Hooks!Returned(x, h)' => Hooks!Returned(x, h)
          <5>1. Hooks!Selected(h) /\ Hooks!Kind(h) = i_kind[x] /\ Level[h] = i_level[x] => Hooks!Key(h) \in S
            BY <4>1, KeysOfFacts
          <5> QED
            BY <1>1, <1>2, <1>3, <2>2, <5>1 DEF Hooks!Returned, Hooks!Running
        <4> QED
          BY <1>1, <2>2, <3>1, <3>2, <4>2, <4>3 DEF Hooks!InStep
      <3>4. ASSUME NEW k \in i_todo[x], Hooks!WaitList(x, k)
            PROVE Hooks!InStep(z, h)'
        <4>1. /\ i_pc[x] = "wait" /\ S = i_todo[x] \ {k}
              /\ Hooks!Key(h) = k => i_hook[h] = "done"
          BY <1>2, <1>3, <2>2, <3>4 DEF Hooks!WaitList, Hooks!HooksOf, HH
        <4>2. Hooks!Begun(x, h)' <=> Hooks!Begun(x, h)
          BY <1>1, <1>2, <1>3, <2>2, <4>1 DEF Hooks!Begun, Hooks!Running
        <4>3. Hooks!Returned(x, h)' => Hooks!Returned(x, h) \/ Hooks!Key(h) = k
          BY <1>1, <1>2, <1>3, <2>2, <4>1 DEF Hooks!Returned, Hooks!Running
        <4> QED
          BY <1>1, <2>2, <3>1, <3>2, <4>1, <4>2, <4>3 DEF Hooks!InStep
      <3> QED
        BY <3>3, <3>4
    <2> QED
      BY <2>1, <2>2
  <1> QED
    BY <1>6, <1>7, <1>8, <1>9, <1>11, <1>12

(* Run() comes to its next priority or to its end.                         *)
LEMMA NextLevelStep ==
  ASSUME Hooks!Inv, NEW x \in TT, Hooks!NextLevel(x)
  PROVE  Hooks!Inv'
  <1> USE HookTypes DEF Hooks!Inv
  <1> DEFINE higher == {n \in Hooks!LevelsOf(i_kind[x]) : n > i_level[x]}
  <1>1. /\ i_process = "alive" /\ Hooks!Running(x) /\ i_pc[x] = "wait" /\ i_todo[x] = {}
        /\ UNCHANGED <<i_include, i_exclude, i_async, i_hook, i_starts, i_future, i_lists,
                       i_ran_before, i_process>>
    BY DEF Hooks!NextLevel, Hooks!flags, Hooks!hookVars, Hooks!Running
  <1>2. /\ i_todo \in [TT -> SUBSET {Hooks!Key(h) : h \in HH}]
        /\ i_pc \in [TT -> {"run", "wait", "main", "test", "set", "over", "gone"}]
        /\ i_kind \in [TT -> {"init", "exit"}] /\ i_level \in [TT -> Int]
    BY DEF Hooks!TypeOK, HH, TT, Hooks!Kinds
  <1>3. x # Main => i_kind[x] = "exit"
    BY <1>1 DEF Hooks!ThreadInv, TT
  <1>4. /\ i_kind' = i_kind
        /\ \/ \E n \in Int : /\ n \in higher /\ \A m \in higher : n <= m
                             /\ i_pc' = [i_pc EXCEPT ![x] = "run"]
                             /\ i_level' = [i_level EXCEPT ![x] = n]
                             /\ i_todo' = [i_todo EXCEPT ![x] = Hooks!KeysOf(i_kind[x], n)]
           \/ /\ higher = {} /\ UNCHANGED <<i_level, i_todo>>
              /\ i_pc' = [i_pc EXCEPT ![x] = IF i_kind[x] = "init" THEN "main" ELSE "over"]
    <2>1. CASE higher # {}
      <3>1. Hooks!BeginLevel(x, i_kind[x], Hooks!Min(higher))
        BY <2>1 DEF Hooks!NextLevel
      <3>2. higher \in SUBSET Hooks!LevelsOf(i_kind[x])
        OBVIOUS
      <3>3. /\ Hooks!Min(higher) \in Int /\ Hooks!Min(higher) \in higher
            /\ \A m \in higher : Hooks!Min(higher) <= m
        BY <2>1, <3>2, LevelFacts
      <3>4. i_kind' = i_kind
        BY <1>2, <3>1 DEF Hooks!BeginLevel
      <3> QED
        BY <3>1, <3>3, <3>4 DEF Hooks!BeginLevel
    <2>2. CASE higher = {}
      BY <2>2 DEF Hooks!NextLevel
    <2> QED
      BY <2>1, <2>2
  <1>5. \A h \in HH : Hooks!Kind(h) = i_kind[x] /\ Hooks!Selected(h) /\ Level[h] > i_level[x] => Level[h] \in higher
    BY LevelFacts
  <1> HIDE DEF higher
  <1>6. \A n \in higher : n > i_level[x]
    BY DEF higher
  <1>7. ASSUME NEW y \in TT, NEW h \in HH PROVE Hooks!Begun(y, h) => Hooks!Begun(y, h)'
    BY <1>1, <1>2, <1>4, <1>6 DEF Hooks!Begun, Hooks!Running
  <1>8. Hooks!StartsInv'
    BY <1>1, <1>7, StartsStep
  <1>9. Hooks!TypeOK'
    <2>1. \A n : Hooks!KeysOf(i_kind[x], n) \subseteq {Hooks!Key(h) : h \in HH}
      BY KeysOfFacts
    <2>2. /\ i_todo' \in [TT -> SUBSET {Hooks!Key(h) : h \in HH}] /\ i_level' \in [TT -> Int]
          /\ i_pc' \in [TT -> {"run", "wait", "main", "test", "set", "over", "gone"}]
      BY <1>2, <1>4, <2>1
    <2> QED
      BY <1>1, <1>4, <2>2 DEF Hooks!TypeOK, HH, TT
  <1>10. Hooks!ThreadInv'
    <2> SUFFICES ASSUME NEW y \in TT
                 PROVE  /\ i_pc'[y] \in {"main", "test", "set"} => i_kind'[y] = "init"
                        /\ y # Main /\ i_kind'[y] = "init" => ~Hooks!Running(y)'
                        /\ (Hooks!Running(y) => i_todo[y] \subseteq Hooks!KeysOf(i_kind[y], i_level[y]))'
      BY DEF Hooks!ThreadInv, TT
    <2>1. CASE y # x
      <3>1. i_pc'[y] = i_pc[y] /\ i_level'[y] = i_level[y] /\ i_todo'[y] = i_todo[y] /\ i_kind'[y] = i_kind[y]
        BY <1>2, <1>4, <2>1
      <3>2. (Hooks!KeysOf(i_kind[y], i_level[y]))' = Hooks!KeysOf(i_kind[y], i_level[y])
        BY <1>1, <3>1 DEF Hooks!KeysOf, Hooks!Selected
      <3> QED
        BY <3>1, <3>2 DEF Hooks!ThreadInv, Hooks!Running, TT
    <2>2. CASE y = x
      <3>1. CASE higher = {}
        BY <1>1, <1>2, <1>3, <1>4, <2>2, <3>1 DEF Hooks!Running
      <3>2. CASE higher # {}
        <4>1. PICK n \in Int : /\ i_pc' = [i_pc EXCEPT ![x] = "run"]
                               /\ i_level' = [i_level EXCEPT ![x] = n]
                               /\ i_todo' = [i_todo EXCEPT ![x] = Hooks!KeysOf(i_kind[x], n)]
          BY <1>4, <3>2
        <4>2. i_todo'[x] = Hooks!KeysOf(i_kind[x], n) /\ i_level'[x] = n /\ i_pc'[x] = "run"
          BY <1>2, <4>1
        <4>3. (i_todo[x] \subseteq Hooks!KeysOf(i_kind[x], i_level[x]))'
          BY <1>1, <1>4, <4>2 DEF Hooks!KeysOf, Hooks!Selected
        <4> QED
          BY <1>3, <1>4, <2>2, <4>2, <4>3
      <3> QED
        BY <3>1, <3>2
    <2> QED
      BY <2>1, <2>2
  <1>11. Hooks!IdleInv'
    BY <1>1 DEF Hooks!IdleInv
  <1>12. \A z \in TT, h \in HH : Hooks!Mine(z, h)' => Hooks!Mine(z, h)
    BY <1>1, <1>2, <1>4, MineStep DEF Hooks!Leaving
  <1>13. Hooks!EndInv'
    <2>1. x = Main => i_pc'[Main] # "gone"
      BY <1>2, <1>4
    <2>2. \A y \in TT : i_pc'[y] = "over" => i_pc[y] = "over" \/ i_kind[y] = "exit"
      BY <1>2, <1>4
    <2>3. \A y \in TT : y # x => i_pc'[y] = i_pc[y]
      BY <1>2, <1>4
    <2> QED
      BY <1>1, <1>2, <1>4, <2>1, <2>2, <2>3 DEF Hooks!EndInv, TT
  <1>14. Hooks!StateInv'
    <2> SUFFICES ASSUME NEW z \in TT, NEW h \in HH, Hooks!Mine(z, h)
                 PROVE  Hooks!InStep(z, h)'
      BY <1>12 DEF Hooks!StateInv, HH, TT
    <2>1. CASE z # x
      BY <1>1, <1>2, <1>4, <2>1, OtherThread
    <2>2. CASE z = x
      <3>1. Hooks!Selected(h)' <=> Hooks!Selected(h)
        BY <1>1 DEF Hooks!Selected
      <3>2. /\ ~Hooks!Selected(h) \/ ~Hooks!Begun(x, h) => i_hook[h] = "idle" /\ i_starts[h] = 0
            /\ Hooks!Selected(h) /\ Hooks!Begun(x, h) => i_hook[h] # "idle" /\ i_starts[h] = 1
            /\ Hooks!Selected(h) /\ Hooks!Returned(x, h) => i_hook[h] = "done"
        BY <2>2 DEF Hooks!StateInv, Hooks!InStep, HH, TT
      <3>3. Hooks!Selected(h) => (Hooks!Begun(x, h)' <=> Hooks!Begun(x, h))
        <4> SUFFICES ASSUME Hooks!Selected(h), ~Hooks!Begun(x, h) PROVE ~Hooks!Begun(x, h)'
          BY <1>7
        <4>1. Hooks!Kind(h) = i_kind[x] => Level[h] > i_level[x]
          BY <1>1, <2>2 DEF Hooks!Begun, Hooks!Running
        <4>2. CASE Hooks!Kind(h) # i_kind[x]
          BY <1>1, <1>4, <2>2, <4>2 DEF Hooks!Begun
        <4>3. CASE Hooks!Kind(h) = i_kind[x]
          <5>1. Level[h] \in higher
            BY <1>5, <4>1, <4>3
          <5>2. PICK n \in Int : /\ n \in higher /\ \A m \in higher : n <= m
                                 /\ i_pc' = [i_pc EXCEPT ![x] = "run"]
                                 /\ i_level' = [i_level EXCEPT ![x] = n]
                                 /\ i_todo' = [i_todo EXCEPT ![x] = Hooks!KeysOf(i_kind[x], n)]
            BY <1>4, <5>1
          <5>3. n <= Level[h] /\ (n = Level[h] => Hooks!Key(h) \in Hooks!KeysOf(i_kind[x], n))
            BY <4>3, <5>1, <5>2, KeysOfFacts
          <5> QED
            BY <1>2, <1>4, <2>2, <4>3, <5>2, <5>3 DEF Hooks!Begun, Hooks!Running
        <4> QED
          BY <4>2, <4>3
      <3>4. Hooks!Begun(x, h) => Hooks!Returned(x, h)
        BY <1>1, <2>2 DEF Hooks!Begun, Hooks!Returned, Hooks!Running
      <3>5. Hooks!Returned(x, h)' => Hooks!Begun(x, h)'
        BY DEF Hooks!Begun, Hooks!Returned, Hooks!Running
      <3> QED
        BY <1>1, <2>2, <3>1, <3>2, <3>3, <3>4, <3>5 DEF Hooks!InStep
    <2> QED
      BY <2>1, <2>2
  <1> QED
    BY <1>8, <1>9, <1>10, <1>11, <1>13, <1>14

(* R77Shutdown() is called and looks at ran_before, or quick_exit() ends   *)
(* the process before it is registered.                                    *)
LEMMA ShutdownSteps ==
  ASSUME Hooks!Inv, NEW x \in TT,
         Hooks!CallShutdown(x) \/ Hooks!TestRanBefore(x) \/ Hooks!QuitUnregistered(x)
  PROVE  Hooks!Inv'
  <1> USE HookTypes DEF Hooks!Inv
  <1>1. /\ i_process = "alive" /\ i_pc[x] \in {"main", "test"}
        /\ UNCHANGED <<i_include, i_exclude, i_async, i_hook, i_starts, i_future, i_lists,
                       i_kind, i_level, i_todo, i_ran_before>>
        /\ \/ i_pc' = [i_pc EXCEPT ![x] = "test"] /\ i_process' = i_process
           \/ i_pc' = [i_pc EXCEPT ![x] = "set"] /\ i_process' = i_process
           \/ i_ran_before /\ i_pc' = [i_pc EXCEPT ![x] = "over"] /\ i_process' = i_process
           \/ x # Main /\ i_pc' = [i_pc EXCEPT ![x] = "gone"] /\ i_process' = "ended"
    BY DEF Hooks!CallShutdown, Hooks!TestRanBefore, Hooks!QuitUnregistered, Hooks!flags,
           Hooks!hookVars, Hooks!TypeOK
  <1>2. i_pc \in [TT -> {"run", "wait", "main", "test", "set", "over", "gone"}]
    BY DEF Hooks!TypeOK, HH, TT
  <1>3. i_kind[x] = "init" /\ ~Hooks!Running(x) /\ ~Hooks!Running(x)'
    BY <1>1, <1>2 DEF Hooks!ThreadInv, Hooks!Running, TT
  <1>4. ASSUME NEW y \in TT, NEW h \in HH
        PROVE  /\ Hooks!Begun(y, h)' <=> Hooks!Begun(y, h)
               /\ Hooks!Returned(y, h)' <=> Hooks!Returned(y, h)
    BY <1>1, <1>2, <1>3 DEF Hooks!Begun, Hooks!Returned, Hooks!Running
  <1>5. \A z \in TT, h \in HH : Hooks!Mine(z, h)' => Hooks!Mine(z, h)
    BY <1>1, <1>2, MineStep DEF Hooks!Leaving
  <1>6. Hooks!TypeOK'
    <2>1. i_pc' \in [TT -> {"run", "wait", "main", "test", "set", "over", "gone"}]
      BY <1>1, <1>2
    <2>2. i_process' \in {"alive", "ended", "aborted"}
      BY <1>1
    <2> QED
      BY <1>1, <2>1, <2>2 DEF Hooks!TypeOK, HH, TT
  <1>7. Hooks!ThreadInv'
    BY <1>1, <1>2, <1>3 DEF Hooks!ThreadInv, Hooks!KeysOf, Hooks!Selected, Hooks!Running, TT
  <1>8. Hooks!IdleInv'
    BY <1>1 DEF Hooks!IdleInv
  <1>9. Hooks!StartsInv'
    BY <1>1, <1>4, StartsStep
  <1>10. Hooks!EndInv'
    <2>1. i_process' = "ended" => i_pc'[x] = "gone"
      BY <1>1, <1>2
    <2>2. i_pc'[Main] # "gone"
      BY <1>1, <1>2 DEF Hooks!EndInv
    <2>3. i_pc'[x] = "over" => \E y \in TT : y # x /\ i_kind[y] = "exit"
      BY <1>1, <1>2, <1>3 DEF Hooks!EndInv, TT
    <2>4. \A y \in TT : y # x => i_pc'[y] = i_pc[y]
      BY <1>1, <1>2
    <2> QED
      BY <1>1, <2>1, <2>2, <2>3, <2>4 DEF Hooks!EndInv, TT
  <1>11. Hooks!StateInv'
    <2> SUFFICES ASSUME NEW z \in TT, NEW h \in HH, Hooks!Mine(z, h)
                 PROVE  Hooks!InStep(z, h)'
      BY <1>5 DEF Hooks!StateInv, HH, TT
    <2>1. Hooks!Selected(h)' <=> Hooks!Selected(h)
      BY <1>1 DEF Hooks!Selected
    <2>2. Hooks!InStep(z, h)
      BY DEF Hooks!StateInv, HH, TT
    <2> QED
      BY <1>1, <1>4, <2>1, <2>2 DEF Hooks!InStep
  <1> QED
    BY <1>6, <1>7, <1>8, <1>9, <1>10, <1>11

(* ran_before is set, and Run() begins with the exit hooks.                *)
LEMMA SetRanBeforeStep ==
  ASSUME Hooks!Inv, NEW x \in TT, Hooks!SetRanBefore(x)
  PROVE  Hooks!Inv'
  <1> USE HookTypes DEF Hooks!Inv
  <1> DEFINE n == Hooks!FirstLevel("exit")
             S == Hooks!KeysOf("exit", n)
  <1>1. /\ i_process = "alive" /\ i_pc[x] = "set" /\ i_ran_before' = TRUE
        /\ UNCHANGED <<i_include, i_exclude, i_async, i_hook, i_starts, i_future, i_lists, i_process>>
        /\ i_pc' = [i_pc EXCEPT ![x] = "run"] /\ i_kind' = [i_kind EXCEPT ![x] = "exit"]
        /\ i_level' = [i_level EXCEPT ![x] = n] /\ i_todo' = [i_todo EXCEPT ![x] = S]
    BY DEF Hooks!SetRanBefore, Hooks!BeginLevel, Hooks!flags, Hooks!hookVars
  <1>2. /\ i_todo \in [TT -> SUBSET {Hooks!Key(h) : h \in HH}]
        /\ i_pc \in [TT -> {"run", "wait", "main", "test", "set", "over", "gone"}]
        /\ i_kind \in [TT -> {"init", "exit"}] /\ i_level \in [TT -> Int]
    BY DEF Hooks!TypeOK, HH, TT, Hooks!Kinds
  <1>3. /\ n \in Int /\ S \subseteq {Hooks!Key(h) : h \in HH}
        /\ \A h \in HH : Hooks!Key(h) \in S <=> Hooks!Kind(h) = "exit" /\ Hooks!Selected(h) /\ Level[h] = n
        /\ \A h \in HH : Hooks!Kind(h) = "exit" /\ Hooks!Selected(h) => n <= Level[h]
    BY LevelFacts, KeysOfFacts
  <1>4. i_kind[x] = "init"
    BY <1>1 DEF Hooks!ThreadInv, TT
  <1>5. Hooks!ThreadInv'
    <2> SUFFICES ASSUME NEW y \in TT
                 PROVE  /\ i_pc'[y] \in {"main", "test", "set"} => i_kind'[y] = "init"
                        /\ y # Main /\ i_kind'[y] = "init" => ~Hooks!Running(y)'
                        /\ (Hooks!Running(y) => i_todo[y] \subseteq Hooks!KeysOf(i_kind[y], i_level[y]))'
      BY DEF Hooks!ThreadInv, TT
    <2>1. CASE y # x
      BY <1>1, <1>2, <2>1 DEF Hooks!ThreadInv, Hooks!KeysOf, Hooks!Selected, Hooks!Running, TT
    <2>2. CASE y = x
      <3>1. i_todo'[x] = S /\ i_level'[x] = n /\ i_pc'[x] = "run" /\ i_kind'[x] = "exit"
        BY <1>1, <1>2
      <3>2. (i_todo[x] \subseteq Hooks!KeysOf(i_kind[x], i_level[x]))'
        BY <1>1, <3>1 DEF Hooks!KeysOf, Hooks!Selected
      <3> QED
        BY <2>2, <3>1, <3>2
    <2> QED
      BY <2>1, <2>2
  <1> HIDE DEF n, S
  <1>6. ASSUME NEW y \in TT, NEW h \in HH PROVE Hooks!Begun(y, h) => Hooks!Begun(y, h)'
    BY <1>1, <1>2, <1>4 DEF Hooks!Begun, Hooks!Running
  <1>7. Hooks!StartsInv'
    BY <1>1, <1>6, StartsStep
  <1>8. Hooks!TypeOK'
    <2>1. /\ i_todo' \in [TT -> SUBSET {Hooks!Key(h) : h \in HH}] /\ i_level' \in [TT -> Int]
          /\ i_pc' \in [TT -> {"run", "wait", "main", "test", "set", "over", "gone"}]
          /\ i_kind' \in [TT -> {"init", "exit"}]
      BY <1>1, <1>2, <1>3
    <2> QED
      BY <1>1, <2>1 DEF Hooks!TypeOK, HH, TT, Hooks!Kinds
  <1>9. Hooks!IdleInv'
    BY <1>1 DEF Hooks!IdleInv
  <1>10. \A z \in TT, h \in HH : Hooks!Mine(z, h)' => Hooks!Mine(z, h)
    BY <1>1, <1>2, MineStep DEF Hooks!Leaving
  <1>11. Hooks!EndInv'
    <2>1. i_kind'[x] = "exit" /\ i_pc'[x] = "run"
      BY <1>1, <1>2
    <2>2. \A y \in TT : y # x => i_kind'[y] = i_kind[y] /\ i_pc'[y] = i_pc[y]
      BY <1>1, <1>2
    <2> QED
      BY <1>1, <2>1, <2>2 DEF Hooks!EndInv, TT
  <1>12. Hooks!StateInv'
    <2> SUFFICES ASSUME NEW z \in TT, NEW h \in HH, Hooks!Mine(z, h)
                 PROVE  Hooks!InStep(z, h)'
      BY <1>10 DEF Hooks!StateInv, HH, TT
    <2>1. CASE z # x
      BY <1>1, <1>2, <2>1, OtherThread
    <2>2. CASE z = x
      <3>1. Hooks!Selected(h)' <=> Hooks!Selected(h)
        BY <1>1 DEF Hooks!Selected
      <3>2. /\ ~Hooks!Selected(h) \/ ~Hooks!Begun(x, h) => i_hook[h] = "idle" /\ i_starts[h] = 0
            /\ Hooks!Selected(h) /\ Hooks!Begun(x, h) => i_hook[h] # "idle" /\ i_starts[h] = 1
            /\ Hooks!Selected(h) /\ Hooks!Returned(x, h) => i_hook[h] = "done"
        BY <2>2 DEF Hooks!StateInv, Hooks!InStep, HH, TT
      <3>3. CASE Hooks!Kind(h) = "init"
        <4>1. /\ Hooks!Begun(x, h) /\ Hooks!Begun(x, h)' /\ Hooks!Returned(x, h)
          BY <1>1, <1>2, <1>4, <3>3 DEF Hooks!Begun, Hooks!Returned, Hooks!Running
        <4> QED
          BY <1>1, <2>2, <3>1, <3>2, <4>1 DEF Hooks!InStep
      <3>4. CASE Hooks!Kind(h) = "exit"
        <4>1. ~Hooks!Begun(x, h)
          BY <1>4, <3>4 DEF Hooks!Begun
        <4>2. Hooks!Selected(h) => ~Hooks!Begun(x, h)' /\ ~Hooks!Returned(x, h)'
          BY <1>1, <1>2, <1>3, <3>4 DEF Hooks!Begun, Hooks!Returned, Hooks!Running
        <4> QED
          BY <1>1, <2>2, <3>1, <3>2, <4>1, <4>2 DEF Hooks!InStep
      <3> QED
        BY <3>3, <3>4
    <2> QED
      BY <2>1, <2>2
  <1> QED
    BY <1>5, <1>7, <1>8, <1>9, <1>11, <1>12

(* The process ends, in order or by an exception.                          *)
LEMMA EndSteps ==
  ASSUME Hooks!Inv, NEW x \in TT,
         Hooks!ProcessEnds(x) \/ \E k \in i_todo[x] : Hooks!WaitAborts(x, k)
  PROVE  Hooks!Inv'
  <1> USE HookTypes DEF Hooks!Inv
  <1>1. /\ UNCHANGED <<i_include, i_exclude, i_async, i_hook, i_starts, i_future, i_lists, i_pc,
                       i_kind, i_level, i_todo, i_ran_before>>
        /\ i_process' = "aborted" \/ (i_process' = "ended" /\ i_pc[x] = "over")
    BY DEF Hooks!ProcessEnds, Hooks!WaitAborts, Hooks!flags, Hooks!hookVars, Hooks!threadVars
  <1>2. Hooks!TypeOK'
    BY <1>1 DEF Hooks!TypeOK, Hooks!Key
  <1>3. Hooks!ThreadInv'
    BY <1>1 DEF Hooks!ThreadInv, Hooks!KeysOf, Hooks!Selected, Hooks!Running
  <1>4. Hooks!IdleInv'
    BY <1>1 DEF Hooks!IdleInv
  <1>5. Hooks!StartsInv'
    BY <1>1 DEF Hooks!StartsInv, Hooks!Begun, Hooks!Running
  <1>6. \A z \in TT, h \in HH : Hooks!Mine(z, h)' => Hooks!Mine(z, h)
    BY <1>1, MineStep DEF Hooks!Leaving
  <1>7. Hooks!StateInv'
    BY <1>1, <1>6, OtherThread DEF Hooks!StateInv, HH, TT
  <1>8. Hooks!EndInv'
    BY <1>1 DEF Hooks!EndInv, TT
  <1> QED
    BY <1>2, <1>3, <1>4, <1>5, <1>7, <1>8

(* Every step of a thread and of a hook keeps the invariant.              *)
LEMMA HooksStep == Hooks!Inv /\ [Hooks!Next]_HooksVars => Hooks!Inv'
  <1> SUFFICES ASSUME Hooks!Inv, [Hooks!Next]_HooksVars PROVE Hooks!Inv'
    OBVIOUS
  <1>1. ASSUME NEW x \in TT, Hooks!ThreadStep(x) PROVE Hooks!Inv'
    BY <1>1, StartListStep, WaitSteps, NextLevelStep, ShutdownSteps, SetRanBeforeStep, EndSteps
    DEF Hooks!ThreadStep, Hooks!ShutdownSystem
  <1>2. CASE Hooks!MainReturns
    BY <1>2, ShutdownSteps DEF Hooks!MainReturns, TT, Hooks!Threads
  <1>3. CASE \E h \in HH : Hooks!HookStep(h)
    BY <1>3, HookSteps
  <1>4. CASE UNCHANGED HooksVars
    <2> USE <1>4 DEF HooksVars, Hooks!Inv
    <2>1. Hooks!TypeOK'
      BY DEF Hooks!TypeOK, Hooks!Key
    <2>2. Hooks!ThreadInv' /\ Hooks!IdleInv'
      BY DEF Hooks!ThreadInv, Hooks!IdleInv, Hooks!KeysOf, Hooks!Selected, Hooks!Running
    <2>3. Hooks!StartsInv'
      BY DEF Hooks!StartsInv, Hooks!Begun, Hooks!Running
    <2>4. Hooks!StateInv'
      <3>1. \A z \in TT, h \in HH : Hooks!Mine(z, h)' => Hooks!Mine(z, h)
        BY MineStep DEF Hooks!Leaving
      <3> QED
        BY <3>1, OtherThread DEF Hooks!StateInv, HH, TT
    <2>5. Hooks!EndInv'
      BY DEF Hooks!EndInv
    <2> QED
      BY <2>1, <2>2, <2>3, <2>4, <2>5
  <1>5. CASE Hooks!Terminated
    BY <1>4, <1>5 DEF Hooks!Terminated, Hooks!vars, HooksVars
  <1> QED
    BY <1>1, <1>2, <1>3, <1>4, <1>5 DEF Hooks!Next, HH, TT

(* The process begins with the init hooks of the lowest priority.          *)
LEMMA HooksInit == Hooks!Init => Hooks!Inv
  <1> SUFFICES ASSUME Hooks!Init PROVE Hooks!Inv
    OBVIOUS
  <1> DEFINE n == Hooks!FirstLevel("init")
             S == Hooks!KeysOf("init", n)
  <1>1. /\ n \in Int /\ S \subseteq {Hooks!Key(h) : h \in HH}
        /\ \A h \in HH : Hooks!Key(h) \in S <=> Hooks!Kind(h) = "init" /\ Hooks!Selected(h) /\ Level[h] = n
        /\ \A h \in HH : Hooks!Kind(h) = "init" /\ Hooks!Selected(h) => n <= Level[h]
    BY LevelFacts, KeysOfFacts
  <1>2. /\ i_hook = [h \in HH |-> "idle"] /\ i_starts = [h \in HH |-> 0] /\ i_lists = {}
        /\ i_pc = [x \in TT |-> IF x = Main THEN "run" ELSE "main"]
        /\ i_kind = [x \in TT |-> "init"] /\ i_level = [x \in TT |-> n] /\ i_todo = [x \in TT |-> S]
        /\ i_ran_before = FALSE /\ i_process = "alive"
        /\ i_future = [h \in HH |-> FALSE]
    BY DEF Hooks!Init, HH, TT
  <1>3. Hooks!ThreadInv
    BY <1>2 DEF Hooks!ThreadInv, Hooks!Running, TT
  <1> HIDE DEF n, S
  <1>4. IsFiniteSet(TT) /\ Cardinality(TT) \in Nat
    <2>1. IsFiniteSet(Quitters) /\ TT = Quitters \cup {Main}
      BY HooksAssumption, HooksFinite DEF Hooks!InitExitAssumption, TT, Hooks!Threads
    <2>2. IsFiniteSet(TT)
      BY <2>1, FS_AddElement
    <2> QED
      BY <2>2, FS_CardinalityType
  <1>5. Hooks!TypeOK
    <2>1. i_starts \in [HH -> 0 .. Hooks!Cardinality(TT)]
      BY <1>2, <1>4, HooksFinite
    <2>2. /\ i_include \in [Hooks!Kinds -> SUBSET Groups] /\ i_exclude \in [Hooks!Kinds -> SUBSET Groups]
          /\ i_async \in [Hooks!Kinds -> BOOLEAN]
      BY DEF Hooks!Init
    <2>3. i_kind \in [TT -> Hooks!Kinds]
      BY <1>2 DEF Hooks!Kinds
    <2> QED
      BY <1>1, <1>2, <2>1, <2>2, <2>3 DEF Hooks!TypeOK, HH, TT
  <1>6. Hooks!IdleInv /\ Hooks!EndInv
    <2>1. Hooks!IdleInv
      BY <1>2 DEF Hooks!IdleInv
    <2>2. Main \in TT /\ \A x \in TT : i_pc[x] \in {"run", "main"}
      BY <1>2, <1>5, HookTypes
    <2> QED
      BY <1>2, <2>1, <2>2 DEF Hooks!EndInv, TT
  <1>7. Hooks!StartsInv
    <2> SUFFICES ASSUME NEW h \in HH PROVE i_starts[h] <= Hooks!Cardinality({x \in TT : Hooks!Begun(x, h)})
      BY DEF Hooks!StartsInv, HH, TT
    <2>1. IsFiniteSet({x \in TT : Hooks!Begun(x, h)})
      BY <1>4, FS_Subset
    <2>2. Cardinality({x \in TT : Hooks!Begun(x, h)}) \in Nat
      BY <2>1, FS_CardinalityType
    <2> QED
      BY <1>2, <2>2, HooksFinite
  <1>8. Hooks!StateInv
    <2> SUFFICES ASSUME NEW z \in TT, NEW h \in HH, Hooks!Mine(z, h), Hooks!Selected(h)
                 PROVE  ~Hooks!Begun(z, h) /\ ~Hooks!Returned(z, h)
      BY <1>2 DEF Hooks!StateInv, Hooks!InStep, HH, TT
    <2>1. Hooks!Kind(h) = "init" => z = Main
      BY DEF Hooks!Mine
    <2> QED
      BY <1>1, <1>2, <1>5, <2>1, HookTypes DEF Hooks!Begun, Hooks!Returned, Hooks!Running
  <1> QED
    BY <1>3, <1>5, <1>6, <1>7, <1>8 DEF Hooks!Inv

(* For all sets of hooks, priorities, groups, flags and threads: an init   *)
(* hook starts after the selected ones of lower priorities have returned,  *)
(* and so does an exit hook while at most one thread ends the process;     *)
(* init_main() runs after exactly the selected init hooks; a process that  *)
(* main() alone ends does so after the required hooks, and one that any    *)
(* one thread ends after every selected exit hook has run once, unless it  *)
(* was quick_exit() before the handler was registered.                     *)
THEOREM HooksInOrder == AllSpec => []HooksOrdered
  <1> DEFINE I == which = "init" => Hooks!Inv
  <1>1. AllInit => I
    BY HooksInit DEF AllInit
  <1>2. I /\ [AllNext]_allVars => I'
    <2> SUFFICES ASSUME I, [AllNext]_allVars, which' = "init" PROVE Hooks!Inv'
      OBVIOUS
    <2>1. which = "init" /\ [Hooks!Next]_HooksVars
      BY DEF AllNext, allVars
    <2> QED
      BY <2>1, HooksStep
  <1>3. I => HooksOrdered
    <2> SUFFICES ASSUME Hooks!Inv
                 PROVE  /\ Hooks!TypeOK /\ Hooks!LevelOrder /\ Hooks!MainAfterInit
                        /\ Hooks!RequiredRun /\ Hooks!ExitHooksRun
      BY DEF HooksOrdered
    <2> USE HookTypes DEF Hooks!Inv
    <2>1. Hooks!LevelOrder
      <3> SUFFICES ASSUME NEW h \in HH, NEW g \in HH,
                          Hooks!Kind(h) = "init" \/ Hooks!OneWayOut,
                          Hooks!Kind(h) = Hooks!Kind(g), Level[g] < Level[h],
                          i_hook[h] # "idle", Hooks!Selected(g)
                   PROVE  i_hook[g] = "done"
        BY DEF Hooks!LevelOrder, HH
      <3>1. PICK z \in TT : Hooks!Mine(z, h) /\ Hooks!Mine(z, g)
        BY DEF Hooks!Mine, Hooks!OneWayOut, TT
      <3>2. Hooks!Begun(z, h)
        BY <3>1 DEF Hooks!StateInv, Hooks!InStep, HH, TT
      <3>3. Hooks!Returned(z, g)
        BY <3>2 DEF Hooks!Begun, Hooks!Returned
      <3> QED
        BY <3>1, <3>3 DEF Hooks!StateInv, Hooks!InStep, HH, TT
    <2>2. Hooks!MainAfterInit
      <3> SUFFICES ASSUME i_pc[Main] \in {"main", "test", "set"}, NEW h \in InitHooks
                   PROVE  i_hook[h] = IF Hooks!Selected(h) THEN "done" ELSE "idle"
        BY DEF Hooks!MainAfterInit
      <3>1. h \in HH /\ Hooks!Kind(h) = "init" /\ i_kind[Main] = "init"
        BY DEF Hooks!ThreadInv, TT
      <3>2. Hooks!Returned(Main, h) /\ Hooks!Begun(Main, h) /\ Hooks!Mine(Main, h)
        BY <3>1 DEF Hooks!Returned, Hooks!Begun, Hooks!Mine, Hooks!Running
      <3> QED
        BY <3>1, <3>2 DEF Hooks!StateInv, Hooks!InStep, HH, TT
    <2>3. ASSUME i_process = "ended", NEW z \in TT, Hooks!Sole(z), i_pc[z] # "gone",
                 NEW h \in HH, Hooks!Selected(h), Hooks!Mine(z, h)
          PROVE  i_hook[h] = "done" /\ i_starts[h] = 1
      <3>1. i_pc[z] = "over"
        BY <2>3 DEF Hooks!EndInv, Hooks!Sole, Hooks!Leaving, TT
      <3>2. i_kind[z] = "exit"
        BY <2>3, <3>1 DEF Hooks!EndInv, Hooks!Sole, Hooks!Leaving, TT
      <3>3. Hooks!Returned(z, h) /\ Hooks!Begun(z, h)
        BY <3>1, <3>2 DEF Hooks!Returned, Hooks!Begun, Hooks!Running
      <3> QED
        BY <2>3, <3>3 DEF Hooks!StateInv, Hooks!InStep, HH, TT
    <2>4. \A h \in HH : Group[h] \in Required => Hooks!Selected(h)
      BY DEF Hooks!Selected
    <2>5. ExitHooks \subseteq HH
      BY DEF HH, Hooks!Hooks
    <2>6. Hooks!RequiredRun
      <3>1. i_pc[Main] # "gone"
        BY DEF Hooks!EndInv
      <3>2. Hooks!Sole(Main) => \A h \in HH : Hooks!Mine(Main, h)
        BY DEF Hooks!Mine
      <3> QED
        BY <2>3, <2>4, <3>1, <3>2 DEF Hooks!RequiredRun, HH
    <2>7. Hooks!ExitHooksRun
      <3>1. \A h \in ExitHooks : Hooks!Kind(h) # "init"
        BY HooksAssumption DEF Hooks!InitExitAssumption, Hooks!Kind
      <3>2. \A z \in TT, h \in ExitHooks : Hooks!Sole(z) => Hooks!Mine(z, h)
        BY <3>1 DEF Hooks!Mine
      <3> QED
        BY <2>3, <2>5, <3>2 DEF Hooks!ExitHooksRun, Hooks!OneWayOut, TT
    <2> QED
      BY <2>1, <2>2, <2>6, <2>7
  <1> QED
    BY <1>1, <1>2, <1>3, PTL DEF AllSpec

-----------------------------------------------------------------------------
(* Proofs about the updates of statistics, for all numbers of days, files  *)
(* and troubles.                                                           *)

\* The statistics of the instance.
SS == Statistics

(* A set of days that is not empty has a first one.                        *)
LEMMA StatsMin ==
  ASSUME NEW S, S \subseteq Nat, S # {}
  PROVE  Stats!Min(S) \in S /\ \A y \in S : Stats!Min(S) <= y
  <1>1. PICK m \in S : \A y \in S : ~(<<y, m>> \in OpToRel(<, Nat))
    BY NatLessThanWellFounded, WFMin
  <1>2. \A y \in S : ~(y < m)
    BY <1>1 DEF OpToRel
  <1>3. \A y \in S : m <= y
    BY <1>2
  <1> QED
    BY <1>3 DEF Stats!Min

(* The later one of two days.                                              *)
LEMMA StatsMax ==
  ASSUME NEW a \in Nat, NEW b \in Nat
  PROVE  Stats!Max({a, b}) = IF a >= b THEN a ELSE b
  <1> DEFINE m == IF a >= b THEN a ELSE b
  <1>1. m \in {a, b} /\ \A y \in {a, b} : m >= y
    OBVIOUS
  <1>2. Stats!Max({a, b}) \in {a, b} /\ \A y \in {a, b} : Stats!Max({a, b}) >= y
    BY <1>1 DEF Stats!Max
  <1> QED
    BY <1>2

(* A day that is not in a statistic is in it once when it is added.        *)
LEMMA MoreFacts ==
  ASSUME NEW n \in 0 .. 2
  PROVE  Stats!More(n) \in 0 .. 2 /\ (n = 0 => Stats!More(n) = 1)
  <1>1. {n + 1, 2} \subseteq Nat /\ {n + 1, 2} # {}
    OBVIOUS
  <1>2. Stats!Min({n + 1, 2}) \in {n + 1, 2} /\ \A y \in {n + 1, 2} : Stats!Min({n + 1, 2}) <= y
    BY <1>1, StatsMin
  <1> QED
    BY <1>2 DEF Stats!More

(* A fresh statistic and an idle job are of their types.                   *)
LEMMA FreshFacts ==
  /\ Stats!Fresh \in Stats!Stat /\ Stats!Fresh.ts = 0 /\ Stats!Fresh.ahead = 0 /\ Stats!Fresh.odd = {}
  /\ \A d \in Stats!Days : Stats!Fresh.count[d] = 0
  /\ Stats!Idle.at = "idle"
  /\ Stats!Idle \in [at : Stats!Places, begin : Nat, end : Nat, given : BOOLEAN, inputs : BOOLEAN,
                     gap : BOOLEAN, mem : [SS -> Stats!Stat], next : SS]
  <1>1. Stats!Fresh \in Stats!Stat /\ Stats!Fresh.ts = 0 /\ Stats!Fresh.ahead = 0 /\ Stats!Fresh.odd = {}
    BY DEF Stats!Fresh, Stats!Stat
  <1>2. \A d \in Stats!Days : Stats!Fresh.count[d] = 0
    BY DEF Stats!Fresh
  <1>3. 1 \in SS
    BY StatsAssumption DEF Stats!StatsUpdaterAssumption, SS
  <1>4. [s \in SS |-> Stats!Fresh] \in [SS -> Stats!Stat]
    BY <1>1
  <1> QED
    BY <1>1, <1>2, <1>3, <1>4 DEF Stats!Idle, Stats!Places, SS

(* The run ends, crashes or has not begun: nothing is known of the job.    *)
LEMMA IdleStep ==
  ASSUME Stats!Inv, u_job' = Stats!Idle, UNCHANGED <<u_today, u_file>>, u_troubles' \in 0 .. MaxTroubles
  PROVE  Stats!Inv'
  <1>1. Stats!TypeOK'
    BY FreshFacts DEF Stats!Inv, Stats!TypeOK, SS
  <1>2. Stats!FileInv'
    BY DEF Stats!Inv, Stats!FileInv, Stats!Readable, Stats!Kept, Stats!Once, Stats!Whole
  <1>3. Stats!JobInv'
    BY FreshFacts DEF Stats!JobInv
  <1> QED
    BY <1>1, <1>2, <1>3 DEF Stats!Inv

\* What job may hold.
JobType == [at : Stats!Places, begin : Nat, end : Nat, given : BOOLEAN, inputs : BOOLEAN,
            gap : BOOLEAN, mem : [SS -> Stats!Stat], next : SS]

(* The flags are parsed: without an end date the run ends today, and no    *)
(* file is ahead of that.                                                  *)
LEMMA ParseStep ==
  ASSUME Stats!Inv, NEW given \in Ends, NEW begin \in 1 .. u_today, NEW inputs \in BOOLEAN,
         NEW gap \in BOOLEAN, Stats!ParseFlags(given, begin, inputs, gap)
  PROVE  Stats!Inv'
  <1> USE DEF Stats!Inv
  <1>1. UNCHANGED <<u_today, u_file, u_troubles>>
    BY DEF Stats!ParseFlags
  <1>2. u_today \in Nat /\ given \in Nat /\ begin \in Nat /\ begin >= 1
    BY StatsAssumption DEF Stats!TypeOK, Stats!StatsUpdaterAssumption
  <1>3. /\ u_job' \in JobType /\ u_job'.at = "load" /\ u_job'.begin = begin
        /\ u_job'.given <=> given # 0
        /\ u_job'.end = IF given = 0 THEN u_today ELSE given
    <2>1. (given # 0) \in BOOLEAN
      OBVIOUS
    <2>2. u_job' = [Stats!Idle EXCEPT !.at = "load", !.begin = begin, !.inputs = inputs, !.gap = gap,
                         !.given = given # 0, !.end = IF given = 0 THEN u_today ELSE given]
      BY DEF Stats!ParseFlags
    <2> QED
      BY <1>2, <2>1, <2>2, FreshFacts DEF JobType, Stats!Places
  <1>4. Stats!TypeOK'
    BY <1>1, <1>3 DEF Stats!TypeOK, JobType, SS
  <1>5. Stats!FileInv'
    BY <1>1 DEF Stats!FileInv, Stats!Readable, Stats!Kept, Stats!Once, Stats!Whole
  <1>6. \A s \in Stats!Readable : u_file[s].stat.ts <= u_today
    BY <1>2 DEF Stats!FileInv, Stats!Kept
  <1>7. Stats!JobInv'
    <2>1. \A s \in Stats!Readable' : s \in Stats!Readable
      BY <1>1 DEF Stats!Readable
    <2> QED
      BY <1>1, <1>2, <1>3, <1>6, <2>1 DEF Stats!JobInv
  <1> QED
    BY <1>4, <1>5, <1>7

(* The clock strikes.                                                      *)
LEMMA MidnightStep ==
  ASSUME Stats!Inv, Stats!Midnight
  PROVE  Stats!Inv'
  <1> USE DEF Stats!Inv
  <1>1. /\ UNCHANGED <<u_file, u_job, u_troubles>> /\ u_today' = u_today + 1 /\ u_today < MaxDay
        /\ u_today \in Nat /\ MaxDay \in Nat
    BY StatsAssumption DEF Stats!Midnight, Stats!TypeOK, Stats!StatsUpdaterAssumption
  <1>2. Stats!TypeOK'
    BY <1>1 DEF Stats!TypeOK
  <1>3. u_job \in JobType /\ u_file \in [SS -> [state : {"missing", "torn", "ok"}, stat : Stats!Stat]]
    BY DEF Stats!TypeOK, JobType, SS
  <1>4. Stats!FileInv'
    <2> SUFFICES ASSUME NEW s \in Stats!Readable PROVE Stats!Kept(u_file[s].stat)' /\ u_file'[s].stat.ahead = 0
      BY <1>1 DEF Stats!FileInv, Stats!Readable
    <2>1. u_file[s].stat \in Stats!Stat /\ Stats!Kept(u_file[s].stat) /\ u_file[s].stat.ahead = 0
      BY <1>3 DEF Stats!FileInv, Stats!Readable, SS
    <2>2. u_file[s].stat.ts \in Nat /\ u_file[s].stat.ts <= u_today + 1
      BY <1>1, <2>1 DEF Stats!Kept, Stats!Stat
    <2> QED
      BY <1>1, <2>1, <2>2 DEF Stats!Kept, Stats!Once, Stats!Whole
  <1>5. Stats!JobInv'
    <2> USE <1>1, <1>3 DEF Stats!JobInv, JobType
    <2>1. (u_job.at = "load" /\ ~u_job.given =>
             u_job.end <= u_today /\ \A s \in Stats!Readable : u_file[s].stat.ts <= u_job.end)'
      BY DEF Stats!Readable
    <2>2. ASSUME NEW s \in SS, u_job.at = "decay" PROVE Stats!Loaded(u_job.mem[s])'
      <3>1. Stats!Loaded(u_job.mem[s]) /\ u_job.mem[s] \in Stats!Stat
        BY <2>2 DEF SS
      <3> QED
        BY <3>1 DEF Stats!Loaded, Stats!Once, Stats!Whole, Stats!Stat
    <2>3. ASSUME NEW s \in SS, u_job.at = "read" PROVE Stats!Decayed(u_job.mem[s])'
      <3>1. Stats!Decayed(u_job.mem[s]) /\ u_job.mem[s] \in Stats!Stat
        BY <2>3 DEF SS
      <3> QED
        BY <3>1 DEF Stats!Decayed, Stats!Once, Stats!Whole, Stats!Stat
    <2>4. ASSUME NEW s \in SS, u_job.at \in {"write", "writing"} PROVE Stats!Kept(u_job.mem[s])'
      <3>1. Stats!Kept(u_job.mem[s]) /\ u_job.mem[s] \in Stats!Stat
        BY <2>4 DEF SS
      <3> QED
        BY <3>1 DEF Stats!Kept, Stats!Once, Stats!Whole, Stats!Stat
    <2> QED
      BY <2>1, <2>2, <2>3, <2>4 DEF SS
  <1> QED
    BY <1>2, <1>4, <1>5

(* A statistic decays: its timestamp becomes today's; or it does not, and  *)
(* that is noted.                                                          *)
LEMMA DecayStep ==
  ASSUME Stats!Inv, Stats!Decay
  PROVE  Stats!Inv'
  <1> USE DEF Stats!Inv
  <1> DEFINE late == IF u_today = u_job.end THEN {} ELSE {"midnight"}
             Aged(s) == Stats!Marked(Stats!TimeDecaySignalData(u_job.mem[s]), late)
             Plain(s) == Stats!Marked(u_job.mem[s], {"dates"})
  <1>1. PICK New : /\ UNCHANGED <<u_today, u_file>> /\ u_troubles' \in 0 .. MaxTroubles /\ u_job.at = "decay"
                   /\ u_job' = [u_job EXCEPT !.at = "read", !.mem = New]
                   /\ \/ New = [s \in SS |-> Aged(s)]
                      \/ New = [s \in SS |-> Plain(s)]
    <2>1. Stats!Trouble \/ UNCHANGED u_troubles => u_troubles' \in 0 .. MaxTroubles
      BY StatsAssumption DEF Stats!Trouble, Stats!TypeOK, Stats!StatsUpdaterAssumption
    <2> QED
      BY <2>1 DEF Stats!Decay, SS
  <1>2. u_job \in JobType /\ u_today \in Nat /\ u_today >= 2
    BY StatsAssumption DEF Stats!TypeOK, JobType, SS, Stats!StatsUpdaterAssumption
  <1>3. ASSUME NEW s \in SS
        PROVE  /\ New[s] \in Stats!Stat
               /\ New[s].count = u_job.mem[s].count /\ New[s].from = u_job.mem[s].from
               /\ New[s].ts <= u_today /\ New[s].ahead <= New[s].ts
               /\ "dates" \in New[s].odd \/ (/\ New[s].odd = u_job.mem[s].odd \cup late
                                               /\ New[s].ts = u_today /\ New[s].ahead = u_job.mem[s].ts)
    <2>1. u_job.mem[s] \in Stats!Stat /\ Stats!Loaded(u_job.mem[s])
      BY <1>1, <1>2 DEF JobType, Stats!JobInv, SS
    <2>2. u_job.mem[s].ts <= u_today /\ u_job.mem[s].ts \in Nat /\ u_job.mem[s].ahead = 0
      BY <2>1 DEF Stats!Loaded, Stats!Stat
    <2>3. CASE New[s] = Aged(s)
      <3>1. Stats!TimeDecaySignalData(u_job.mem[s]) = [u_job.mem[s] EXCEPT !.ahead = u_job.mem[s].ts, !.ts = u_today]
        BY <1>2, <2>2 DEF Stats!TimeDecaySignalData
      <3>2. late \in SUBSET {"dates", "gap", "midnight"}
        OBVIOUS
      <3> HIDE DEF late
      <3>3. New[s] = [u_job.mem[s] EXCEPT !.ahead = u_job.mem[s].ts, !.ts = u_today, !.odd = @ \cup late]
        BY <2>1, <2>3, <3>1 DEF Stats!Stat, Stats!Marked
      <3>4. u_job.mem[s].odd \cup late \in SUBSET {"dates", "gap", "midnight"}
        BY <2>1, <3>2 DEF Stats!Stat
      <3>5. /\ New[s] \in Stats!Stat /\ New[s].ts = u_today /\ New[s].ahead = u_job.mem[s].ts
            /\ New[s].odd = u_job.mem[s].odd \cup late
            /\ New[s].count = u_job.mem[s].count /\ New[s].from = u_job.mem[s].from
        BY <1>2, <2>1, <2>2, <3>3, <3>4 DEF Stats!Stat
      <3> QED
        BY <1>2, <2>2, <3>5
    <2>4. CASE New[s] = Plain(s)
      BY <2>1, <2>2, <2>4 DEF Stats!Stat, Stats!Marked
    <2>5. New[s] = Aged(s) \/ New[s] = Plain(s)
      BY <1>1
    <2> QED
      BY <2>3, <2>4, <2>5
  <1> HIDE DEF Aged, Plain
  <1>4. /\ u_job' \in JobType /\ u_job'.at = "read" /\ u_job'.begin = u_job.begin /\ u_job'.end = u_job.end
        /\ \A s \in SS : u_job'.mem[s] = New[s]
    <2>1. New \in [SS -> Stats!Stat]
      BY <1>1, <1>3
    <2> QED
      BY <1>1, <1>2, <2>1 DEF JobType, Stats!Places
  <1>5. Stats!TypeOK'
    BY <1>1, <1>4 DEF Stats!TypeOK, JobType, SS
  <1>6. Stats!FileInv'
    BY <1>1 DEF Stats!FileInv, Stats!Readable, Stats!Kept, Stats!Once, Stats!Whole
  <1>7. ASSUME NEW s \in SS PROVE Stats!Decayed(u_job.mem[s])'
    <2>1. u_job.mem[s] \in Stats!Stat /\ Stats!Loaded(u_job.mem[s])
      BY <1>1, <1>2 DEF JobType, Stats!JobInv, SS
    <2> DEFINE old == u_job.mem[s]
               st == u_job'.mem[s]
    <2>2. /\ st.count = old.count /\ st.from = old.from /\ old.ts \in Nat
          /\ st.ts <= u_today /\ st.ahead <= st.ts
          /\ "dates" \in st.odd \/ (st.odd = old.odd \cup late /\ st.ts = u_today /\ st.ahead = old.ts)
      BY <1>3, <1>4, <2>1 DEF Stats!Stat
    <2>3. st.from >= 1
      BY <2>1, <2>2 DEF Stats!Loaded
    <2>4. "dates" \notin st.odd => st.ts >= 1 /\ u_job.end <= st.ts /\ Stats!Once(old, st.ahead)
      BY <1>2, <2>1, <2>2 DEF Stats!Loaded
    <2>5. st.odd = {} => old.odd = {} /\ u_today = u_job.end
      BY <2>2
    <2>6. st.odd = {} => /\ st.ts = u_job.end
                         /\ IF st.ahead = 0 THEN st.from = u_job.begin
                            ELSE u_job.begin <= st.ahead /\ Stats!Whole(old, st.ahead)
      BY <2>1, <2>2, <2>5 DEF Stats!Loaded
    <2> QED
      BY <1>1, <1>4, <2>2, <2>3, <2>4, <2>6 DEF Stats!Decayed, Stats!Once, Stats!Whole
  <1>8. Stats!JobInv'
    BY <1>1, <1>4, <1>7 DEF Stats!JobInv, SS
  <1> QED
    BY <1>5, <1>6, <1>8

(* The events of the logs are added: a day from the old timestamp on was   *)
(* in no statistic, and an earlier one is filtered out.                    *)
LEMMA IncrementedKept ==
  ASSUME Stats!TypeOK, NEW st \in Stats!Stat, Stats!Decayed(st), u_job.begin >= 1
  PROVE  Stats!Incremented(st) \in Stats!Stat /\ Stats!Kept(Stats!Incremented(st))
  <1> DEFINE Read(d) == d \in u_job.begin .. (u_job.end - 1) /\ d >= st.ahead
             new == Stats!Incremented(st)
  <1>1. /\ u_job.begin \in Nat /\ u_job.end \in Nat /\ u_today \in Nat /\ u_today <= MaxDay /\ MaxDay \in Nat
        /\ st.ahead \in Nat /\ st.ts \in Nat /\ st.from \in Nat /\ st.count \in [Stats!Days -> 0 .. 2]
    BY StatsAssumption DEF Stats!TypeOK, Stats!StatsUpdaterAssumption, Stats!Stat
  <1>2. new = [st EXCEPT !.count = [d \in Stats!Days |-> IF Read(d) THEN Stats!More(st.count[d]) ELSE st.count[d]]]
    BY DEF Stats!Incremented, Stats!Counts, Stats!Stat
  <1>3. \A d \in Stats!Days : Stats!More(st.count[d]) \in 0 .. 2 /\ (st.count[d] = 0 => Stats!More(st.count[d]) = 1)
    BY <1>1, MoreFacts
  <1>4. /\ new \in Stats!Stat /\ new.ts = st.ts /\ new.ahead = st.ahead /\ new.from = st.from /\ new.odd = st.odd
        /\ \A d \in Stats!Days : new.count[d] = IF Read(d) THEN Stats!More(st.count[d]) ELSE st.count[d]
    <2>1. [d \in Stats!Days |-> IF Read(d) THEN Stats!More(st.count[d]) ELSE st.count[d]] \in [Stats!Days -> 0 .. 2]
      BY <1>1, <1>3
    <2> QED
      BY <1>2, <2>1 DEF Stats!Stat
  <1> HIDE DEF new
  <1>5. /\ st.ts <= u_today /\ st.ahead <= st.ts /\ st.from >= 1
        /\ "dates" \notin st.odd => st.ts >= 1
    BY DEF Stats!Decayed
  <1>6. ASSUME "dates" \notin st.odd, NEW d \in Stats!Days
        PROVE  /\ Read(d) => new.count[d] = 1
               /\ new.count[d] # 0 => new.count[d] = 1 /\ d < st.ts
    <2>1. u_job.end <= st.ts /\ (st.count[d] # 0 => st.count[d] = 1 /\ d < st.ahead) /\ d \in Nat
      BY <1>1, <1>6 DEF Stats!Decayed, Stats!Once, Stats!Days
    <2> QED
      BY <1>1, <1>3, <1>4, <1>5, <2>1
  <1>7. ASSUME st.odd = {}, NEW d \in st.from .. (st.ts - 1)
        PROVE  new.count[d] = 1
    <2>1. d \in Stats!Days /\ d \in Nat
      BY <1>1, <1>5 DEF Stats!Days
    <2>2. st.ts = u_job.end
      BY <1>7 DEF Stats!Decayed
    <2>3. CASE d < st.ahead
      <3>1. st.count[d] = 1
        BY <1>1, <1>7, <2>1, <2>3 DEF Stats!Decayed, Stats!Whole
      <3> QED
        BY <1>1, <1>4, <2>1, <2>3, <3>1
    <2>4. CASE d >= st.ahead
      <3>1. u_job.begin <= d
        BY <1>1, <1>7, <2>1, <2>4 DEF Stats!Decayed
      <3>2. Read(d)
        BY <1>1, <2>1, <2>2, <2>4, <3>1
      <3>3. "dates" \notin st.odd
        BY <1>7
      <3> QED
        BY <1>6, <2>1, <3>2, <3>3
    <2> QED
      BY <1>1, <2>1, <2>3, <2>4
  <1>8. "dates" \notin new.odd => Stats!Once(new, new.ts)
    BY <1>4, <1>6 DEF Stats!Once
  <1>9. new.odd = {} => Stats!Whole(new, new.ts)
    BY <1>4, <1>7 DEF Stats!Whole
  <1>10. Stats!Kept(new)
    BY <1>4, <1>5, <1>8, <1>9 DEF Stats!Kept
  <1> QED
    BY <1>4, <1>10 DEF new

(* The logs are read, or the run exits.                                    *)
LEMMA ReadLogsStep ==
  ASSUME Stats!Inv, Stats!ReadLogs
  PROVE  Stats!Inv'
  <1> USE DEF Stats!Inv
  <1>1. UNCHANGED <<u_today, u_file, u_troubles>> /\ u_job.at = "read" /\ u_troubles \in 0 .. MaxTroubles
    BY DEF Stats!ReadLogs, Stats!TypeOK
  <1>2. CASE Stats!Exit
    BY <1>1, <1>2, IdleStep DEF Stats!Exit
  <1>3. CASE u_job' = [u_job EXCEPT !.at = "write", !.mem = [s \in SS |-> Stats!Incremented(u_job.mem[s])]]
    <2>1. u_job \in JobType /\ u_job.begin >= 1
      BY <1>1 DEF Stats!TypeOK, JobType, SS, Stats!JobInv
    <2>2. ASSUME NEW s \in SS
          PROVE  Stats!Incremented(u_job.mem[s]) \in Stats!Stat /\ Stats!Kept(Stats!Incremented(u_job.mem[s]))
      <3>1. u_job.mem[s] \in Stats!Stat /\ Stats!Decayed(u_job.mem[s])
        BY <1>1, <2>1 DEF JobType, Stats!JobInv, SS
      <3> QED
        BY <2>1, <3>1, IncrementedKept
    <2>3. /\ u_job' \in JobType /\ u_job'.at = "write" /\ u_job'.begin = u_job.begin
          /\ \A s \in SS : u_job'.mem[s] = Stats!Incremented(u_job.mem[s])
      BY <1>3, <2>1, <2>2 DEF JobType, Stats!Places
    <2>4. Stats!TypeOK'
      BY <1>1, <2>3 DEF Stats!TypeOK, JobType, SS
    <2>5. Stats!FileInv'
      BY <1>1 DEF Stats!FileInv, Stats!Readable, Stats!Kept, Stats!Once, Stats!Whole
    <2>6. ASSUME NEW s \in SS PROVE Stats!Kept(u_job.mem[s])'
      <3>1. Stats!Kept(u_job'.mem[s])
        BY <2>2, <2>3
      <3> QED
        BY <1>1, <3>1 DEF Stats!Kept, Stats!Once, Stats!Whole
    <2>7. Stats!JobInv'
      BY <2>1, <2>3, <2>6 DEF Stats!JobInv, SS
    <2> QED
      BY <2>4, <2>5, <2>7
  <1> QED
    BY <1>2, <1>3 DEF Stats!ReadLogs, SS

(* Files are opened and written one after the other.  A file that is being *)
(* written is not readable; one that is written holds what the job holds.  *)
LEMMA WriteStep ==
  ASSUME Stats!Inv, Stats!OpenFile \/ Stats!WriteFile
  PROVE  Stats!Inv'
  <1> USE DEF Stats!Inv
  <1>1. /\ UNCHANGED <<u_today, u_troubles>> /\ u_job.at \in {"write", "writing"} /\ u_troubles \in 0 .. MaxTroubles
        /\ u_job \in JobType /\ u_file \in [SS -> [state : {"missing", "torn", "ok"}, stat : Stats!Stat]]
    BY DEF Stats!OpenFile, Stats!WriteFile, Stats!TypeOK, JobType, SS
  <1>2. u_job.begin >= 1 /\ \A s \in SS : Stats!Kept(u_job.mem[s]) /\ u_job.mem[s] \in Stats!Stat
    BY <1>1 DEF Stats!JobInv, JobType, SS
  <1>3. /\ u_file' \in [SS -> [state : {"missing", "torn", "ok"}, stat : Stats!Stat]]
        /\ \A s \in SS : u_file'[s].state = "ok" => Stats!Kept(u_file'[s].stat) /\ u_file'[s].stat.ahead = 0
    <2>1. \A s \in SS : u_file[s].state = "ok" => Stats!Kept(u_file[s].stat) /\ u_file[s].stat.ahead = 0
      BY DEF Stats!FileInv, Stats!Readable, SS
    <2>2. CASE UNCHANGED u_file
      BY <1>1, <2>1, <2>2
    <2>3. CASE u_file' = [u_file EXCEPT ![u_job.next] = [state |-> "torn", stat |-> Stats!Fresh]]
      BY <1>1, <2>1, <2>3, FreshFacts DEF JobType
    <2>4. CASE u_file' = [u_file EXCEPT ![u_job.next] =
                 [state |-> "ok", stat |-> [u_job.mem[u_job.next] EXCEPT !.ahead = 0]]]
      <3> DEFINE st == [u_job.mem[u_job.next] EXCEPT !.ahead = 0]
      <3>1. Stats!Kept(u_job.mem[u_job.next]) /\ u_job.mem[u_job.next] \in Stats!Stat /\ u_job.next \in SS
        BY <1>1, <1>2 DEF JobType
      <3>2. st \in Stats!Stat /\ st.ahead = 0 /\ Stats!Kept(st)
        BY <3>1 DEF Stats!Stat, Stats!Kept, Stats!Once, Stats!Whole
      <3> HIDE DEF st
      <3> QED
        BY <1>1, <2>1, <2>4, <3>1, <3>2 DEF st
    <2> QED
      BY <2>2, <2>3, <2>4 DEF Stats!OpenFile, Stats!WriteFile
  <1>4. Stats!FileInv'
    BY <1>1, <1>3 DEF Stats!FileInv, Stats!Readable, Stats!Kept, Stats!Once, Stats!Whole, SS
  <1>5. u_job' \in JobType /\ (u_job'.at = "idle" \/ (u_job'.at \in {"write", "writing"} /\ u_job'.mem = u_job.mem /\ u_job'.begin = u_job.begin))
    <2>1. CASE u_job' = Stats!Idle
      BY <2>1, FreshFacts DEF JobType
    <2>2. CASE u_job.next + 1 \in SS /\ u_job' = [u_job EXCEPT !.at = "write", !.next = u_job.next + 1]
      BY <1>1, <2>2 DEF JobType, Stats!Places
    <2>3. CASE u_job' = [u_job EXCEPT !.at = "writing"]
      BY <1>1, <2>3 DEF JobType, Stats!Places
    <2> QED
      BY <1>1, <2>1, <2>2, <2>3 DEF Stats!OpenFile, Stats!WriteFile, Stats!Written, SS, JobType
  <1>6. Stats!TypeOK'
    BY <1>1, <1>3, <1>5 DEF Stats!TypeOK, JobType, SS
  <1>7. Stats!JobInv'
    <2>1. ASSUME NEW s \in SS, u_job'.mem = u_job.mem PROVE Stats!Kept(u_job.mem[s])'
      BY <1>1, <1>2, <2>1 DEF Stats!Kept, Stats!Once, Stats!Whole
    <2> QED
      BY <1>2, <1>5, <2>1 DEF Stats!JobInv, SS
  <1> QED
    BY <1>4, <1>6, <1>7

(* The input files are read.  Without an end date none of them is ahead of *)
(* the run, which begins where the first of them ends.                     *)
LEMMA LoadStep ==
  ASSUME Stats!Inv, Stats!Load
  PROVE  Stats!Inv'
  <1> USE DEF Stats!Inv
  <1> DEFINE mem == [s \in SS |-> IF u_job.inputs THEN u_file[s].stat
                                  ELSE [Stats!Fresh EXCEPT !.from = u_job.begin]]
             date == Stats!ReadFrom(mem)
             skips == IF date < u_job.begin THEN {"gap"} ELSE {}
             ends == IF u_job.given THEN {"dates"} ELSE {}
             times == Stats!ReadUptoTimes(mem)
  <1>1. /\ UNCHANGED <<u_today, u_file, u_troubles>> /\ u_job.at = "load" /\ u_troubles \in 0 .. MaxTroubles
        /\ u_job \in JobType /\ u_file \in [SS -> [state : {"missing", "torn", "ok"}, stat : Stats!Stat]]
        /\ u_today \in Nat
    BY StatsAssumption DEF Stats!Load, Stats!TypeOK, JobType, SS, Stats!StatsUpdaterAssumption
  <1>2. /\ u_job.begin >= 1
        /\ ~u_job.given => u_job.end <= u_today /\ \A s \in SS : u_file[s].state = "ok" => u_file[s].stat.ts <= u_job.end
    BY <1>1 DEF Stats!JobInv, Stats!Readable, SS
  <1>3. CASE Stats!Exit
    BY <1>1, <1>3, IdleStep DEF Stats!Exit
  <1>4. CASE ~Stats!Exit
    <2>1. u_job.inputs => \A s \in SS : u_file[s].state = "ok"
      BY <1>4 DEF Stats!Load, SS
    <2>2. \/ times = {} /\ u_job' = [u_job EXCEPT !.at = "decay", !.mem = Stats!Explicit(mem)]
          \/ times # {} /\ date > u_job.end /\ u_job' = [u_job EXCEPT !.at = "read", !.mem = Stats!Explicit(mem)]
          \/ times # {} /\ u_job' = [u_job EXCEPT !.at = "decay", !.begin = Stats!Max({u_job.begin, date}),
                  !.mem = [s \in SS |-> Stats!Marked(Stats!Explicit(mem)[s], skips)]]
      BY <1>4 DEF Stats!Load, SS
    <2>3. ASSUME NEW s \in SS
          PROVE  /\ mem[s] \in Stats!Stat /\ mem[s].ahead = 0 /\ mem[s].from >= 1
                 /\ u_job.inputs => Stats!Kept(mem[s]) /\ (~u_job.given => mem[s].ts <= u_job.end)
                 /\ ~u_job.inputs => mem[s].ts = 0 /\ mem[s].from = u_job.begin /\ (\A d \in Stats!Days : mem[s].count[d] = 0)
      <3>1. CASE u_job.inputs
        <4>1. mem[s] = u_file[s].stat /\ u_file[s].state = "ok"
          BY <2>1, <3>1
        <4>2. Stats!Kept(mem[s]) /\ mem[s].ahead = 0
          BY <4>1 DEF Stats!FileInv, Stats!Readable, SS
        <4>3. mem[s].from >= 1
          BY <4>2 DEF Stats!Kept
        <4> HIDE DEF mem
        <4> QED
          BY <1>1, <1>2, <3>1, <4>1, <4>2, <4>3
      <3>2. CASE ~u_job.inputs
        <4>1. mem[s] = [Stats!Fresh EXCEPT !.from = u_job.begin] /\ u_job.begin \in Nat
          BY <1>1, <3>2 DEF JobType
        <4> HIDE DEF mem
        <4> QED
          BY <1>2, <3>2, <4>1, FreshFacts DEF Stats!Stat
      <3> QED
        BY <3>1, <3>2
    <2> HIDE DEF mem
    <2>4. times = {mem[s].ts : s \in SS} \ {0} /\ times \subseteq Nat
      <3>1. times = {mem[s].ts : s \in SS} \ {0}
        BY DEF Stats!ReadUptoTimes, SS
      <3>2. \A s \in SS : mem[s].ts \in Nat
        BY <2>3 DEF Stats!Stat
      <3> QED
        BY <3>1, <3>2
    <2>5. /\ times # {} => u_job.inputs
          /\ \A s \in SS : mem[s].ts # 0 => mem[s].ts \in times
      BY <2>3, <2>4
    <2>6. ASSUME times # {} PROVE date \in times /\ \A s \in SS : mem[s].ts # 0 => date <= mem[s].ts
      <3>1. date = Stats!Min(times)
        BY DEF Stats!ReadFrom
      <3>2. Stats!Min(times) \in times /\ \A y \in times : Stats!Min(times) <= y
        BY <2>4, <2>6, StatsMin
      <3> QED
        BY <2>5, <3>1, <3>2
    <2> HIDE DEF times, date
    <2>7. ASSUME NEW s \in SS, NEW why \in SUBSET {"dates", "gap", "midnight"}
          PROVE  /\ Stats!Marked(mem[s], why) \in Stats!Stat /\ Stats!Marked(mem[s], why).odd = mem[s].odd \cup why
                 /\ Stats!Marked(mem[s], why).ts = mem[s].ts /\ Stats!Marked(mem[s], why).ahead = 0
                 /\ Stats!Marked(mem[s], why).from = mem[s].from /\ Stats!Marked(mem[s], why).count = mem[s].count
      BY <2>3 DEF Stats!Marked, Stats!Stat
    <2>8. PICK why : /\ why \in SUBSET {"dates", "gap", "midnight"} /\ ends \subseteq why
                     /\ u_job'.at = "decay" /\ times # {} => ("gap" \notin why => date >= u_job.begin)
                     /\ u_job'.mem = [s \in SS |-> Stats!Marked(mem[s], why)]
      <3>1. Stats!Explicit(mem) = [s \in SS |-> Stats!Marked(mem[s], ends)]
        BY DEF Stats!Explicit, SS
      <3>2. ends \in SUBSET {"dates", "gap", "midnight"} /\ skips \in SUBSET {"dates", "gap", "midnight"}
        OBVIOUS
      <3>3. CASE times = {} \/ (times # {} /\ u_job'.at = "read")
        <4>1. u_job'.mem = [s \in SS |-> Stats!Marked(mem[s], ends)]
          BY <1>1, <2>2, <3>1, <3>3 DEF JobType
        <4> QED
          BY <3>2, <3>3, <4>1
      <3>4. CASE times # {} /\ u_job'.at # "read"
        <4>1. u_job'.mem = [s \in SS |-> Stats!Marked(Stats!Explicit(mem)[s], skips)]
          BY <1>1, <2>2, <3>4 DEF JobType
        <4>2. ASSUME NEW s \in SS
              PROVE  Stats!Marked(Stats!Explicit(mem)[s], skips) = Stats!Marked(mem[s], ends \cup skips)
          <5>1. Stats!Explicit(mem)[s] = Stats!Marked(mem[s], ends)
            BY <3>1
          <5> QED
            BY ZenonT(60), <2>3, <3>2, <5>1 DEF Stats!Marked, Stats!Stat
        <4>3. u_job'.mem = [s \in SS |-> Stats!Marked(mem[s], ends \cup skips)]
          BY <4>1, <4>2
        <4>4. date \in Nat /\ u_job.begin \in Nat
          BY <1>1, <2>4, <2>6, <3>4 DEF JobType
        <4>5. "gap" \notin ends \cup skips => date >= u_job.begin
          BY <4>4
        <4> QED
          BY <3>2, <4>3, <4>5
      <3> QED
        BY <3>3, <3>4
    <2>9. /\ u_job' \in JobType /\ u_job'.at \in {"decay", "read"} /\ u_job'.end = u_job.end
          /\ u_job'.begin = IF times # {} /\ u_job'.at = "decay" THEN Stats!Max({u_job.begin, date}) ELSE u_job.begin
          /\ u_job'.at = "read" => times # {} /\ date > u_job.end
      <3>1. [s \in SS |-> Stats!Marked(mem[s], why)] \in [SS -> Stats!Stat]
        BY <2>7, <2>8
      <3>2. times # {} => Stats!Max({u_job.begin, date}) \in Nat
        BY <1>1, <2>4, <2>6, StatsMax DEF JobType
      <3>3. CASE times = {} /\ u_job' = [u_job EXCEPT !.at = "decay", !.mem = Stats!Explicit(mem)]
        BY <1>1, <2>8, <3>1, <3>3 DEF JobType, Stats!Places
      <3>4. CASE times # {} /\ date > u_job.end /\ u_job' = [u_job EXCEPT !.at = "read", !.mem = Stats!Explicit(mem)]
        BY <1>1, <2>8, <3>1, <3>4 DEF JobType, Stats!Places
      <3>5. CASE times # {} /\ u_job' = [u_job EXCEPT !.at = "decay", !.begin = Stats!Max({u_job.begin, date}),
                  !.mem = [s \in SS |-> Stats!Marked(Stats!Explicit(mem)[s], skips)]]
        BY <1>1, <2>8, <3>1, <3>2, <3>5 DEF JobType, Stats!Places
      <3> QED
        BY <2>2, <3>3, <3>4, <3>5
    <2>10. u_job'.begin >= 1
      <3>1. u_job.begin \in Nat
        BY <1>1 DEF JobType
      <3>2. times # {} => date \in Nat
        BY <2>4, <2>6
      <3>3. times # {} => Stats!Max({u_job.begin, date}) = IF u_job.begin >= date THEN u_job.begin ELSE date
        BY <3>1, <3>2, StatsMax
      <3> QED
        BY <1>2, <2>9, <3>1, <3>2, <3>3
    <2>11. Stats!TypeOK'
      BY <1>1, <2>9 DEF Stats!TypeOK, JobType, SS
    <2>12. Stats!FileInv'
      BY <1>1 DEF Stats!FileInv, Stats!Readable, Stats!Kept, Stats!Once, Stats!Whole
    <2>13. ASSUME NEW s \in SS, u_job'.at = "decay" PROVE Stats!Loaded(u_job.mem[s])'
      <3> DEFINE st == Stats!Marked(mem[s], why)
                 old == mem[s]
      <3>1. /\ st.odd = old.odd \cup why /\ st.ts = old.ts /\ st.ahead = 0 /\ st.from = old.from /\ st.from >= 1
            /\ st.count = old.count /\ old.ts \in Nat /\ u_job'.mem[s] = st
        BY ZenonT(60), <2>3, <2>7, <2>8 DEF Stats!Stat
      <3>2. old.ts <= u_today
        BY <1>1, <2>3 DEF Stats!Kept
      <3>3. "dates" \notin st.odd => ~u_job.given
        BY <2>8, <3>1
      <3>4. CASE u_job.inputs
        <4>1. Stats!Kept(old) /\ (old.ts # 0 => times # {})
          BY <2>3, <2>5, <3>4
        <4>2. "dates" \notin st.odd => old.ts <= u_job.end /\ u_job.end <= u_today /\ Stats!Once(old, old.ts)
          BY <1>2, <2>3, <3>1, <3>3, <3>4, <4>1 DEF Stats!Kept
        <4>3. st.odd = {} => u_job'.begin <= old.ts /\ old.ts # 0 /\ Stats!Whole(old, old.ts)
          <5> SUFFICES ASSUME st.odd = {} PROVE u_job'.begin <= old.ts /\ old.ts # 0 /\ Stats!Whole(old, old.ts)
            OBVIOUS
          <5>1. old.odd = {} /\ "gap" \notin why /\ old.ts # 0 /\ times # {}
            <6>1. old.odd = {} /\ "gap" \notin why
              BY <3>1
            <6>2. old.ts >= 1
              BY <4>1, <6>1 DEF Stats!Kept
            <6> QED
              BY <3>1, <4>1, <6>1, <6>2
          <5>2. date >= u_job.begin /\ date <= old.ts /\ date \in Nat /\ u_job.begin \in Nat
            BY <1>1, <2>4, <2>6, <2>8, <2>13, <4>1, <5>1 DEF JobType
          <5>3. u_job'.begin = date
            BY <2>9, <2>13, <4>1, <5>2, StatsMax
          <5> QED
            BY <4>1, <5>1, <5>2, <5>3 DEF Stats!Kept
        <4> HIDE DEF st, old
        <4> QED
          BY <1>1, <2>9, <3>1, <3>2, <4>2, <4>3 DEF Stats!Loaded, Stats!Once, Stats!Whole
      <3>5. CASE ~u_job.inputs
        <4>1. times = {} /\ old.ts = 0 /\ old.from = u_job.begin /\ \A d \in Stats!Days : old.count[d] = 0
          BY <2>3, <2>5, <3>5
        <4>2. u_job'.begin = u_job.begin
          BY <2>9, <4>1
        <4>3. "dates" \notin st.odd => 0 <= u_job.end /\ u_job.end <= u_today
          BY <1>1, <1>2, <3>3 DEF JobType
        <4> HIDE DEF st, old
        <4> QED
          BY <1>1, <2>9, <3>1, <3>2, <4>1, <4>2, <4>3 DEF Stats!Loaded, Stats!Once
      <3> QED
        BY <3>4, <3>5
    <2>14. ASSUME NEW s \in SS, u_job'.at = "read" PROVE Stats!Decayed(u_job.mem[s])'
      <3> DEFINE st == Stats!Marked(mem[s], why)
      <3>1. times # {} /\ date > u_job.end /\ u_job.inputs
        BY <2>5, <2>9, <2>14
      <3>2. u_job.given
        <4>1. PICK r \in SS : date = mem[r].ts
          BY <2>4, <2>6, <3>1
        <4>2. mem[r].ts \in Nat /\ u_job.end \in Nat
          BY <1>1, <2>3 DEF JobType, Stats!Stat
        <4>3. ~u_job.given => mem[r].ts <= u_job.end
          BY <2>3, <3>1
        <4> QED
          BY <3>1, <4>1, <4>2, <4>3
      <3>3. "dates" \in st.odd
        BY <2>7, <2>8, <3>2
      <3>4. /\ st.ts <= u_today /\ st.ahead = 0 /\ st.ts \in Nat /\ st.from >= 1 /\ u_job'.mem[s] = st
        BY <2>3, <2>7, <2>8, <3>1 DEF Stats!Kept, Stats!Stat
      <3> HIDE DEF st
      <3> QED
        BY <1>1, <3>3, <3>4 DEF Stats!Decayed
    <2>15. Stats!JobInv'
      BY <2>9, <2>10, <2>13, <2>14 DEF Stats!JobInv, SS
    <2> QED
      BY <2>11, <2>12, <2>15
  <1> QED
    BY <1>3, <1>4

(* Every step of the job and of the clock keeps the invariant.             *)
LEMMA StatsStep ==
  ASSUME Stats!Inv, Stats!Next \/ UNCHANGED StatsVars
  PROVE  Stats!Inv'
  <1>1. CASE \E given \in Ends, begin \in 1 .. u_today, inputs, gap \in BOOLEAN :
               Stats!ParseFlags(given, begin, inputs, gap)
    BY <1>1, ParseStep
  <1>2. CASE Stats!Crash
    <2>1. u_job' = Stats!Idle /\ UNCHANGED <<u_today, u_file>> /\ u_troubles < MaxTroubles /\ u_troubles' = u_troubles + 1
      BY <1>2 DEF Stats!Crash, Stats!Exit, Stats!Trouble
    <2>2. u_troubles' \in 0 .. MaxTroubles
      BY <2>1, StatsAssumption DEF Stats!Inv, Stats!TypeOK, Stats!StatsUpdaterAssumption
    <2> QED
      BY <2>1, <2>2, IdleStep
  <1>3. CASE UNCHANGED StatsVars
    BY <1>3 DEF StatsVars, Stats!Inv, Stats!TypeOK, Stats!FileInv, Stats!JobInv, Stats!Readable,
                Stats!Kept, Stats!Loaded, Stats!Decayed, Stats!Once, Stats!Whole
  <1> QED
    BY <1>1, <1>2, <1>3, LoadStep, DecayStep, ReadLogsStep, WriteStep, MidnightStep DEF Stats!Next

(* The first run finds no files.                                           *)
LEMMA StatsInit ==
  ASSUME Stats!Init
  PROVE  Stats!Inv
  <1>1. MaxDay \in Nat \ {0, 1} /\ MaxTroubles \in Nat
    BY StatsAssumption DEF Stats!StatsUpdaterAssumption
  <1>2. u_today = 2 /\ u_job = Stats!Idle /\ u_troubles = 0
        /\ u_file = [s \in SS |-> [state |-> "missing", stat |-> Stats!Fresh]]
    BY DEF Stats!Init, SS
  <1>3. u_file \in [SS -> [state : {"missing", "torn", "ok"}, stat : Stats!Stat]]
    BY <1>2, FreshFacts
  <1>4. Stats!TypeOK
    BY <1>1, <1>2, <1>3, FreshFacts DEF Stats!TypeOK, SS
  <1>5. Stats!Readable = {}
    BY <1>2 DEF Stats!Readable, SS
  <1> QED
    BY <1>2, <1>4, <1>5, FreshFacts DEF Stats!Inv, Stats!FileInv, Stats!JobInv

(* For every number of statistics, days and crashes and whatever end dates *)
(* are given: no day is counted twice and none is missing from a file that *)
(* can be read, except for the reasons its history names.                  *)
THEOREM StatsCounted == AllSpec => []StatsExact
  <1> DEFINE I == which = "stats" => Stats!Inv
  <1>1. AllInit => I
    BY StatsInit DEF AllInit
  <1>2. I /\ [AllNext]_allVars => I'
    <2> SUFFICES ASSUME I, [AllNext]_allVars, which' = "stats" PROVE Stats!Inv'
      OBVIOUS
    <2>1. which = "stats" /\ (Stats!Next \/ UNCHANGED StatsVars)
      BY DEF AllNext, allVars
    <2> QED
      BY <2>1, StatsStep
  <1>3. I => StatsExact
    <2> SUFFICES ASSUME Stats!Inv PROVE Stats!TypeOK /\ Stats!CountedOnce /\ Stats!Complete
      BY DEF StatsExact
    <2>1. \A s \in Stats!Readable : Stats!Kept(u_file[s].stat) /\ u_file[s].stat \in Stats!Stat
      BY DEF Stats!Inv, Stats!FileInv, Stats!TypeOK, Stats!Readable
    <2>2. Stats!CountedOnce
      BY <2>1 DEF Stats!CountedOnce, Stats!Kept, Stats!Once, Stats!Stat
    <2>3. Stats!Complete
      BY <2>1 DEF Stats!Complete, Stats!Kept, Stats!Whole
    <2> QED
      BY <2>2, <2>3 DEF Stats!Inv
  <1> QED
    BY <1>1, <1>2, <1>3, PTL DEF AllSpec
=============================================================================
