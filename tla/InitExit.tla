------------------------------- MODULE InitExit -------------------------------
(***************************************************************************)
(* The life of a process under util/init: main() calls R77Init(), which    *)
(* runs the init hooks, then init_main(), then R77Shutdown(), which runs   *)
(* the exit hooks; another thread may call ShutdownSystem() of             *)
(* base/system.cc, that is quick_exit(), meanwhile.                        *)
(*                                                                         *)
(* TaskRunner<> keeps one TaskList (util/thread/task_list.h) per priority  *)
(* and group.  Run() goes through the priorities in increasing order; at   *)
(* each it starts all its lists and then waits for all of them.            *)
(***************************************************************************)
EXTENDS Integers, FiniteSets, FiniteSetsExt

CONSTANTS
  InitHooks, ExitHooks,  \* the registered functions
  Level,                 \* the priority a hook was registered with
  Group,                 \* the group of a hook
  Groups,                \* all groups
  Required,              \* the groups registered with a "!" in front
  RegisterExit,          \* the init hook that calls atexit() and at_quick_exit()
  Main,                  \* the main thread
  Quitters               \* threads that call ShutdownSystem()

Hooks == InitHooks \cup ExitHooks
Threads == {Main} \cup Quitters

InitExitAssumption ==
  /\ InitHooks \cap ExitHooks = {}
  /\ Level \in [Hooks -> Int]
  /\ Group \in [Hooks -> Groups]
  /\ Required \subseteq Groups
  /\ RegisterExit \in InitHooks /\ Group[RegisterExit] \in Required
  /\ Main \notin Quitters
  /\ IsFiniteSet(Hooks) /\ IsFiniteSet(Quitters)

VARIABLES
  include, exclude,  \* the groups that the flags init_include, exit_include ... name
  async,             \* init_async and exit_async
  hook,              \* "idle", "started", "running", "done"
  starts,            \* history: how often a hook was started
  future,            \* the future_ of the hook's Task is valid
  lists,             \* the TaskLists whose locked_ is set
  pc,                \* where a thread is
  kind,              \* the hooks a thread runs in Run(): "init" or "exit"
  level,             \* the priority it has reached
  todo,              \* the lists of that priority still to start, or to wait for
  ran_before,        \* the static flag of R77Shutdown()
  process            \* "alive", "ended", "aborted"

flags == <<include, exclude, async>>
hookVars == <<hook, starts, future, lists>>
threadVars == <<pc, kind, level, todo>>
vars == <<include, exclude, async, hook, starts, future, lists,
          pc, kind, level, todo, ran_before, process>>

Kinds == {"init", "exit"}
Kind(h) == IF h \in InitHooks THEN "init" ELSE "exit"
Key(h) == <<Kind(h), Level[h], Group[h]>>
HooksOf(k) == {h \in Hooks : Key(h) = k}

(* The filter of Run(): a "!" group always, others by the flags.           *)
Selected(h) ==
  LET kd == Kind(h)
  IN  \/ Group[h] \in Required
      \/ (include[kd] = {} \/ Group[h] \in include[kd]) /\ Group[h] \notin exclude[kd]

LevelsOf(kd) == {Level[h] : h \in {g \in Hooks : Kind(g) = kd /\ Selected(g)}}
FirstLevel(kd) == IF LevelsOf(kd) = {} THEN 0 ELSE Min(LevelsOf(kd))
KeysOf(kd, n) == {Key(h) : h \in {g \in Hooks : Kind(g) = kd /\ Selected(g) /\ Level[g] = n}}

(* What every variable may hold.                                           *)
TypeOK ==
  /\ include \in [Kinds -> SUBSET Groups] /\ exclude \in [Kinds -> SUBSET Groups]
  /\ async \in [Kinds -> BOOLEAN]
  /\ hook \in [Hooks -> {"idle", "started", "running", "done"}]
  /\ starts \in [Hooks -> 0 .. Cardinality(Threads)]
  /\ future \in [Hooks -> BOOLEAN]
  /\ lists \subseteq {Key(h) : h \in Hooks}
  /\ pc \in [Threads -> {"run", "wait", "main", "test", "set", "over", "gone"}]
  /\ kind \in [Threads -> Kinds]
  /\ level \in [Threads -> Int]
  /\ todo \in [Threads -> SUBSET {Key(h) : h \in Hooks}]
  /\ ran_before \in BOOLEAN
  /\ process \in {"alive", "ended", "aborted"}

Init ==
  /\ include \in [Kinds -> SUBSET Groups] /\ exclude \in [Kinds -> SUBSET (Groups \ Required)]
  /\ async \in [Kinds -> BOOLEAN]
  /\ hook = [h \in Hooks |-> "idle"]
  /\ starts = [h \in Hooks |-> 0]
  /\ future = [h \in Hooks |-> FALSE]
  /\ lists = {}
  /\ pc = [x \in Threads |-> IF x = Main THEN "run" ELSE "main"]
  /\ kind = [x \in Threads |-> "init"]
  /\ level = [x \in Threads |-> FirstLevel("init")]
  /\ todo = [x \in Threads |-> KeysOf("init", FirstLevel("init"))]
  /\ ran_before = FALSE
  /\ process = "alive"

-----------------------------------------------------------------------------
(* Run().                                                                  *)

(* Thread x begins priority n of the hooks kd.                             *)
BeginLevel(x, kd, n) ==
  /\ pc' = [pc EXCEPT ![x] = "run"]
  /\ kind' = [kind EXCEPT ![x] = kd]
  /\ level' = [level EXCEPT ![x] = n]
  /\ todo' = [todo EXCEPT ![x] = KeysOf(kd, n)]

(* TaskList::run(): a list that is locked is skipped, and the result is    *)
(* still true.                                                             *)
StartList(x, k) ==
  /\ process = "alive"
  /\ pc[x] = "run" /\ k \in todo[x]
  /\ todo' = [todo EXCEPT ![x] = @ \ {k}]
  /\ IF k \in lists
       THEN UNCHANGED hookVars
       ELSE /\ lists' = lists \cup {k}
            /\ hook' = [h \in Hooks |-> IF h \in HooksOf(k) THEN "started" ELSE hook[h]]
            /\ starts' = [h \in Hooks |-> IF h \in HooksOf(k) THEN starts[h] + 1 ELSE starts[h]]
            /\ future' = [h \in Hooks |-> h \in HooksOf(k) \/ future[h]]
  /\ UNCHANGED <<flags, pc, kind, level, ran_before, process>>

AllStarted(x) ==
  /\ process = "alive"
  /\ pc[x] = "run" /\ todo[x] = {}
  /\ pc' = [pc EXCEPT ![x] = "wait"]
  /\ todo' = [todo EXCEPT ![x] = KeysOf(kind[x], level[x])]
  /\ UNCHANGED <<flags, hookVars, kind, level, ran_before, process>>

(* A hook launched with launch::async runs when it likes, a deferred one   *)
(* when somebody waits for it, one after the other.                        *)
HookRuns(h) ==
  /\ process = "alive"
  /\ hook[h] = "started"
  /\ \/ async[Kind(h)]
     \/ \E x \in Threads : /\ pc[x] = "wait" /\ Key(h) \in todo[x]
                          /\ \A g \in Hooks : Key(g) \in todo[x] => hook[g] # "running"
  /\ hook' = [hook EXCEPT ![h] = "running"]
  /\ UNCHANGED <<flags, starts, future, lists, threadVars, ran_before, process>>

HookReturns(h) ==
  /\ process = "alive"
  /\ hook[h] = "running"
  /\ hook' = [hook EXCEPT ![h] = "done"]
  /\ UNCHANGED <<flags, starts, future, lists, threadVars, ran_before, process>>

(* The hooks of the list are not waited for.                               *)
WaitList_NoWait(x, k) ==
  /\ process = "alive"
  /\ pc[x] = "wait" /\ k \in todo[x]
  /\ future' = [h \in Hooks |-> h \notin HooksOf(k) /\ future[h]]
  /\ lists' = lists \ {k}
  /\ todo' = [todo EXCEPT ![x] = @ \ {k}]
  /\ UNCHANGED <<flags, hook, starts, pc, kind, level, ran_before, process>>

(* TaskList::wait(): get() of every future, which invalidates it, then     *)
(* the list is unlocked.                                                   *)
WaitList(x, k) ==
  /\ process = "alive"
  /\ pc[x] = "wait" /\ k \in todo[x]
  /\ \A h \in HooksOf(k) : future[h] /\ hook[h] = "done"
  /\ future' = [h \in Hooks |-> h \notin HooksOf(k) /\ future[h]]
  /\ lists' = lists \ {k}
  /\ todo' = [todo EXCEPT ![x] = @ \ {k}]
  /\ UNCHANGED <<flags, hook, starts, pc, kind, level, ran_before, process>>

(* Somebody else has already called get(): the wait throws.                *)
WaitAborts(x, k) ==
  /\ process = "alive"
  /\ pc[x] = "wait" /\ k \in todo[x]
  /\ \E h \in HooksOf(k) : ~future[h]
  /\ process' = "aborted"
  /\ UNCHANGED <<flags, hookVars, threadVars, ran_before>>

(* The next priority, or the end of Run().                                 *)
NextLevel(x) ==
  LET higher == {n \in LevelsOf(kind[x]) : n > level[x]}
  IN  /\ process = "alive"
      /\ pc[x] = "wait" /\ todo[x] = {}
      /\ IF higher # {}
           THEN BeginLevel(x, kind[x], Min(higher))
           ELSE /\ pc' = [pc EXCEPT ![x] = IF kind[x] = "init" THEN "main" ELSE "over"]
                /\ UNCHANGED <<kind, level, todo>>
      /\ UNCHANGED <<flags, hookVars, ran_before, process>>

-----------------------------------------------------------------------------
(* main() and quick_exit().                                                *)

(* R77Shutdown() is called.                                                *)
CallShutdown(x) ==
  /\ process = "alive"
  /\ pc[x] = "main"
  /\ pc' = [pc EXCEPT ![x] = "test"]
  /\ UNCHANGED <<flags, hookVars, kind, level, todo, ran_before, process>>

(* init_main() returns to main().                                          *)
MainReturns == CallShutdown(Main)

(* Another thread calls quick_exit(), which calls the handler that the     *)
(* hook register_exit has registered.                                      *)
ShutdownSystem(x) ==
  x # Main /\ hook[RegisterExit] \in {"running", "done"} /\ CallShutdown(x)

(* quick_exit() before that: there is no handler, and the process ends.    *)
QuitUnregistered(x) ==
  /\ process = "alive"
  /\ x # Main /\ pc[x] = "main" /\ hook[RegisterExit] # "done"
  /\ pc' = [pc EXCEPT ![x] = "gone"]
  /\ process' = "ended"
  /\ UNCHANGED <<flags, hookVars, kind, level, todo, ran_before>>

TestRanBefore(x) ==
  /\ process = "alive"
  /\ pc[x] = "test"
  /\ pc' = [pc EXCEPT ![x] = IF ran_before THEN "over" ELSE "set"]
  /\ UNCHANGED <<flags, hookVars, kind, level, todo, ran_before, process>>

SetRanBefore(x) ==
  /\ process = "alive"
  /\ pc[x] = "set"
  /\ ran_before' = TRUE
  /\ BeginLevel(x, "exit", FirstLevel("exit"))
  /\ UNCHANGED <<flags, hookVars, process>>

(* main() returns: atexit() calls R77Shutdown() once more, which does      *)
(* nothing now; or quick_exit() calls _Exit().                             *)
ProcessEnds(x) ==
  /\ process = "alive"
  /\ pc[x] = "over"
  /\ process' = "ended"
  /\ UNCHANGED <<flags, hookVars, threadVars, ran_before>>

Terminated == process # "alive" /\ UNCHANGED vars

ThreadStep(x) ==
  \/ \E k \in todo[x] : StartList(x, k) \/ WaitList(x, k) \/ WaitAborts(x, k)
  \/ AllStarted(x) \/ NextLevel(x)
  \/ ShutdownSystem(x) \/ QuitUnregistered(x)
  \/ TestRanBefore(x) \/ SetRanBefore(x) \/ ProcessEnds(x)

HookStep(h) == HookRuns(h) \/ HookReturns(h)

Next ==
  \/ \E x \in Threads : ThreadStep(x)
  \/ MainReturns
  \/ \E h \in Hooks : HookStep(h)
  \/ Terminated

Spec == Init /\ [][Next]_vars

-----------------------------------------------------------------------------
(* Thread x is ending the process; no other thread is.                     *)
Leaving(x) == pc[x] \in {"test", "set", "over", "gone"} \/ kind[x] = "exit"
Sole(x) == \A y \in Threads : y # x => ~Leaving(y)

(* At most one thread ends the process: main() that returns, or a thread   *)
(* in ShutdownSystem() before it does.                                     *)
OneWayOut == \E x \in Threads : Sole(x)

(* Each priority level is run from lower to higher: a hook does not start  *)
(* before every selected hook of a lower priority has returned.            *)
LevelOrder ==
  \A h, g \in Hooks :
    /\ Kind(h) = "init" \/ OneWayOut
    /\ Kind(h) = Kind(g) /\ Level[g] < Level[h]
    /\ hook[h] # "idle" /\ Selected(g)
    => hook[g] = "done"

(* init_main() runs after exactly the selected init hooks have returned,   *)
(* also when another thread shuts the process down meanwhile.              *)
MainAfterInit ==
  pc[Main] \in {"main", "test", "set"} =>
    \A h \in InitHooks : hook[h] = IF Selected(h) THEN "done" ELSE "idle"

(* The required hooks run whatever the flags say: no process that main()   *)
(* alone ends does so before they have.                                    *)
RequiredRun ==
  process = "ended" /\ Sole(Main) =>
    \A h \in Hooks : Group[h] \in Required => hook[h] = "done"

(* The callbacks registered for the end of the process are executed before *)
(* it ends, each of them once, whichever thread ends it.                   *)
ExitHooksRun ==
  process = "ended" /\ OneWayOut /\ (\A x \in Threads : pc[x] # "gone") =>
    \A h \in ExitHooks : Selected(h) => hook[h] = "done" /\ starts[h] = 1

(* What the proofs of these need.  Begun: thread x has started h if it is  *)
(* to; Returned: it has waited for it.                                     *)
Running(x) == pc[x] \in {"run", "wait"}

Begun(x, h) ==
  \/ Kind(h) = "init" /\ kind[x] = "exit"
  \/ /\ kind[x] = Kind(h)
     /\ \/ ~Running(x)
        \/ Level[h] < level[x]
        \/ Level[h] = level[x] /\ (pc[x] = "wait" \/ Key(h) \notin todo[x])

Returned(x, h) ==
  \/ Kind(h) = "init" /\ kind[x] = "exit"
  \/ /\ kind[x] = Kind(h)
     /\ \/ ~Running(x)
        \/ Level[h] < level[x]
        \/ Level[h] = level[x] /\ pc[x] = "wait" /\ Key(h) \notin todo[x]

(* Run() is for init hooks in the main thread alone, and then for the exit *)
(* hooks; it has in hand only lists of the priority it has reached.        *)
ThreadInv ==
  \A x \in Threads :
    /\ pc[x] \in {"main", "test", "set"} => kind[x] = "init"
    /\ x # Main /\ kind[x] = "init" => ~Running(x)
    /\ Running(x) => todo[x] \subseteq KeysOf(kind[x], level[x])

(* A list that is locked has been started.                                 *)
IdleInv == \A h \in Hooks : hook[h] = "idle" => Key(h) \notin lists

(* A hook has been started at most by the threads that have come past it.  *)
StartsInv == \A h \in Hooks : starts[h] <= Cardinality({x \in Threads : Begun(x, h)})

(* Thread x alone starts h: main() the init hooks, and whoever ends the    *)
(* process alone the exit hooks.                                           *)
Mine(x, h) == IF Kind(h) = "init" THEN x = Main ELSE Sole(x)

(* Then h is where x has come to.                                          *)
InStep(x, h) ==
  /\ ~Selected(h) \/ ~Begun(x, h) => hook[h] = "idle" /\ starts[h] = 0
  /\ Selected(h) /\ Begun(x, h) => hook[h] # "idle" /\ starts[h] = 1
  /\ Selected(h) /\ Returned(x, h) => hook[h] = "done"

StateInv == \A x \in Threads, h \in Hooks : Mine(x, h) => InStep(x, h)

(* Who ends the process has run the exit hooks, unless somebody else was   *)
(* already running them or no handler was registered.                      *)
EndInv ==
  /\ ran_before => \E y \in Threads : kind[y] = "exit"
  /\ process = "ended" => \E y \in Threads : pc[y] \in {"over", "gone"}
  /\ pc[Main] # "gone"
  /\ \A x \in Threads : pc[x] = "over" /\ kind[x] = "init" =>
       \E y \in Threads : y # x /\ kind[y] = "exit"

Inv == TypeOK /\ ThreadInv /\ IdleInv /\ StartsInv /\ StateInv /\ EndInv

(* What the comment of ExitRun() says without the restriction, and what    *)
(* does not hold: a second thread in ShutdownSystem() finds ran_before set *)
(* and ends the process under the hooks.                                   *)
ExitHooksAlwaysRun ==
  process = "ended" => \A h \in ExitHooks : Selected(h) => hook[h] = "done" /\ starts[h] = 1
=============================================================================
