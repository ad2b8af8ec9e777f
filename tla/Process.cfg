SPECIFICATION AllSpec
CONSTANTS
  Calls = {k1, k2, k3}
  None = none
  MaxHistory = 2
  CacheKeys = {k1, k2, k3}
  CacheThreads = {t1, t2}
  StoredKeys = {present}
  none = none
  CacheSize = 2
  MaxMisses = 6
  InitHooks = {"i1", "i2", "i3", "ireg"}
  ExitHooks = {"e1", "e2", "ereq"}
  Level <- HookLevel
  Group <- HookGroup
  Groups = {"g", "req"}
  Required = {"req"}
  RegisterExit = "ireg"
  Main = "main"
  Quitters = {"q1"}
  Statistics = {1, 2}
  MaxDay = 3
  MaxTroubles = 2
  Ends = {0, 2}
SYMMETRY Symmetry
INVARIANTS
  OneRunAtATime
  StatusSeesRun
  TaskHistory
  HooksOrdered
  CacherNoDangling
  StatsExact
