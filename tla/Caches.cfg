SPECIFICATION AllSpec
CONSTANTS
  Keys = {k1, k2}
  Threads = {c1, c2, w1}
  Workers = {w1}
  SmallThreads = {c1, w1}
  MaxTasks = 1
  Sizes = {1, 2}
  Ttl = 1
  RefreshThreshold = 2
  None = none
  MaxTime = 2
  Requests = {r1}
  PoolSizes = {1, 2}
  Words = {b1}
  GroupKeys = {"k1", "k2", "k3"}
  Groups = {"g1", "g2"}
  Grouper <- SmallGrouper
  MaxGroups = 1
  MaxLife = 1
  Second = 1
  IntSize = 16
  MaxNow = 3
  MaxEvictors = 2
INVARIANTS
  OneQueryPerKey
  GroupKeepsWrites
  CountersExact
PROPERTIES
  ValuesFresh
  BackgroundServes
  MergedWhole
  RequestsAnswered
