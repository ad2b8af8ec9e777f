SPECIFICATION AllSpec
CONSTANTS
  t1 = t1
  t2 = t2
  t3 = t3
  outside = outside
  none = none
  Consumers = {w1, w2}
  BatchSize = 1
  Capacity = 1
  NotifyTimeout = FALSE
  Tasks = {t1, t2, t3}
  Outside = outside
  Parent <- NestedParent
  TryTasks = {t2, t3}
  Waiters = {x1}
  TimedWaiters = {x1}
  MaxWaits = 1
  Spurious = {x1}
  RateTryTasks = {t3}
  RateStepsBack = 1
INVARIANTS
  PoolCounts
PROPERTIES
  ImplementsTaskPool
  PoolEnds
  RateKept
