SPECIFICATION RateSpec
CONSTANTS
  t1 = t1
  t2 = t2
  t3 = t3
  outside = outside
  none = none
  RateTryTasks = {}
  RateStepsBack = 0
  Consumers = {w1, w2}
  BatchSize = 1
  Capacity = 1
  NotifyTimeout = FALSE
  Tasks = {t1, t2, t3}
  Outside = outside
  Parent <- NestedParent
  TryTasks = {t2}
  Waiters = {x1}
  TimedWaiters = {}
  MaxWaits = 1
  Spurious = {}
PROPERTIES EveryTaskDelivered
