SPECIFICATION AllSpec
CONSTANTS
  Consumers = {c1, c2, c3}
  BatchSize = 2
  Capacity = 2
  NotifyTimeout = TRUE
  MaxElements = 3
  Calls = {}
  Spurious = FALSE
INVARIANTS
  TypeOK
  QueueIsSuffix
  DrainedAtExit
  CallsOnceInOrder
PROPERTIES
  QueueEnds
  NetCallsAnswered
  WriterEntriesReachFile
  LogsFiltered
