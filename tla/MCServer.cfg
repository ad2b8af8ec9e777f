SPECIFICATION AllSpec
CONSTANTS
  Clients = {c1, c2}
  MaxConnections = 2
  MaxPieces = 3
  Pieces = 2
  MaxSize = 3
  Looks = 1
  OtherThreads = 1
  PoolSize = 1
INVARIANTS
  ServerCounts
  ExchangeExact
PROPERTIES
  GracefulShutdown
  ShutdownEnds
  HttpRepliesShared
  MethodsServed
