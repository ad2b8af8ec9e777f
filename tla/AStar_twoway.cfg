SPECIFICATION SearchSpec
CONSTANTS
  Ids = {a, b, c}
  none = none
  HeapKeys = {k1, k2, k3, k4}
  HeapValues = {1, 2, 3}
  Estimates = {0}
  Modes = {"twoway"}
  sf1 = sf1
  sf2 = sf2
  pa1 = pa1
  pa2 = pa2
  inn = inn
  wifi = wifi
  spa = spa
  gone = gone
INVARIANTS TwoWayBest
CHECK_DEADLOCK FALSE
