SPECIFICATION Spec
CONSTANTS
  Keys = {k1, k2, k3}
  Values = {v}
  Threads = {t1, t2}
  Default = default
  MaxSize = 2
  Lifetime = 1
  Expire = TRUE
  MaxObjects = 4
  MaxTime = 2
SYMMETRY Symmetry
INVARIANTS
  SharedCoherent
