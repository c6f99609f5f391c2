CONSTANTS
  Threads = {t1, t2}
  Keys = {k1, k2, k3, k4}
  Values = {v1, v2}
  NoThread = NoThread
SYMMETRY Symmetry
SPECIFICATION Spec
INVARIANTS
  KeyMapIsInverse
  ReadersSeeWholeMap
PROPERTY
  RefinesOrderedMap
CHECK_DEADLOCK TRUE
