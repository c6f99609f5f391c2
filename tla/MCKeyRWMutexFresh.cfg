CONSTANTS
  Threads = {t1, t2}
  Keys = {new}
  Known = {}
  Mutexes = {m1, m2}
  None = None
SPECIFICATION Spec
INVARIANT MutualExclusion
CHECK_DEADLOCK FALSE
