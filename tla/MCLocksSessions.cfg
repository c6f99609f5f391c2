CONSTANTS
  Parts = {"mutexes", "sessions"}
  Threads = {t1, t2}
  Keys = {old, new}
  Known = {old}
  Mutexes = {m1, m2, m3}
  None = None
  Users = {u1, u2}
  SessionIds = {i1, i2}
  SessionRequests = {r1, r2}
  Lifetime = 2
  NoSession = NoSession
SPECIFICATION PartSpec
INVARIANTS
  ExclusiveUnlessOverwritten
  SequentialUserHasOneSession
PROPERTIES
  RefinesRWLock
  KnownKeyGranted
  ExpiredLeave
\* The server ends at the fatal error of a mutex and when a ticker is given an interval of
\* zero, and an orphaned mutex is never released.
CHECK_DEADLOCK FALSE
