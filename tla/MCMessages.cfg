CONSTANTS
  Sessions = {s1, s2}
  Notified = {s1}
  Conns = {c1, c2}
  Notices = {m1, m2}
  Polls = {p1}
  Capacity = 1
  None = None
SPECIFICATION FairSpec
INVARIANTS
  ListedAreOpen
  DeliveredOnce
PROPERTY
  SendReturns
\* Goroutines that lock themselves never go on, and the server may stop.
CHECK_DEADLOCK FALSE
