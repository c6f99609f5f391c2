CONSTANTS
  Sessions = {s1}
  Notified = {s1}
  Conns = {}
  Notices = {m1, m2}
  Polls = {p1, p2}
  Capacity = 100
  None = None
SPECIFICATION LogoutSpec
INVARIANT NoticesInDifferentResponses
CHECK_DEADLOCK FALSE
