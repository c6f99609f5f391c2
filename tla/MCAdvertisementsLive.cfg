CONSTANTS
  Users = {u1, u2}
  AdvIds = {a1}
  Requests = {r1, r2}
  Titles = {"AoE2", "AoE4"}
  MultiMatch = "AoE4"
  None = None
SPECIFICATION FairSpec
PROPERTY
  RequestsAnswered
\* A Host waits for an unused id when the bound on AdvIds is reached.
CHECK_DEADLOCK FALSE
