CONSTANTS
  Parts = {"file", "items", "labyrinth", "gauntlet", "match", "lobby", "chat", "presence",
           "authentication", "run"}
  Users = {h, p}
  Host = h
  None = None
  KeyOrder <- FileKeys
  Values = {0, 1, 2}
  Default = 0
  Callers = {c1, c2}
  MaxStops = 2
  ItemIds = {sword, banner}
  Plain = {banner}
  Places = {1}
  LoadoutIds = {l1, l2}
  Stats = {won, fixed}
  Fixed = {fixed}
  Amounts = {1}
  Clients = {c1, c2}
  Rows = 5
  Columns = 4
  FirstSizes = {2, 3}
  MiddleSizes = {2, 3, 4}
  Played = {m1, m2}
  MaxVersion = 4
  MatchTitles = {"AoE3", "AoM"}
  MatchRequests = {r1, r2}
  MaxStarts = 2
  MaxCalls = 4
  Inviters = {p}
  LobbyRequests = {r1, r2}
  Races = {1, 2}
  MaxPeers = 2
  ChatRequests = {r1, r2}
  MaxChats = 4
  Presences = {0, 1}
  PresenceRequests = {r1, r2}
  MaxPresences = 3
  AuthModes = {"required", "cached", "offline"}
  Validity = 2
  MaxTime = 4
  MaxLogins = 3
  ServedGames = {"g1", "g2"}
  Addrs = {"any", "lo"}
  Unspecified = "any"
  RunVisits = {"v1", "v2"}
SPECIFICATION Spec
INVARIANTS
  AnsweredIsSaved
  
  PathsLeadToTheBoss
  SameVersionSameData
  NobodyIsMissed
  ObserversAreKept
  
  
  
  LetThroughIsKnown
  AnsweredOnce
PROPERTY
  DrawsEnd
  StopRequestsEnd
\* The parts are bounded: each comes to an end of its requests.
CHECK_DEADLOCK FALSE
