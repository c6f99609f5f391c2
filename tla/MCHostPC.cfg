CONSTANTS
  Parts = {"hosts", "pid", "battle", "config", "admin", "connection"}
  UserFiles <- HostsFiles
  Edits <- HostsEdits
  ServerIp = "server"
  GameHosts = {"g1", "g2"}
  Hostname = "me"
  MaxHosts = 2
  HostsProcesses = {p1, p2}
  Nobody = Nobody
  MaxHostsStops = 1
  MaxAdds = 2
  Programs = {q1, q2, q3}
  Watcher = Watcher
  NoProgram = NoProgram
  MaxServers = 3
  MaxManagers = 3
  Radix = 10
  NoServer = 0
  Profiles = {u1, u2}
  ConfigGroups = {{"admin"}, {"metadata", "profiles"}, {"gameCert", "userCert"}}
  MaxCommands = 3
  MaxFaults = 2
  Configs = {k1, k2}
  MaxAgents = 2
  MaxRequests = 3
  MaxMishaps = 1
  Domains = {d1, d2}
  Machines = {pc, lan}
  ThisPC = pc
  AddressesOf <- Addresses
  Official = Official
  MaxRuns = 2
  MaxDisturbances = 1
SPECIFICATION Spec
INVARIANTS
  
  AtMostOneRuns
  RunningAreListed
  SparesOthers
  OwnFoldersReturn
  LaunchReachesServer

  
\* The parts are bounded: each comes to an end of its commands.
CHECK_DEADLOCK FALSE
