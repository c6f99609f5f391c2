--------------------------- MODULE BattleServers ---------------------------
(***************************************************************************)
(* The battle servers of a PC, for one game: battle-server-manager (start, *)
(* remove, remove-all, clean), the files that say which run                *)
(* (common/battleServer/config.go), and the launcher that has one started  *)
(* and finds out which by what the files said before and after             *)
(* (cmdUtils/battleServerManager.go).                                      *)
(*                                                                         *)
(* One manager runs at a time (PidLock).  It can be stopped between any    *)
(* two steps; a battle server can die, and one that runs may not answer a  *)
(* check in the 100 ms it has.  A process is never the one of another      *)
(* number again.                                                           *)
(*                                                                         *)
(* A battle server is a number; its name and its region are one, of        *)
(* Regions.  A file is found by its index; the name of the file decides    *)
(* the order in which the directory lists them.                            *)
(***************************************************************************)
EXTENDS Naturals, Sequences, FiniteSetsExt

CONSTANTS
  MaxServers,   \* bound: the battle servers started
  MaxManagers,  \* bound: the managers run
  Radix,        \* ten in the code: from which index on a file's name has two digits
  NoServer

ASSUME BattleAssumption == Radix \in Nat \ {0} /\ NoServer \notin Nat \ {0}

VARIABLES
  servers,    \* the battle servers, in the order they were started: their state and region
  configs,    \* the files: which server each is of, by index
  manager,    \* the manager that runs, if one does
  managers,   \* how many have been run
  starter,    \* the launcher: what it saw before, what it will have removed in the end
  forsaken,   \* history: servers that a stop, a failure or the files' order leaves unlisted
  between     \* history: since the launcher looked, another was started, or one did not answer then

battleVars == <<servers, configs, manager, managers, starter, forsaken, between>>

\* "auto": the first name, and those with a number.  Any other is one the user gives.
Regions == {"server", "server (1)", "other"}
Automatic == "auto"

Ids == DOMAIN servers
Up == {s \in Ids : servers[s].state = "up"}
Runs == {s \in Ids : servers[s].state \in {"starting", "up"}}

\* Where it is, the server it starts, the files it removes and the one it is at, whether it
\* spares those that answer, whether the launcher runs it.
NoManager == [pc |-> "none", server |-> NoServer, region |-> "server", todo |-> {}, file |-> 0,
              only |-> FALSE, mine |-> FALSE]

\* Nothing, or one that runs with the last of the files that have one digit, those before it
\* removed.
BattleInit ==
  /\ \/ servers = <<>> /\ configs = [i \in {} |-> NoServer]
     \/ servers = <<[state |-> "up", region |-> "server"]>> /\ configs = [i \in {Radix - 1} |-> 1]
  /\ manager = NoManager /\ managers = 0
  /\ starter = [pc |-> "idle", before |-> {}, found |-> NoServer, own |-> NoServer]
  /\ forsaken = {} /\ between = FALSE

ManagerAt(pc) == manager.pc = pc

ManagerBegins(task) ==
  /\ ManagerAt("none") /\ managers < MaxManagers
  /\ manager' = task /\ managers' = managers + 1

\* The manager ends; the launcher waits for its own.
ManagerEnds(exit) ==
  /\ manager' = NoManager
  /\ starter' = IF manager.mine THEN [starter EXCEPT !.pc = exit] ELSE starter

-----------------------------------------------------------------------------
\* The files

Listed == {configs[i] : i \in DOMAIN configs}

\* Validate: one that runs and answers, all of them or fewer.  One that only starts does not.
Answering == {found \in SUBSET (Listed \cap Up) : TRUE}

RegionsOf(ss) == {servers[s].region : s \in ss}

\* The directory is listed by name: 10.toml before 2.toml.
NameKey(i) == IF i < Radix THEN i * (Radix + 1) ELSE (i \div Radix) * (Radix + 1) + 1 + (i % Radix)

LastListed == CHOOSE i \in DOMAIN configs : \A j \in DOMAIN configs : NameKey(j) <= NameKey(i)

\* Mutant: as many as there are.
NextIndexCounted == Cardinality(DOMAIN configs)

\* WriteConfig: after the one that is listed last.
NextIndex == IF DOMAIN configs = {} THEN 0 ELSE LastListed + 1

\* When the one listed last is not the highest.
NamesMislead == DOMAIN configs # {} /\ LastListed # Max(DOMAIN configs)

Without(i) == [j \in DOMAIN configs \ {i} |-> configs[j]]

-----------------------------------------------------------------------------
\* start

\* The automatic name is looked for with its capital among names without.
Chosen(region, taken) ==
  IF region # Automatic THEN region
  ELSE IF "server" \in taken THEN "server (1)" ELSE "server"

\* ExistingServers, the names, the ports and the files it needs.
BeginStart(mine) ==
  /\ \E found \in Answering, force \in BOOLEAN, wish \in {Automatic, "other"} :
       LET region == Chosen(wish, RegionsOf(found)) IN
         IF (~force /\ found # {}) \/ region \in RegionsOf(found) THEN ManagerBegins(NoManager)
         ELSE ManagerBegins([NoManager EXCEPT !.pc = "execute", !.region = region, !.mine = mine])
  /\ UNCHANGED <<servers, configs, forsaken>>

Start ==
  /\ BeginStart(FALSE)
  /\ UNCHANGED <<starter, between>>

Execute ==
  /\ ManagerAt("execute") /\ Len(servers) < MaxServers
  /\ LET s == Len(servers) + 1 IN
       /\ servers' = Append(servers, [state |-> "starting", region |-> manager.region])
       /\ manager' = [manager EXCEPT !.pc = "wait", !.server = s]
       /\ starter' = IF manager.mine THEN [starter EXCEPT !.own = s] ELSE starter
  /\ UNCHANGED <<managers, configs, forsaken, between>>

ExecuteFails ==
  /\ ManagerAt("execute")
  /\ ManagerEnds("done")
  /\ UNCHANGED <<managers, servers, configs, forsaken, between>>

Answers ==
  /\ ManagerAt("wait") /\ manager.server \in Up
  /\ manager' = [manager EXCEPT !.pc = "write"]
  /\ UNCHANGED <<managers, servers, configs, starter, forsaken, between>>

\* Kill, whose failure is only told.
Killed(s, ok) ==
  /\ servers' = IF ok THEN [servers EXCEPT ![s].state = "gone"] ELSE servers
  /\ forsaken' = IF ok THEN forsaken ELSE forsaken \cup {s}

\* It does not answer in time, or its file cannot be written.
GivesUp ==
  /\ manager.pc \in {"wait", "write"}
  /\ \E ok \in BOOLEAN : Killed(manager.server, ok)
  /\ ManagerEnds("done")
  /\ UNCHANGED <<managers, configs, between>>

WriteConfig ==
  /\ ManagerAt("write")
  /\ LET i == NextIndex IN
       /\ configs' = [j \in DOMAIN configs \cup {i} |->
                        IF j = i THEN manager.server ELSE configs[j]]
       /\ forsaken' = IF NamesMislead /\ i \in DOMAIN configs THEN forsaken \cup {configs[i]}
                                                             ELSE forsaken
  /\ ManagerEnds("ran")
  /\ between' = (between \/ ~manager.mine)
  /\ UNCHANGED <<managers, servers>>

-----------------------------------------------------------------------------
\* remove, remove-all and clean

BeginRemoval(indexes, only) ==
  /\ indexes # {}
  /\ ManagerBegins([NoManager EXCEPT !.pc = "remove", !.todo = indexes, !.only = only])
  /\ UNCHANGED <<servers, configs, starter, forsaken, between>>

RemoveServers(region) ==
  BeginRemoval({i \in DOMAIN configs : servers[configs[i]].region = region}, FALSE)

RemoveAll == BeginRemoval(DOMAIN configs, FALSE)

Clean == BeginRemoval(DOMAIN configs, TRUE)

\* Clean leaves those that answer.
Spare(i) ==
  /\ ManagerAt("remove") /\ manager.only /\ configs[i] \in Up
  /\ manager' = IF manager.todo = {i} THEN NoManager ELSE [manager EXCEPT !.todo = @ \ {i}]
  /\ UNCHANGED <<managers, servers, configs, starter, forsaken, between>>

KillListed(i) ==
  /\ ManagerAt("remove")
  /\ \E ok \in BOOLEAN : (configs[i] \in Runs \/ ok) /\ Killed(configs[i], ok)
  /\ manager' = [manager EXCEPT !.pc = "delete", !.file = i]
  /\ UNCHANGED <<managers, configs, starter, between>>

\* The file goes whether the process was killed or not.
DeleteConfig ==
  /\ ManagerAt("delete")
  /\ configs' = Without(manager.file)
  /\ manager' = IF manager.todo = {manager.file} THEN NoManager
                ELSE [manager EXCEPT !.pc = "remove", !.todo = @ \ {manager.file}, !.file = 0]
  /\ UNCHANGED <<managers, servers, starter, forsaken, between>>

-----------------------------------------------------------------------------
\* The launcher: RunBattleServerManager, and the removal in the end.

LauncherLooks ==
  /\ starter.pc = "idle"
  /\ \E found \in Answering :
       /\ starter' = [starter EXCEPT !.pc = "looked", !.before = found]
       /\ between' = (found # Listed \cap Runs)
  /\ UNCHANGED <<managers, servers, configs, manager, forsaken>>

\* One that runs already is an error or, with --noErrExisting, a success; after a success it
\* looks again.
LauncherStarts ==
  /\ starter.pc = "looked" /\ starter.own = NoServer
  /\ BeginStart(TRUE)
  /\ \E exit \in {"ran", "done"} :
       starter' = [starter EXCEPT !.pc = IF manager'.mine THEN "starts" ELSE exit]
  /\ UNCHANGED between

\* Mutant: one that was there before will do.
LauncherFindsAny ==
  /\ starter.pc = "ran"
  /\ \E after \in Answering :
       starter' = [starter EXCEPT !.pc = "done",
                     !.found = IF Cardinality(after) = 1 THEN CHOOSE s \in after : TRUE
                               ELSE NoServer]
  /\ UNCHANGED <<managers, servers, configs, manager, forsaken, between>>

\* The one that is new, if there is one and none is missing.
LauncherFinds ==
  /\ starter.pc = "ran"
  /\ \E after \in Answering :
       LET new == after \ starter.before IN
         starter' = [starter EXCEPT !.pc = "done",
                       !.found = IF Cardinality(new) = 1 /\ starter.before \subseteq after
                                 THEN CHOOSE s \in new : TRUE ELSE NoServer]
  /\ UNCHANGED <<managers, servers, configs, manager, forsaken, between>>

\* Config.Revert and the agent: "remove" with the region.
LauncherRemoves ==
  /\ starter.pc = "done" /\ starter.found # NoServer
  /\ RemoveServers(servers[starter.found].region)

-----------------------------------------------------------------------------
\* What befalls them

Initialised(s) ==
  /\ servers[s].state = "starting"
  /\ servers' = [servers EXCEPT ![s].state = "up"]
  /\ UNCHANGED <<managers, configs, manager, starter, forsaken, between>>

Dies(s) ==
  /\ s \in Runs
  /\ servers' = [servers EXCEPT ![s].state = "gone"]
  /\ UNCHANGED <<managers, configs, manager, starter, forsaken, between>>

ManagerStops ==
  /\ manager.pc \in {"wait", "write", "remove", "delete"}
  /\ forsaken' = IF manager.pc \in {"wait", "write"} THEN forsaken \cup {manager.server}
                 ELSE forsaken
  /\ ManagerEnds("done")
  /\ UNCHANGED <<managers, servers, configs, between>>

BattleNext ==
  \/ Start \/ Execute \/ ExecuteFails \/ Answers \/ GivesUp \/ WriteConfig
  \/ \E region \in Regions : RemoveServers(region)
  \/ RemoveAll \/ Clean
  \/ \E i \in manager.todo \cap DOMAIN configs : Spare(i) \/ KillListed(i)
  \/ DeleteConfig
  \/ LauncherLooks \/ LauncherStarts \/ LauncherFinds \/ LauncherRemoves
  \/ \E s \in Ids : Initialised(s) \/ Dies(s)
  \/ ManagerStops

BattleSpec == BattleInit /\ [][BattleNext]_battleVars

-----------------------------------------------------------------------------
BattleStates == [state : {"starting", "up", "gone"}, region : Regions]

ManagerStates ==
  [pc : {"none", "execute", "wait", "write", "remove", "delete"}, server : Ids \cup {NoServer},
   region : Regions, todo : SUBSET DOMAIN configs, file : Nat, only : BOOLEAN, mine : BOOLEAN]

StarterStates ==
  [pc : {"idle", "looked", "starts", "ran", "done"}, before : SUBSET Ids,
   found : Ids \cup {NoServer}, own : Ids \cup {NoServer}]

BattleTypeOK ==
  /\ servers \in Seq(BattleStates)
  /\ DOMAIN configs \subseteq Nat /\ configs \in [DOMAIN configs -> Ids]
  /\ manager \in ManagerStates /\ starter \in StarterStates
  /\ forsaken \subseteq Ids /\ between \in BOOLEAN

\* Whenever no manager is at work, every battle server that runs is in a file, where the
\* launcher, the clean-up and the game's server find it (WriteConfig, Remove).  Excused: those
\* whose manager was stopped before it wrote the file, those that could not be killed, and
\* those whose file the next one takes because 10.toml is listed before 9.toml.
RunningAreListed == ManagerAt("none") => Runs \subseteq Listed \cup forsaken

\* The battle server that the launcher takes for its own, and has removed in the end, is the one
\* it had started, unless another was started meanwhile or did not answer when it looked first
\* (RunBattleServerManager).
SparesOthers == starter.found # NoServer => between \/ starter.found = starter.own
=============================================================================
