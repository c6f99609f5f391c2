------------------------------ MODULE Launcher ------------------------------
(***************************************************************************)
(* What the launcher changes on a PC before a game, and the reverts that   *)
(* must undo it: launcher (cmd/root.go, cmdUtils, executor/config.go),     *)
(* launcher-config (setUp.go, revert.go, admin.go), the config-admin-agent *)
(* (ipc.go), launcher-agent (root.go, watch.go) and the file between them  *)
(* that holds the revert flags (argsStore.go, configRevert.go).            *)
(*                                                                         *)
(* The launcher runs launcher-config once per group of settings; when it   *)
(* succeeds, the flags that revert the group are added to the file.  It    *)
(* starts the agent and the game and exits; the agent waits for the game   *)
(* to end and reverts what the file says.  A launcher that fails, one that *)
(* starts, and the signal handlers of both revert by the same file, each   *)
(* in a goroutine of its own.  A launcher-config outlives its parent.      *)
(*                                                                         *)
(* One game, one user who is not the administrator.  A flag is the setting *)
(* it reverts; the file is absent when it holds none.                      *)
(***************************************************************************)
EXTENDS Naturals, FiniteSets, Sequences

CONSTANTS
  PCs,          \* for each PC of the instance, the settings its configuration allows to change
  Manual,       \* those the user arranged by hand: the launcher finds nothing to do
  MaxRuns,      \* bound: how often the launcher is started
  MaxTroubles   \* bound: how many kinds of trouble befall it, each at most once

Settings == {"hosts", "localCert", "userCert", "metadata", "profiles"}

\* Changed by config-admin, with administrator rights.
AdminSettings == {"hosts", "localCert"}

\* A set-up looks first whether these are as they should be already.
Checked == {"hosts", "localCert", "userCert"}

\* Set up once more, these fail: their backup is there.
HasBackup == {"hosts", "metadata", "profiles"}

\* Reverted once more, these fail (the certificate on Linux and Windows).
RevertsOnce == {"localCert", "metadata", "profiles"}

\* The settings of each run of launcher-config setup.
Groups == <<{"hosts"}, {"localCert", "userCert"}, {"metadata", "profiles"}>>

\* The order in which launcher-config changes what needs no administrator.
LocalPlace == [userCert |-> 1, metadata |-> 2, profiles |-> 3]

ASSUME SettingsAssumption ==
  /\ PCs \subseteq SUBSET Settings /\ Manual \subseteq Checked
  /\ \A pc \in PCs : ~({"localCert", "userCert"} \subseteq pc)   \* CanTrustInPc is one of both
ASSUME BoundAssumption == MaxRuns \in Nat /\ MaxTroubles \in Nat

\* The goroutines that revert: two of the launcher, two of the agent of each of its runs.
Agents == 1 .. MaxRuns
Main == <<"launcher", 0>>
Handler == <<"launcherSignal", 0>>
Watch(n) == <<"watch", n>>
AgentHandler(n) == <<"agentSignal", n>>

LauncherActors == {Main, Handler}
ActorsOf(n) == {Watch(n), AgentHandler(n)}
AgentActors == UNION {ActorsOf(n) : n \in Agents}
Actors == LauncherActors \cup AgentActors

Kinds == {"check", "setup", "store", "revert", "stop", "stopAgent", "start", "timeout", "late",
          "signal", "kill", "agentSignal", "agentKill", "adminKill"}

VARIABLES
  applied,       \* the settings the programs have changed on the PC
  store,         \* the settings whose revert flags are in the file
  configs,       \* the launcher-config processes
  revert,        \* per actor: where its ConfigRevert is, and the agent it kills before
  main,          \* the launcher's main goroutine: its pc and the next group
  handler,       \* the launcher's signal handler runs
  adminStarted,  \* Config.configAdminAgentStarted
  agent,         \* the launcher-agent of each run: where its Watch is
  signalled,     \* the agents that have received a signal
  unlisted,      \* those that have removed their pid file after it
  admin,         \* the config-admin-agent: mappedIps and addedCert are in did
  game,
  runs,
  wanted,        \* the PC's configuration
  troubles,      \* history: what went wrong so far
  overlap,       \* history: two launcher-config have run at once
  unknowing      \* history: an admin agent was started after a change it may have to revert

launcherVars == <<main, handler, adminStarted>>
agentVars == <<agent, signalled, unlisted>>
started == <<runs, wanted, unknowing>>
bounds == <<started, troubles>>
vars == <<applied, store, configs, revert, launcherVars, agentVars, admin, game, bounds,
          overlap>>

Idle == [at |-> "idle", agent |-> 0]

NoAdmin == [on |-> FALSE, did |-> {}]

Init ==
  /\ applied = {} /\ store = {}
  /\ configs = {}
  /\ revert = [p \in Actors |-> Idle]
  /\ main = [pc |-> "off", group |-> 1]
  /\ handler = FALSE /\ adminStarted = FALSE
  /\ agent = [n \in Agents |-> "off"] /\ signalled = {} /\ unlisted = {}
  /\ admin = NoAdmin
  /\ game = "off"
  /\ runs = 0 /\ wanted \in PCs /\ troubles = {} /\ overlap = FALSE
  /\ unknowing = FALSE

\* A step that goes wrong although nothing modelled here makes it.
Trouble(kind) ==
  /\ kind \notin troubles
  /\ Cardinality(troubles) < MaxTroubles
  /\ troubles' = troubles \cup {kind}

\* What fails because of the state, or by trouble.
Fails(possible, kind) ==
  \/ ~possible /\ UNCHANGED troubles
  \/ Trouble(kind)

-----------------------------------------------------------------------------
\* launcher-config

LocalLeft(c) == (c.flags \ c.done) \ AdminSettings

\* A process that goes on: the next change, the administrator's part, the end.
Onward(c) ==
  [c EXCEPT !.pc = IF LocalLeft(c) # {} THEN "local"
                   ELSE IF c.flags \cap AdminSettings # {} THEN "admin" ELSE "ok"]

Ended(c) == c.pc \in {"ok", "failed"}

\* Nobody waits for an orphan.
Kept(cs) == {c \in cs : ~(c.orphan /\ Ended(c))}

Become(c, d) == configs' = Kept((configs \ {c}) \cup {d})

Spawn(p, kind, flags) ==
  Onward([by |-> p, orphan |-> FALSE, kind |-> kind, pc |-> "local",
          flags |-> flags, done |-> {}])

\* A launcher-config is started.
Run(p, kind, flags) ==
  /\ configs' = configs \cup {Spawn(p, kind, flags)}
  /\ overlap' = (overlap \/ configs # {})

ChildOf(p) == {c \in configs : c.by = p /\ ~c.orphan}

Possible(kind, s) ==
  IF kind = "setup" THEN s \in HasBackup => s \notin applied
                    ELSE s \in RevertsOnce => s \in applied

Changed(kind, ss) == IF kind = "setup" THEN applied \cup ss ELSE applied \ ss

\* undoSetUp, undoRevert
Undone(c) == IF c.kind = "setup" THEN applied \ c.done ELSE applied \cup c.done

configFrame == <<store, revert, launcherVars, agentVars, game, started, overlap>>

ChangeLocal(c) ==
  /\ c.pc = "local"
  /\ \E s \in LocalLeft(c) :
       /\ \A t \in LocalLeft(c) : LocalPlace[s] <= LocalPlace[t]
       /\ \/ /\ Possible(c.kind, s)
             /\ applied' = Changed(c.kind, {s})
             /\ Become(c, Onward([c EXCEPT !.done = @ \cup {s}]))
             /\ UNCHANGED troubles
          \/ /\ Fails(Possible(c.kind, s), c.kind)
             /\ applied' = Undone(c)
             /\ Become(c, [c EXCEPT !.pc = "failed"])
  /\ UNCHANGED <<admin, configFrame>>

\* By the agent if it runs, which refuses to map or trust twice; else by config-admin, elevated.
\* Without an agent a failure does not undo the local part.
SetUpAdmin(c) ==
  /\ c.kind = "setup" /\ c.pc = "admin"
  /\ LET ss == c.flags \cap AdminSettings
         possible == /\ \A s \in ss : Possible("setup", s)
                     /\ ss \cap admin.did = {}
     IN \/ /\ possible
           /\ applied' = Changed("setup", ss)
           /\ admin' = IF admin.on THEN [admin EXCEPT !.did = @ \cup ss] ELSE admin
           /\ Become(c, [c EXCEPT !.pc = "ok"])
           /\ UNCHANGED troubles
        \/ /\ Fails(possible, "setup")
           /\ applied' = IF admin.on THEN Undone(c) ELSE applied
           /\ admin' = NoAdmin
           /\ Become(c, [c EXCEPT !.pc = "failed"])
  /\ UNCHANGED configFrame

\* The agent reverts what it set up itself, and is content with the rest as it is.
RevertAdmin(c) ==
  /\ c.kind = "revert" /\ c.pc = "admin"
  /\ LET asked == c.flags \cap AdminSettings
         ss == IF admin.on THEN asked \cap admin.did ELSE asked
         possible == \A s \in ss : Possible("revert", s)
     IN \/ /\ possible
           /\ applied' = Changed("revert", ss)
           /\ admin' = [admin EXCEPT !.did = @ \ ss]
           /\ Become(c, [c EXCEPT !.pc = "stop"])
           /\ UNCHANGED troubles
        \/ /\ Fails(possible, "revert")
           /\ applied' = Undone(c)
           /\ Become(c, [c EXCEPT !.pc = "failed"])
           /\ UNCHANGED admin
  /\ UNCHANGED configFrame

StopAgentIfNeeded(c) ==
  /\ c.pc = "stop"
  /\ \/ /\ admin' = NoAdmin
        /\ Become(c, [c EXCEPT !.pc = "ok"])
        /\ UNCHANGED troubles
     \/ /\ admin.on /\ Trouble("stop")
        /\ Become(c, [c EXCEPT !.pc = "failed"])
        /\ UNCHANGED admin
  /\ UNCHANGED <<applied, configFrame>>

ConfigStep ==
  \E c \in configs :
    ChangeLocal(c) \/ SetUpAdmin(c) \/ RevertAdmin(c) \/ StopAgentIfNeeded(c)

-----------------------------------------------------------------------------
\* The ends of processes, and ConfigRevert

\* The goroutines ps of a process are gone; its launcher-config goes on.
Orphaned(ps) ==
  Kept({IF c.by \in ps THEN [c EXCEPT !.orphan = TRUE] ELSE c : c \in configs})

Gone(ps) == [p \in Actors |-> IF p \in ps THEN Idle ELSE revert[p]]

LauncherEnds ==
  /\ main' = [pc |-> "off", group |-> 1]
  /\ handler' = FALSE /\ adminStarted' = FALSE
  /\ revert' = Gone(LauncherActors)
  /\ configs' = Orphaned(LauncherActors)

AgentEnds(n, r) ==
  /\ agent' = [agent EXCEPT ![n] = "off"]
  /\ signalled' = signalled \ {n} /\ unlisted' = unlisted \ {n}
  /\ revert' = [q \in Actors |-> IF q \in ActorsOf(n) THEN Idle ELSE r[q]]
  /\ configs' = Orphaned(ActorsOf(n))

Running(n) == agent[n] # "off"

\* The agent that its pid file leads to.
Listed == {n \in Agents : Running(n) /\ n \notin unlisted}

\* KillAgent interrupts the agent (not on Windows) and kills it within three seconds.
Interrupt(p) ==
  /\ revert[p].at = "interrupt"
  /\ \/ /\ Listed = {}
        /\ revert' = [revert EXCEPT ![p].at = "load"]
        /\ UNCHANGED signalled
     \/ \E n \in Listed :
          /\ revert' = [revert EXCEPT ![p] = [at |-> "kill", agent |-> n]]
          /\ UNCHANGED signalled
     \/ \E n \in Listed \ signalled :
          /\ revert' = [revert EXCEPT ![p] = [at |-> "kill", agent |-> n],
                                     ![AgentHandler(n)].at = "load"]
          /\ signalled' = signalled \cup {n}
  /\ UNCHANGED <<applied, store, configs, launcherVars, agent, unlisted, admin, game, bounds,
                 overlap>>

\* Mutant: the agent is only asked to end.
KillAsked(p) ==
  /\ revert[p].at = "kill"
  /\ revert' = [revert EXCEPT ![p] = [at |-> "load", agent |-> 0]]
  /\ UNCHANGED <<applied, store, configs, launcherVars, agentVars, admin, game, bounds, overlap>>

Kill(p) ==
  /\ revert[p].at = "kill"
  /\ AgentEnds(revert[p].agent, [revert EXCEPT ![p] = [at |-> "load", agent |-> 0]])
  /\ UNCHANGED <<applied, store, launcherVars, admin, game, bounds, overlap>>

\* Mutant: the admin agent is left to the next launcher.
StopsAdminOnSignal(p) == p = Handler

\* Config.Revert stops the admin agent only if the file has no flags.
StopsAdmin(p) == p = Handler \/ (p = Main /\ main.pc = "revert")

\* The agent is headless: it does not ask for elevation.
Load(p) ==
  /\ revert[p].at = "load"
  /\ \/ /\ store = {}
        /\ admin' = IF StopsAdmin(p) /\ adminStarted THEN NoAdmin ELSE admin
        /\ revert' = [revert EXCEPT ![p].at = "idle"]
        /\ UNCHANGED <<configs, troubles, overlap>>
     \/ /\ store = {} /\ StopsAdmin(p) /\ adminStarted /\ admin.on
        /\ Trouble("stopAgent")
        /\ revert' = [revert EXCEPT ![p].at = "idle"]
        /\ UNCHANGED <<admin, configs, overlap>>
     \/ /\ p \in AgentActors /\ store \cap AdminSettings # {} /\ ~admin.on
        /\ revert' = [revert EXCEPT ![p].at = "idle"]
        /\ UNCHANGED <<admin, configs, troubles, overlap>>
     \/ /\ store # {}
        /\ p \in AgentActors /\ store \cap AdminSettings # {} => admin.on
        /\ revert' = [revert EXCEPT ![p].at = "run"]
        /\ Run(p, "revert", store)
        /\ UNCHANGED <<admin, troubles>>
  /\ UNCHANGED <<applied, store, launcherVars, agentVars, game, started>>

\* Mutant: the flags are deleted whatever launcher-config says.
DeleteAnyway(p) ==
  /\ revert[p].at = "run"
  /\ \E c \in ChildOf(p) :
       /\ Ended(c)
       /\ store' = {}
       /\ configs' = configs \ {c}
  /\ revert' = [revert EXCEPT ![p].at = "idle"]
  /\ UNCHANGED <<applied, launcherVars, agentVars, admin, game, bounds, overlap>>

\* The flags are deleted if launcher-config revert succeeded.
Delete(p) ==
  /\ revert[p].at = "run"
  /\ \E c \in ChildOf(p) :
       /\ Ended(c)
       /\ store' = IF c.pc = "ok" THEN {} ELSE store
       /\ configs' = configs \ {c}
  /\ revert' = [revert EXCEPT ![p].at = "idle"]
  /\ UNCHANGED <<applied, launcherVars, agentVars, admin, game, bounds, overlap>>

RevertStep(p) == Interrupt(p) \/ Kill(p) \/ Load(p) \/ Delete(p)

-----------------------------------------------------------------------------
\* The launcher

At(pc) == main.pc = pc /\ revert[Main] = Idle

GoTo(pc) == main' = [main EXCEPT !.pc = pc]

BeginRevert(p) == revert' = [revert EXCEPT ![p].at = "interrupt"]

\* The deferred Config.Revert
Fail == GoTo("revert") /\ BeginRevert(Main)

mainFrame == <<applied, agentVars, started, handler, overlap>>

Start ==
  /\ main.pc = "off" /\ runs < MaxRuns
  /\ GoTo("wait")
  /\ runs' = runs + 1
  /\ UNCHANGED <<applied, store, configs, revert, handler, adminStarted, agentVars, admin,
                 game, wanted, troubles, overlap, unknowing>>

\* The waits for the agent, the admin agent and a game are over, or have taken too long.
Waited ==
  /\ At("wait")
  /\ \/ game = "on" /\ Fail
     \/ game # "on" /\ GoTo("cleanup") /\ BeginRevert(Main)
  /\ IF game = "starting" THEN Trouble("late") ELSE UNCHANGED troubles
  /\ UNCHANGED <<mainFrame, store, configs, adminStarted, admin, game>>

\* What ConfigRevert returns is ignored.
CleanedUp ==
  /\ At("cleanup")
  /\ GoTo("flush")
  /\ UNCHANGED <<mainFrame, store, configs, revert, adminStarted, admin, game, troubles>>

FlushCache ==
  /\ At("flush")
  /\ \/ /\ wanted \cap AdminSettings = {}
        /\ GoTo("setup")
        /\ UNCHANGED <<revert, adminStarted, admin, troubles, unknowing>>
     \/ /\ wanted \cap AdminSettings # {} /\ ~admin.on
        /\ GoTo("setup")
        /\ admin' = [on |-> TRUE, did |-> {}]
        /\ adminStarted' = TRUE
        /\ unknowing' = (unknowing \/ applied \cap AdminSettings # {})
        /\ UNCHANGED <<revert, troubles>>
     \/ /\ wanted \cap AdminSettings # {} /\ Fails(~admin.on, "start")
        /\ Fail
        /\ UNCHANGED <<adminStarted, admin, unknowing>>
  /\ UNCHANGED <<applied, agentVars, runs, wanted, handler, overlap, store, configs, game>>

\* The set-up of the next group: what is wanted and not found in order.
SetUp ==
  /\ At("setup") /\ ChildOf(Main) = {}
  /\ IF main.group > Len(Groups)
     THEN GoTo("launch") /\ UNCHANGED <<configs, overlap>>
     ELSE \E inOrder \in SUBSET (Checked \cap applied) :
            LET flags == (Groups[main.group] \cap wanted) \ (Manual \cup inOrder) IN
            IF flags = {}
            THEN main' = [main EXCEPT !.group = @ + 1] /\ UNCHANGED <<configs, overlap>>
            ELSE Run(Main, "setup", flags) /\ UNCHANGED main
  /\ UNCHANGED <<applied, store, revert, handler, adminStarted, agentVars, admin, game, bounds>>

\* Mutant: Store does not read the flags that are in the file.
StoreFlagsAnew ==
  /\ At("setup")
  /\ \E c \in ChildOf(Main) :
       /\ Ended(c)
       /\ configs' = configs \ {c}
       /\ \/ /\ c.pc = "ok"
             /\ store' = c.flags
             /\ main' = [main EXCEPT !.group = @ + 1]
             /\ UNCHANGED revert
          \/ /\ c.pc = "failed"
             /\ Fail
             /\ UNCHANGED store
  /\ UNCHANGED <<mainFrame, adminStarted, admin, game, troubles>>

\* RunSetUp: flags that cannot be stored are reverted at once, and the launcher fails.
StoreFlags ==
  /\ At("setup")
  /\ \E c \in ChildOf(Main) :
       /\ Ended(c)
       /\ \/ /\ c.pc = "ok" /\ c.kind = "setup"
             /\ store' = store \cup c.flags
             /\ main' = [main EXCEPT !.group = @ + 1]
             /\ configs' = configs \ {c}
             /\ UNCHANGED <<revert, troubles>>
          \/ /\ c.pc = "ok" /\ c.kind = "setup" /\ Trouble("store")
             /\ configs' = (configs \ {c}) \cup {Spawn(Main, "revert", c.flags)}
             /\ UNCHANGED <<store, main, revert>>
          \/ /\ c.pc = "failed" \/ c.kind = "revert"
             /\ Fail
             /\ configs' = configs \ {c}
             /\ UNCHANGED <<store, troubles>>
  /\ UNCHANGED <<mainFrame, adminStarted, admin, game>>

\* The agent is not needed if there is nothing to revert, to log or to stop.
StartAgent ==
  /\ At("launch")
  /\ \/ /\ agent' = [agent EXCEPT ![runs] = "game"]
        /\ GoTo("game")
        /\ UNCHANGED <<revert, troubles>>
     \/ /\ store = {}
        /\ GoTo("game")
        /\ UNCHANGED <<agent, revert, troubles>>
     \/ /\ Trouble("start")
        /\ Fail
        /\ UNCHANGED agent
  /\ UNCHANGED <<applied, store, configs, handler, adminStarted, signalled, unlisted, admin, game,
                 started, overlap>>

\* The game is being started, and the launcher exits.
StartGame ==
  /\ At("game")
  /\ \/ /\ game' = IF game = "on" THEN game ELSE "starting"
        /\ LauncherEnds
        /\ UNCHANGED troubles
     \/ /\ Trouble("start")
        /\ Fail
        /\ UNCHANGED <<game, configs, handler, adminStarted>>
  /\ UNCHANGED <<applied, store, agentVars, admin, started, overlap>>

\* Any check on the way: arguments, the server, its certificate.
CheckFails ==
  /\ At("wait") \/ (At("setup") /\ ChildOf(Main) = {})
  /\ Trouble("check")
  /\ Fail
  /\ UNCHANGED <<mainFrame, store, configs, adminStarted, admin, game>>

Exit ==
  /\ At("revert") \/ (handler /\ revert[Handler] = Idle)
  /\ LauncherEnds
  /\ UNCHANGED <<applied, store, agentVars, admin, game, bounds, overlap>>

LauncherStep ==
  \/ Waited \/ CleanedUp \/ FlushCache \/ SetUp \/ StoreFlags
  \/ StartAgent \/ StartGame \/ CheckFails \/ Exit

-----------------------------------------------------------------------------
\* The agent and the game

agentFrame == <<applied, store, launcherVars, admin, game, started, overlap>>

SeeGame(n) ==
  /\ agent[n] = "game" /\ game = "on"
  /\ agent' = [agent EXCEPT ![n] = "end"]
  /\ UNCHANGED <<agentFrame, configs, revert, signalled, unlisted, troubles>>

EndWatch(n) ==
  /\ agent' = [agent EXCEPT ![n] = "revert"]
  /\ revert' = [revert EXCEPT ![Watch(n)].at = "load"]
  /\ UNCHANGED <<agentFrame, configs, signalled, unlisted>>

\* Mutant: the wait for the game returns when the game has been found.
SeeEndAtOnce(n) ==
  /\ agent[n] = "end"
  /\ EndWatch(n)
  /\ UNCHANGED troubles

\* A minute without the game, or its end: the deferred ConfigRevert.  It is trouble when
\* the game is still to come.
SeeEnd(n) ==
  /\ \/ agent[n] = "ended" /\ UNCHANGED troubles
     \/ /\ agent[n] = "game" /\ game # "on"
        /\ IF game = "starting" \/ main.pc = "game" THEN Trouble("timeout")
                                                    ELSE UNCHANGED troubles
  /\ EndWatch(n)

\* The signal handler ends, and removes the pid file; Watch goes on.
Unlist(n) ==
  /\ n \in signalled \ unlisted /\ revert[AgentHandler(n)] = Idle
  /\ unlisted' = unlisted \cup {n}
  /\ UNCHANGED <<agentFrame, configs, revert, agent, signalled, troubles>>

AgentExits(n) ==
  /\ agent[n] = "revert" /\ revert[Watch(n)] = Idle
  /\ AgentEnds(n, revert)
  /\ UNCHANGED <<agentFrame, troubles>>

AgentStep(n) == SeeGame(n) \/ SeeEnd(n) \/ Unlist(n) \/ AgentExits(n)

\* An agent that has found the game waits for the end of that process.
GameStep ==
  /\ \/ /\ game = "starting" /\ game' \in {"on", "off"}
        /\ UNCHANGED agent
     \/ /\ game = "on" /\ game' = "off"
        /\ agent' = [n \in Agents |-> IF agent[n] = "end" THEN "ended" ELSE agent[n]]
  /\ UNCHANGED <<applied, store, configs, revert, launcherVars, signalled, unlisted, admin, bounds,
                 overlap>>

-----------------------------------------------------------------------------
\* Signals and kills

SignalLauncher ==
  /\ main.pc # "off" /\ ~handler
  /\ Trouble("signal")
  /\ handler' = TRUE
  /\ BeginRevert(Handler)
  /\ UNCHANGED <<applied, store, configs, main, adminStarted, agentVars, admin, game, started,
                 overlap>>

KillLauncher ==
  /\ main.pc # "off"
  /\ Trouble("kill")
  /\ LauncherEnds
  /\ UNCHANGED <<applied, store, agentVars, admin, game, started, overlap>>

SignalAgent(n) ==
  /\ Running(n) /\ n \notin signalled
  /\ Trouble("agentSignal")
  /\ signalled' = signalled \cup {n}
  /\ revert' = [revert EXCEPT ![AgentHandler(n)].at = "load"]
  /\ UNCHANGED <<agentFrame, configs, agent, unlisted>>

KillLauncherAgent(n) ==
  /\ Running(n)
  /\ Trouble("agentKill")
  /\ AgentEnds(n, revert)
  /\ UNCHANGED agentFrame

KillAdminAgent ==
  /\ admin.on
  /\ Trouble("adminKill")
  /\ admin' = NoAdmin
  /\ UNCHANGED <<applied, store, configs, revert, launcherVars, agentVars, game, started, overlap>>

Disturb ==
  \/ SignalLauncher \/ KillLauncher \/ KillAdminAgent
  \/ \E n \in Agents : SignalAgent(n) \/ KillLauncherAgent(n)

Next ==
  \/ Start \/ LauncherStep \/ ConfigStep \/ GameStep \/ Disturb
  \/ \E n \in Agents : AgentStep(n)
  \/ \E p \in Actors : RevertStep(p)

Spec == Init /\ [][Next]_vars

\* Processes run on.  The user need not start the launcher, nor end the game.
Fairness ==
  /\ WF_vars(LauncherStep)
  /\ WF_vars(ConfigStep)
  /\ \A n \in Agents : WF_vars(AgentStep(n))
  /\ \A p \in Actors : WF_vars(RevertStep(p))

FairSpec == Spec /\ Fairness

-----------------------------------------------------------------------------
\* The values of each variable.
TypeOK ==
  /\ applied \subseteq Settings /\ store \subseteq Settings
  /\ \A c \in configs :
       /\ c.by \in Actors /\ c.orphan \in BOOLEAN
       /\ c.kind \in {"setup", "revert"}
       /\ c.pc \in {"local", "admin", "stop", "ok", "failed"}
       /\ c.flags \subseteq Settings /\ c.done \subseteq c.flags
  /\ \A p \in Actors : Cardinality(ChildOf(p)) <= 1
  /\ revert \in [Actors -> [at : {"idle", "interrupt", "kill", "load", "run"},
                          agent : {0} \cup Agents]]
  /\ \A p \in Actors : (revert[p].at = "kill") = (revert[p].agent # 0)
  /\ main \in [pc : {"off", "wait", "cleanup", "flush", "setup", "launch", "game", "revert"},
               group : 1 .. Len(Groups) + 1]
  /\ handler \in BOOLEAN /\ adminStarted \in BOOLEAN
  /\ agent \in [Agents -> {"off", "game", "end", "ended", "revert"}]
  /\ signalled \subseteq {n \in Agents : Running(n)} /\ unlisted \subseteq signalled
  /\ Cardinality(Listed) <= 1
  /\ admin \in [on : BOOLEAN, did : SUBSET AdminSettings]
  /\ game \in {"off", "starting", "on"}
  /\ runs \in 0 .. MaxRuns /\ wanted \in PCs
  /\ troubles \subseteq Kinds /\ Cardinality(troubles) <= MaxTroubles

-----------------------------------------------------------------------------
\* No process is left that would change a setting.
AtRest == main.pc = "off" /\ configs = {} /\ \A n \in Agents : ~Running(n)

Befell(kinds) == troubles \cap kinds # {}

\* What is changed on the PC when every process has ended is in the file of revert flags, so that
\* the next launcher reverts it (StoreFlags, Delete).  Excused: two launcher-config that ran at
\* once; a launcher ended by a signal or a kill, whose set-up goes on and is not stored; flags
\* that were not stored and whose revert at once failed too; and a config-admin-agent started
\* while hosts or certificate are changed, which takes what it has not done itself as reverted.
LeftoversAreStored ==
  AtRest => \/ applied \subseteq store
            \/ overlap
            \/ Befell({"signal", "kill"})
            \/ {"store", "revert"} \subseteq troubles
            \/ unknowing

\* The config-admin-agent, elevated, outlives the others only while the file has a flag whose
\* revert stops it (StopAgentIfNeeded), or else Config.Revert stops it or has tried (Load).  So
\* it is where a setting is found in order only if the launcher made it (Manual = {}).  Excused:
\* two launcher-config that ran at once, a signal or a kill, a stop or a revert that fails, and
\* an agent that a signal has made remove its pid file, which reverts later than the clean-up.
AdminAgentEnds ==
  AtRest /\ admin.on => \/ store \cap AdminSettings # {}
                        \/ overlap \/ unknowing
                        \/ Befell({"signal", "kill", "stopAgent", "revert", "agentSignal"})

\* A game is started with every setting made (SetUp before StartGame), whatever the initial
\* clean-up, earlier launchers and their agents were doing.  Excused: a signal or a kill, which
\* lets a launcher-config or an agent without a pid file revert later than the clean-up, and a
\* game that appears late, which an agent gives up waiting for.
GameStartsSetUp ==
  [][game = "off" /\ game' = "starting" =>
       \/ wanted \ Manual \subseteq applied
       \/ overlap
       \/ Befell({"signal", "kill", "agentSignal", "timeout", "late"})]_vars

\* Nothing is reverted under a running game (SeeEnd, KillAgent), except by a second launcher,
\* whose deferred Revert does so when it finds the game running.
GameKeepsSetUp ==
  [][game = "on" /\ game' = "on" =>
       \/ applied \subseteq applied'
       \/ runs > 1
       \/ Befell({"signal", "agentSignal", "timeout"})]_vars

\* After a game that the agent has seen, all is reverted in the end, with no further start of
\* the launcher (SeeEnd, Load, Delete).  Excused: a revert that fails, a signal to the launcher,
\* an agent that is killed, and a config-admin-agent that is: the agent, being headless, then
\* skips the revert.
RevertedInTheEnd ==
  (\E n \in Agents : agent[n] = "ended") ~>
    applied = {} \/ overlap \/ runs > 1 \/ Befell({"revert", "signal", "agentKill", "adminKill"})

\* Once it has cleaned up, the launcher has no config-admin-agent beside it (root.go:452-456).
CleanupStopsAdminAgent == At("flush") => ~admin.on
=============================================================================
