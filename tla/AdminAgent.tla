----------------------------- MODULE AdminAgent -----------------------------
(***************************************************************************)
(* The settings that need the administrator, and the processes that change *)
(* them: launcher-config (internal/admin), which speaks to the             *)
(* config-admin-agent over a socket if one can be reached and runs         *)
(* config-admin elevated otherwise; the agent, which serves one connection *)
(* at a time and remembers what was set up through it (internal/ipc); and  *)
(* config-admin, run by either (setup, revert), on Linux.                  *)
(*                                                                         *)
(* Two launcher-config processes may run at once: the launcher's own, and  *)
(* one of its signal handler, of the launcher-agent or of a user.  A       *)
(* process can be killed while its command is with the agent, which then   *)
(* carries it out for nobody or not at all; the agent can be killed too,   *)
(* and a signal makes it give up the PID lock alone, and go on.            *)
(*                                                                         *)
(* A run of config-admin is one step with several outcomes; Hosts and      *)
(* PidLock have the steps of a hosts file and of a PID file.               *)
(***************************************************************************)
EXTENDS Naturals, Sequences

CONSTANTS
  Configs,      \* the launcher-config processes that can run at once
  MaxAgents,    \* bound: the agents started
  MaxRequests,  \* bound: the commands of launcher-config
  MaxMishaps    \* bound: the processes killed or sent a signal

ASSUME AdminAssumption == MaxAgents \in Nat

VARIABLES
  applied,   \* "hosts" and "cert": who put it there, of Makers
  agents,    \* the agents, in the order they were started
  socket,    \* the agent that listens at the path, 0: none
  pidHolder, \* the agent that has the PID lock, 0: none
  config,    \* the launcher-config processes
  requests, agentMishaps

adminVars == <<applied, agents, socket, pidHolder, config, requests, agentMishaps>>

\* Nothing; what a set-up that failed has left; a run that was not an agent's; an agent.
Nothing == 0
Leftover == MaxAgents + 1
Elevated == MaxAgents + 2
Makers == 0 .. MaxAgents + 2

Settings == {"hosts", "cert"}

\* serves is the process it reads from, None when it waits for a connection.
None == "none"
NewAgent == [pc |-> "lock", serves |-> None, has |-> {}]
NoConfig == [pc |-> "idle", kind |-> None, asks |-> {}, to |-> 0, ok |-> FALSE, gone |-> FALSE]

AdminInit ==
  /\ applied = [s \in Settings |-> Nothing]
  /\ agents = <<>> /\ socket = 0 /\ pidHolder = 0
  /\ config = [c \in Configs |-> NoConfig]
  /\ requests = 0 /\ agentMishaps = 0

ConfigIs(c, record) == config' = [config EXCEPT ![c] = record]
GoTo(c, pc) == config' = [config EXCEPT ![c].pc = pc]
AgentIs(i, record) == agents' = [agents EXCEPT ![i] = record]

Is(c, pc) == config[c].pc = pc
Agent(i, pc) == agents[i].pc = pc
Lives(i) == i # 0 /\ agents[i].pc # "ended"

bounds == <<requests, agentMishaps>>

-----------------------------------------------------------------------------
\* config-admin: the states it can leave, and whether its exit code is zero

Outcome(state, ok) == [state |-> state, ok |-> ok]
With(now, s, who) == [now EXCEPT ![s] = who]

\* The certificate is there although the store could not be updated after it.
TrustCertificates(now, who) ==
  {Outcome(With(now, "cert", who), TRUE), Outcome(With(now, "cert", Leftover), FALSE),
   Outcome(now, FALSE)}

\* One that is not there cannot be removed, nor brought back: the removed one is returned
\* only if the store could not be updated.
UntrustCertificates(now) ==
  IF now.cert = Nothing THEN {Outcome(now, FALSE)}
  ELSE {Outcome(With(now, "cert", Nothing), TRUE), Outcome(With(now, "cert", Nothing), FALSE),
        Outcome(now, FALSE)}

\* Hosts that are mapped already are in order.
AddHostMappings(now, who) ==
  {Outcome(IF now.hosts = Nothing THEN With(now, "hosts", who) ELSE now, TRUE), Outcome(now, FALSE)}

RemoveHostMappings(now) == {Outcome(With(now, "hosts", Nothing), TRUE), Outcome(now, FALSE)}

Unless(wanted, now, outcomes) == IF wanted THEN outcomes ELSE {Outcome(now, TRUE)}

Kept(state) == IF state.cert = Nothing THEN state ELSE With(state, "cert", Leftover)

\* Mappings that fail have the certificate of the same command taken out again.
SetUpAdmin(now, asks, who) ==
  LET trusted == Unless("cert" \in asks, now, TrustCertificates(now, who))
      mapped(t) == Unless("hosts" \in asks, t.state, AddHostMappings(t.state, who))
      undone(t) == Unless("cert" \in asks, t.state, UntrustCertificates(t.state))
  IN {t \in trusted : ~t.ok}
     \cup (UNION {{m \in mapped(t) : m.ok} : t \in {t \in trusted : t.ok}})
     \cup (UNION {{Outcome(IF "cert" \in asks THEN Kept(u.state) ELSE u.state, FALSE) :
                     u \in undone(t)} :
                    t \in {t \in trusted : t.ok /\ \E m \in mapped(t) : ~m.ok}})

\* With "-a" a certificate that cannot be removed does not stop it, nor counts.
RevertAdmin(now, asks, all) ==
  LET untrusted == Unless("cert" \in asks, now, UntrustCertificates(now))
      goesOn == {u \in untrusted : u.ok \/ all}
  IN {u \in untrusted : ~u.ok /\ ~all}
     \cup UNION {Unless("hosts" \in asks, u.state, RemoveHostMappings(u.state)) : u \in goesOn}

-----------------------------------------------------------------------------
\* launcher-config

\* ConnectAgentIfNeeded: the socket's name leads to one that is there.
Reached == IF Lives(socket) THEN socket ELSE 0

\* A command begins, and dials.  flushCache, by one who is no administrator, starts an agent
\* unless one was reached.
Request(c, kind, asks) ==
  /\ Is(c, "idle") /\ requests < MaxRequests
  /\ requests' = requests + 1
  /\ ConfigIs(c, [NoConfig EXCEPT !.kind = kind, !.asks = asks, !.to = Reached,
       !.pc = CASE kind = "stop" -> "stop"
                [] kind = "flush" -> IF Reached = 0 THEN "start" ELSE "idle"
                [] OTHER -> IF Reached = 0 THEN "run" ELSE "asked"])
  /\ UNCHANGED <<applied, agents, socket, pidHolder, agentMishaps>>

\* The command is over: a revert that succeeded stops the agent, and so does a set-up that the
\* agent failed.
Over(c, ok) ==
  ConfigIs(c, [config[c] EXCEPT !.ok = ok,
    !.pc = IF IF config[c].kind = "setup" THEN ~ok /\ config[c].to # 0 ELSE ok
           THEN "stop" ELSE "idle"])

\* Nobody was reached: config-admin, elevated.
RunElevated(c) ==
  /\ Is(c, "run")
  /\ \E outcome \in IF config[c].kind = "setup" THEN SetUpAdmin(applied, config[c].asks, Elevated)
                    ELSE RevertAdmin(applied, config[c].asks, config[c].kind = "all") :
       applied' = outcome.state /\ Over(c, outcome.ok)
  /\ UNCHANGED <<agents, socket, pidHolder, bounds>>

\* The exit code arrives.
ReadAnswer(c) ==
  /\ Is(c, "answered")
  /\ Over(c, config[c].ok)
  /\ UNCHANGED <<applied, agents, socket, pidHolder, bounds>>

\* The agent is gone, or closes, before it has served the command.
ReadFails(c) ==
  /\ Is(c, "asked") /\ ~config[c].gone
  /\ ~Lives(config[c].to)
  /\ Over(c, FALSE)
  /\ UNCHANGED <<applied, agents, socket, pidHolder, bounds>>

\* StopAgentIfNeeded: Exit is sent to the agent that was reached, or is by now.  One that has the
\* PID lock but was never reached counts as stopped.
SendExit(c) ==
  /\ Is(c, "stop")
  /\ LET to == IF config[c].to # 0 THEN config[c].to ELSE Reached IN
       ConfigIs(c, [config[c] EXCEPT !.to = to,
         !.pc = IF to = 0 THEN "idle" ELSE IF Lives(to) THEN "exit" ELSE "kill"])
  /\ UNCHANGED <<applied, agents, socket, pidHolder, bounds>>

\* It dials until nobody answers, or for three seconds.
SeesItStopped(c) ==
  /\ Is(c, "exit")
  /\ GoTo(c, IF Reached = 0 THEN "idle" ELSE "kill")
  /\ UNCHANGED <<applied, agents, socket, pidHolder, bounds>>

AgentDies(i) ==
  /\ AgentIs(i, [agents[i] EXCEPT !.pc = "ended", !.serves = None])
  /\ pidHolder' = IF pidHolder = i THEN 0 ELSE pidHolder

\* KillPidProc
KillAgent(c) ==
  /\ Is(c, "kill")
  /\ IF pidHolder # 0 THEN AgentDies(pidHolder) ELSE UNCHANGED <<agents, pidHolder>>
  /\ GoTo(c, "idle")
  /\ UNCHANGED <<applied, socket, bounds>>

StartAgent(c) ==
  /\ Is(c, "start") /\ Len(agents) < MaxAgents
  /\ agents' = Append(agents, NewAgent)
  /\ GoTo(c, "verify")
  /\ UNCHANGED <<applied, socket, pidHolder, bounds>>

\* ConnectAgentIfNeededWithRetries, for three seconds.
VerifyAgent(c) ==
  /\ Is(c, "verify")
  /\ ConfigIs(c, [config[c] EXCEPT !.to = Reached, !.pc = IF Reached = 0 THEN "stop" ELSE "idle"])
  /\ UNCHANGED <<applied, agents, socket, pidHolder, bounds>>

-----------------------------------------------------------------------------
\* The agent

LockPid(i) ==
  /\ Agent(i, "lock")
  /\ IF pidHolder = 0 THEN pidHolder' = i /\ AgentIs(i, [agents[i] EXCEPT !.pc = "flush"])
     ELSE AgentIs(i, [agents[i] EXCEPT !.pc = "ended"]) /\ UNCHANGED pidHolder
  /\ UNCHANGED <<applied, socket, config, bounds>>

\* The caches are flushed, and SetupServer takes the socket's name; or it gives up.
Listen(i) ==
  /\ Agent(i, "flush")
  /\ \/ AgentIs(i, [agents[i] EXCEPT !.pc = "serve"]) /\ socket' = i /\ UNCHANGED pidHolder
     \/ AgentDies(i) /\ UNCHANGED socket
  /\ UNCHANGED <<applied, config, bounds>>

Accept(i, c) ==
  /\ Agent(i, "serve") /\ agents[i].serves = None
  /\ config[c].to = i /\ (Is(c, "asked") \/ Is(c, "exit"))
  /\ AgentIs(i, [agents[i] EXCEPT !.serves = c])
  /\ UNCHANGED <<applied, socket, pidHolder, config, bounds>>

Serving(i, c) == Agent(i, "serve") /\ agents[i].serves = c /\ config[c].to = i

\* The connection ends with its process.
Hangup(i, c) ==
  /\ Agent(i, "serve") /\ agents[i].serves = c
  /\ Is(c, "idle") \/ config[c].to # i
  /\ AgentIs(i, [agents[i] EXCEPT !.serves = None])
  /\ UNCHANGED <<applied, socket, pidHolder, config, bounds>>

\* The answer, to a process that was killed meanwhile too: its connection ends.
Answer(i, c, ok, has) ==
  IF config[c].gone
  THEN ConfigIs(c, NoConfig) /\ AgentIs(i, [agents[i] EXCEPT !.serves = None, !.has = has])
  ELSE /\ ConfigIs(c, [config[c] EXCEPT !.pc = "answered", !.ok = ok])
       /\ AgentIs(i, [agents[i] EXCEPT !.has = has])

\* A slip: what was set up for a process that does not read the answer is not remembered.
SetUpForReaders(i, c) ==
  /\ Serving(i, c) /\ Is(c, "asked") /\ config[c].kind = "setup"
  /\ config[c].asks \cap agents[i].has = {}
  /\ \E outcome \in SetUpAdmin(applied, config[c].asks, i) :
       /\ applied' = outcome.state
       /\ Answer(i, c, outcome.ok,
            agents[i].has \cup (IF outcome.ok /\ ~config[c].gone THEN config[c].asks ELSE {}))
  /\ UNCHANGED <<socket, pidHolder, bounds>>

\* What it has set up is not set up again.
handleSetUp(i, c) ==
  /\ Serving(i, c) /\ Is(c, "asked") /\ config[c].kind = "setup"
  /\ IF config[c].asks \cap agents[i].has # {}
     THEN Answer(i, c, FALSE, agents[i].has) /\ UNCHANGED applied
     ELSE \E outcome \in SetUpAdmin(applied, config[c].asks, i) :
            /\ applied' = outcome.state
            /\ Answer(i, c, outcome.ok,
                 agents[i].has \cup (IF outcome.ok THEN config[c].asks ELSE {}))
  /\ UNCHANGED <<socket, pidHolder, bounds>>

\* Only what it has set up is reverted; without anything the answer is a success.
handleRevert(i, c) ==
  /\ Serving(i, c) /\ Is(c, "asked") /\ config[c].kind \in {"revert", "all"}
  /\ LET reverts == config[c].asks \cap agents[i].has IN
     IF reverts = {} THEN Answer(i, c, TRUE, agents[i].has) /\ UNCHANGED applied
     ELSE \E outcome \in RevertAdmin(applied, reverts, FALSE) :
            /\ applied' = outcome.state
            /\ Answer(i, c, outcome.ok, agents[i].has \ (IF outcome.ok THEN reverts ELSE {}))
  /\ UNCHANGED <<socket, pidHolder, bounds>>

\* Exit: the connection is closed, and the loop left.
handleExit(i, c) ==
  /\ Serving(i, c) /\ Is(c, "exit")
  /\ AgentIs(i, [agents[i] EXCEPT !.pc = "closing", !.serves = None])
  /\ UNCHANGED <<applied, socket, pidHolder, config, bounds>>

\* The socket goes by its name, whichever agent has it by then; then the PID lock.
Close(i) ==
  /\ Agent(i, "closing")
  /\ socket' = 0
  /\ AgentDies(i)
  /\ UNCHANGED <<applied, config, bounds>>

-----------------------------------------------------------------------------
\* What befalls the processes

AgentMishap == agentMishaps < MaxMishaps /\ agentMishaps' = agentMishaps + 1

\* The handler gives up the lock, and the agent goes on.
SignalAgent(i) ==
  /\ Agent(i, "serve") /\ pidHolder = i /\ AgentMishap
  /\ pidHolder' = 0
  /\ UNCHANGED <<applied, agents, socket, config, requests>>

AgentKilled(i) ==
  /\ agents[i].pc \in {"flush", "serve"} /\ AgentMishap
  /\ AgentDies(i)
  /\ UNCHANGED <<applied, socket, config, requests>>

\* Killed before its command was sent whole, or after.
ConfigKilled(c) ==
  /\ Is(c, "asked") /\ ~config[c].gone /\ AgentMishap
  /\ \/ ConfigIs(c, NoConfig)
     \/ Lives(config[c].to) /\ ConfigIs(c, [config[c] EXCEPT !.gone = TRUE])
  /\ UNCHANGED <<applied, agents, socket, pidHolder, requests>>

\* One that was killed and whose agent is gone.
Forgotten(c) ==
  /\ config[c].gone /\ ~Lives(config[c].to)
  /\ ConfigIs(c, NoConfig)
  /\ UNCHANGED <<applied, agents, socket, pidHolder, bounds>>

Requested(c) ==
  \/ \E asks \in (SUBSET Settings) \ {{}} : Request(c, "setup", asks) \/ Request(c, "revert", asks)
  \/ Request(c, "all", Settings) \/ Request(c, "flush", {}) \/ Request(c, "stop", {})

AdminNext ==
  \/ \E c \in Configs :
       \/ Requested(c) \/ RunElevated(c) \/ ReadAnswer(c) \/ ReadFails(c)
       \/ SendExit(c) \/ SeesItStopped(c) \/ KillAgent(c) \/ StartAgent(c) \/ VerifyAgent(c)
       \/ ConfigKilled(c) \/ Forgotten(c)
  \/ \E i \in DOMAIN agents :
       \/ LockPid(i) \/ Listen(i) \/ Close(i) \/ SignalAgent(i) \/ AgentKilled(i)
       \/ \E c \in Configs :
            \/ Accept(i, c) \/ Hangup(i, c)
            \/ handleSetUp(i, c) \/ handleRevert(i, c) \/ handleExit(i, c)

AdminSpec == AdminInit /\ [][AdminNext]_adminVars

-----------------------------------------------------------------------------
AgentStates ==
  [pc : {"lock", "flush", "serve", "closing", "ended"},
   serves : Configs \cup {None}, has : SUBSET Settings]

\* Of n agents.
ConfigStates(n) ==
  [pc : {"idle", "run", "asked", "answered", "stop", "exit", "kill", "start", "verify"},
   kind : {None, "setup", "revert", "all", "flush", "stop"},
   asks : SUBSET Settings, to : 0 .. n, ok : BOOLEAN, gone : BOOLEAN]

AdminTypeOK ==
  /\ applied \in [Settings -> Makers]
  /\ agents \in Seq(AgentStates)
  /\ socket \in 0 .. Len(agents) /\ pidHolder \in 0 .. Len(agents)
  /\ config \in [Configs -> ConfigStates(Len(agents))]

\* When the agent answers a revert with success, nothing is left of what was asked for and set up
\* through this agent, by whichever processes in whatever commands, and whether their answers
\* arrived or not (handleSetUp, handleRevert): that success makes the launcher delete its flags.
\* Excused: what a set-up that failed has left.
AgentUndoesItsOwn ==
  [][\A c \in Configs :
       Is(c, "asked") /\ config[c].kind \in {"revert", "all"}
         /\ config'[c].pc = "answered" /\ config'[c].ok
       => \A s \in config[c].asks : applied'[s] # config[c].to]_adminVars
=============================================================================
