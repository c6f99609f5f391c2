------------------------------ MODULE ServerRun ------------------------------
(***************************************************************************)
(* The server's process from its start to its end (server/internal/cmd):   *)
(* the PID lock, the options, then for one game after the other its state, *)
(* its routes, and at each of its addresses a socket that answers queries  *)
(* and a goroutine that serves; then the wait for a signal, or on Windows  *)
(* for a request to stop (routes/shutdown), and the end of all servers.    *)
(*                                                                         *)
(* The channel of the stop signal has no buffer: a signal that comes when  *)
(* nobody receives is dropped, and a request waits until somebody does.    *)
(* The first games are served while the next ones are set up, and the maps *)
(* of the games are read and written without a lock.                       *)
(***************************************************************************)
EXTENDS Naturals, FiniteSets

CONSTANTS
  ServedGames,  \* cfg.Games.Enabled
  Addrs,        \* the addresses that their hosts can have
  Unspecified,  \* the one of them that stands for all
  RunVisits     \* the requests

VARIABLES
  main,       \* where runRoot is, and the games and addresses it has left
  config,     \* the addresses of every game's hosts, and whether the server is announced
  sockets,    \* the addresses that answer queries
  listeners,  \* the servers: [game, addr] -> their goroutines
  visits,     \* the handlers of requests
  pidFile,    \* the PID file is there
  exitCode

runVars == <<main, config, sockets, listeners, visits, pidFile, exitCode>>

Servers == ServedGames \X Addrs
NoVisit == [pc |-> "none", at |-> {}]

RunInit ==
  /\ config \in [hosts : [ServedGames -> (SUBSET Addrs) \ {{}}], announce : BOOLEAN]
  /\ main = [pc |-> "lock", games |-> ServedGames, game |-> {}, addrs |-> {}]
  /\ sockets = {} /\ listeners = [s \in Servers |-> "none"]
  /\ visits = [v \in RunVisits |-> NoVisit]
  /\ pidFile = FALSE /\ exitCode = "success"

MainAt(pc) == main.pc = pc
MainTo(pc) == main' = [main EXCEPT !.pc = pc]

\* A return: early ones leave the PID file, all others run what is deferred.
EndWith(code) == MainTo("ended") /\ exitCode' = code
Return(code) == EndWith(code) /\ pidFile' = FALSE

parts == <<config, sockets, listeners, visits>>

-----------------------------------------------------------------------------
\* runRoot, up to the wait

LockPidFile ==
  /\ MainAt("lock")
  /\ \/ MainTo("configure") /\ pidFile' = TRUE /\ UNCHANGED exitCode
     \/ EndWith("failure") /\ UNCHANGED pidFile
  /\ UNCHANGED parts

\* The configuration, the log file and the authentication.
Configure ==
  /\ MainAt("configure")
  /\ \/ MainTo("check") /\ UNCHANGED exitCode
     \/ EndWith("failure")
  /\ UNCHANGED <<parts, pidFile>>

\* The Id, the games, the certificates and the multicast group; then InitializeStopSignal.
CheckOptions ==
  /\ MainAt("check")
  /\ \/ MainTo("game") /\ UNCHANGED <<exitCode, pidFile>>
     \/ Return("failure")
  /\ UNCHANGED parts

\* The handlers that look for their game, or for what is announced of it.
Reading == {v \in RunVisits : visits[v].pc = "read"}

\* The state of the next game; the hosts, the battle servers or the logs may fail it, and the
\* communication log does not stop it.  Go ends the process when it sees a map read and written
\* at once.
InitializeGame ==
  /\ MainAt("game") /\ main.games # {}
  /\ \E g \in main.games :
       \/ /\ main' = [main EXCEPT !.pc = "addr", !.games = @ \ {g}, !.game = {g},
                                  !.addrs = config.hosts[g]]
          /\ exitCode' \in {exitCode, "failure"}
          /\ UNCHANGED pidFile
       \/ Return("failure")
       \/ Reading # {} /\ EndWith("failure") /\ UNCHANGED pidFile
  /\ UNCHANGED parts

InUse(a, taken) == \E b \in taken : a = b \/ Unspecified \in {a, b}

\* QueryConnections, and the goroutine.
ServeAddress ==
  /\ MainAt("addr")
  /\ \E a \in main.addrs, g \in main.game :
       \/ /\ config.announce => ~InUse(a, sockets)
          /\ sockets' = IF config.announce THEN sockets \cup {a} ELSE sockets
          /\ listeners' = [listeners EXCEPT ![g, a] = "begun"]
          /\ main' = [main EXCEPT !.addrs = @ \ {a},
                                  !.pc = IF main.addrs = {a} THEN "game" ELSE "addr"]
          /\ UNCHANGED <<exitCode, pidFile>>
       \/ config.announce /\ Return("failure") /\ UNCHANGED <<sockets, listeners>>
  /\ UNCHANGED <<config, visits>>

AwaitStop ==
  /\ MainAt("game") /\ main.games = {}
  /\ MainTo("wait")
  /\ UNCHANGED <<parts, pidFile, exitCode>>

Listening == {s \in Servers : listeners[s] = "listening"}

Stopping == main.pc \in {"shutdown", "forced"}

\* ListenAndServeTLS: one that fails only sets the exit code, and goes on being announced.
Serve(s) ==
  /\ listeners[s] = "begun" /\ ~MainAt("ended")
  /\ \/ /\ ~Stopping /\ ~InUse(s[2], {t[2] : t \in Listening})
        /\ listeners' = [listeners EXCEPT ![s] = "listening"] /\ UNCHANGED exitCode
     \/ /\ ~Stopping
        /\ listeners' = [listeners EXCEPT ![s] = "failed"] /\ exitCode' = "failure"
     \/ /\ Stopping
        /\ listeners' = [listeners EXCEPT ![s] = "closed"] /\ UNCHANGED exitCode
  /\ UNCHANGED <<main, config, sockets, visits, pidFile>>

-----------------------------------------------------------------------------
\* Requests

VisitTo(v, pc) == visits' = [visits EXCEPT ![v].pc = pc]

Visit(v, s) ==
  /\ visits[v].pc = "none" /\ s \in Listening
  /\ ~Stopping /\ ~MainAt("ended")
  /\ visits' = [visits EXCEPT ![v] = [pc |-> "read", at |-> {s}]]
  /\ UNCHANGED <<main, config, sockets, listeners, pidFile, exitCode>>

\* The TitleMiddleware and the handler: Shutdown goes on only for one of the PC's addresses.
Handle(v) ==
  /\ visits[v].pc = "read" /\ ~MainAt("ended")
  /\ \/ VisitTo(v, "answered")
     \/ VisitTo(v, "send")
  /\ UNCHANGED <<main, config, sockets, listeners, pidFile, exitCode>>

-----------------------------------------------------------------------------
\* The end

\* A signal ends the process before it is notified, stops the wait, and is lost otherwise.
Signal ==
  /\ \/ main.pc \in {"lock", "configure", "check"} /\ EndWith("failure")
     \/ MainAt("wait") /\ MainTo("shutdown") /\ UNCHANGED exitCode
  /\ UNCHANGED <<parts, pidFile>>

\* Shutdown goes on when its signal is received.
StopRequested(v) ==
  /\ MainAt("wait") /\ visits[v].pc = "send"
  /\ VisitTo(v, "answered") /\ MainTo("shutdown")
  /\ UNCHANGED <<config, sockets, listeners, pidFile, exitCode>>

Busy == {v \in RunVisits : visits[v].pc \in {"read", "send"}}

\* Mutant: the servers wait for their requests as long as it takes.
Patient == Busy = {}

\* Shutdown waits for the requests of every server, for the second of their context.
RequestsOver == Busy = {} \/ MainAt("forced")

SecondPasses ==
  /\ MainAt("shutdown") /\ MainTo("forced")
  /\ UNCHANGED <<parts, pidFile, exitCode>>

End ==
  /\ Stopping /\ RequestsOver
  /\ Return(exitCode)
  /\ UNCHANGED parts

MainStep ==
  \/ LockPidFile \/ Configure \/ CheckOptions \/ InitializeGame \/ ServeAddress \/ AwaitStop
  \/ \E v \in RunVisits : StopRequested(v)
  \/ SecondPasses \/ End

RunNext ==
  \/ MainStep \/ Signal
  \/ \E s \in Servers : Serve(s) \/ \E v \in RunVisits : Visit(v, s)
  \/ \E v \in RunVisits : Handle(v)

\* The goroutine of runRoot is scheduled, and the second of its context passes.
RunFairness == WF_runVars(MainStep)

RunSpec == RunInit /\ [][RunNext]_runVars /\ RunFairness

-----------------------------------------------------------------------------
RunTypeOK ==
  /\ main \in [pc : {"lock", "configure", "check", "game", "addr", "wait", "shutdown",
                     "forced", "ended"},
               games : SUBSET ServedGames, game : SUBSET ServedGames, addrs : SUBSET Addrs]
  /\ config \in [hosts : [ServedGames -> SUBSET Addrs], announce : BOOLEAN]
  /\ sockets \subseteq Addrs
  /\ listeners \in [Servers -> {"none", "begun", "listening", "failed", "closed"}]
  /\ visits \in [RunVisits -> [pc : {"none", "read", "send", "answered"}, at : SUBSET Servers]]
  /\ pidFile \in BOOLEAN /\ exitCode \in {"success", "failure"}

\* A request to stop ends the server, whenever it comes: while later games are still set up, or
\* when another has been received and this one waits for a receiver that never comes, as do the
\* servers for it (Shutdown, runRoot).
StopRequestsEnd ==
  \A v \in RunVisits : visits[v].pc = "send" ~> MainAt("ended")
=============================================================================
