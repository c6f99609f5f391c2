# A TLA+ development of Age LAN Server

This directory holds TLA+ modules that model parts of the repository, the TLC
configurations that check them on small instances, and proofs that TLAPS checks. Every
definition is translated from the Go code; `PROJECT.json` names, for each of them, the
file, the lines and the function it stands for. Paths below are relative to the
repository.

- [1. The system](#1-the-system) - the parts, their state, how they interact
- [2. The modules](#2-the-modules) - which module models what, and how
- [3. The runs](#3-the-runs) - what is checked, with which bounds and which fairness
- [4. The proofs](#4-the-proofs) - what is proved, along which argument
- [5. Where the code and its comments differ](#5-where-the-code-and-its-comments-differ)
- [6. What is not modelled](#6-what-is-not-modelled)
- [7. The plan](#7-the-plan)

## 1. The system

Age LAN Server lets the Age of Empires games play multiplayer on a LAN, without the
official servers. A **server** process answers the games' HTTPS and web socket requests.
On each PC a **launcher** redirects the game to that server (hosts file, certificates,
user data), starts the game, and undoes all of it afterwards with the help of several
other processes.

### The server (`server/`)

One process; one `http.Server` per game title and address. Each HTTP request and each
web socket runs in a goroutine of its own, so any two handlers interleave. The state is
in memory, except for the data of a user.

| Component | State | Operations | What makes it correct |
|---|---|---|---|
| `SafeOrderedMap` (`internal/Map.go`) | values, key order, place of each key; a published copy | `Store`, `Delete`, `IterAndStore`; `Load`, `Keys`, `Values`, `Iter` without a lock | the three structures agree; a reader sees one whole version; versions follow one another like writes |
| `KeyRWMutex` (`internal/keyRWMutex.go`) | a read-write mutex per key, made at its first use | `Lock`, `RLock`, `Unlock`, `RUnlock` | one writer or many readers per key; no unlock of a free mutex; whoever waits is served |
| Advertisements, that is matches (`models/advertisement.go`, `peer.go`, `routes/game/{advertisement,party}`) | store of matches; peers, host, observers and settings of each | host, join, leave, update, change of state, observe, search, add peers, change host | nobody in a match that is not listed, no empty match listed, a user in one match |
| Invitations and match chat (`routes/game/invitation`, `models/message.go`) | invitations per peer, messages per match | extend, cancel, reply; send, find | an answer is to an invitation that is open |
| Sessions (`models/baseSession.go`, `session.go`) | id, user and expiry of each; a sweeper goroutine | create, delete, refresh, find | one session per user, only expired ones are swept, and all of them eventually |
| Messages (`routes/wss/wss.go`, `login/readSession.go`) | a web socket per session, a channel of 100 messages per session | login over the socket, close, send or store, poll | a message is delivered once or kept; no goroutine hangs; a logged-in client is found |
| Chat channels (`models/chatChannel.go`, `routes/game/chat`) | members per channel | join, leave, send | whoever joined before a message gets it |
| User data and items (`models/persistentJsonData.go`, `user.go`, `item.go`, `avatarStats.go`) | a JSON file per user, a cache of it, a lock per value | read, change (rewrites the file), upgrade at load | what was acknowledged is in the file; a crash loses at most the last change |
| Authentication (`routes/router/authMiddleware.go`) | a deadline per user, until which the last success holds | ask the official server, fall back on the deadline | one answer per request; a failure never lengthens the deadline |
| PlayFab API (`models/playfab`, `models/athens`) | sessions of their own (again `BaseSessions`), read-only tables | log in, read data | as for sessions |
| Presence and relationships (`routes/game/relationship`) | a presence per user | set, log in, log out, list | no client keeps a presence that was replaced |
| Gauntlet (`models/athens`) | a labyrinth and the progress in it, versioned | build, start a mission, award, poll | the boss can be reached; a poll misses no change |
| Resources, constant responses, battle servers | tables loaded at start | - | - |
| Start, announcement and shutdown (`internal/cmd`, `ip`, `routes/shutdown`) | listeners, query sockets, the stop channel, the PID file | start, serve, stop | a stop ends it, whenever it comes |

The components meet in four ways. Handlers call the stores directly; the stores are
`SafeOrderedMap`s and `SafeMap`s. Write sections of a match or of a user's value take the
`KeyRWMutex` of its id. Handlers notify other users by `wss.SendOrStoreMessage`, which
finds the other user's session and starts a goroutine. Logging out and expiry take away
the session that all of these look up by user.

### The launcher side

| Component | State | Operations | What makes it correct |
|---|---|---|---|
| `launcher` (its way to a server) | the server chosen, the cache of resolved names, mapped hosts, trusted certificates | discover, start, map, trust, check | the game talks to the chosen server |
| `launcher` | the PC's settings it had changed; flags that revert them | clean, set up, store flags, start agent and game, revert on failure or signal | whatever is applied can be reverted from the store; a second start does no harm |
| `launcher-common` | the file of revert flags, the file of the revert command | `Store`, `Load`, `Delete`, `ConfigRevert` | flags stay until what they name is undone |
| `launcher-agent` | - | wait for the game, wait for its end, revert; the same from a signal handler | reverts once the game has ended, however it ends |
| `launcher-config` | hosts, certificates, isolated user data, the game's certificate store | set up and revert, each with an undo of its own | all or nothing; set up and revert are inverse |
| `launcher-config-admin` and its agent | the hosts file, the local certificate store; what this agent has set up | set up, revert, exit, over a pipe | reverts what was set up with rights the others lack, then ends |
| `common/hosts`, `common/fileLock`, `common/process` | the hosts file and its backup; pid files | add, remove; lock, find, kill | a crash loses no line; one process per lock |
| `battle-server-manager` | a directory with a configuration per running battle server | start, clean, remove | each running battle server has one configuration |
| `battle-server-broadcast`, `server-genCert`, `config-helper`, `tools` | - | - | - |

These are processes that start one another, wait with time limits, kill one another
(interrupt, three seconds, kill), and share files. The hard behaviours are a process
that dies between two steps, two processes that revert at once, and one that trusts a
file another one is still writing.

### What is hard here

`PROJECT.json` lists the hazards at their lines. In short: handlers look something up in
one critical section and act on it in the next; the order in which two locks, or one lock
twice, are taken; a collection that is filled before it is used (the sweeper); caches and
pointers read outside their lock; a failure in the middle of several steps (PeerAdd, the
set-up of the launcher, the two renames of user data); and files rewritten in place.

## 2. The modules

```
 OrderedKeys ------ OrderedKeysTheorems         OrderedMap       RWLock
   |      \                |      \                  ^               ^
   |       SafeOrderedMap --|-------\-- refines -----'    KeyRWMutex (refines)
   |             \          |        \
   |              SafeOrderedMap_proofs \              Messages      Launcher
   '--- Advertisements --- Advertisements_proofs

 Messages_proofs        over Messages
 LocksSessions_proofs   over KeyRWMutex, Sessions
 ServerState_proofs     over UserFile, Authentication, Items, Labyrinth, Gauntlet, Match, Lobby,
                        Chat, Presence and OrderedKeysTheorems
 HostPC_proofs          over Hosts, PidLock, BattleServers, Config, AdminAgent, Connection
 Launcher_proofs        over Launcher

 MCServerState   = UserFile | Items | Labyrinth | Gauntlet | Match | Lobby | Chat
                   | Presence | Authentication | ServerRun        (over ServerConstants)
 MCLocksSessions = KeyRWMutex | Sessions
 MCHostPC        = Hosts | PidLock | BattleServers | Config | AdminAgent | Connection
```

Each component has a module; an `MC` module with what TLC alone needs; and a `.cfg` per
run. The modules that no action changes together share one instance: the variable `part`
of such an `MC` module names one of them, `Init` chooses it, and a behaviour is one of
that module while the variables of the others keep a first value. It checks what separate
runs would. A definition whose comment begins with "Mutant" is a deliberate mistake: no
specification uses it, and each property has one that breaks it.

Throughout, a step is what no other goroutine or process can come between: a section under
one lock, an atomic operation of a map, a system call on a file. What a handler has read is
kept in a record of its own (`req`, `asked`, `running`, `manager`, ...), which says at which
step it is. Variables that the code has not (`sequentialUsers`, `missed`, `raced`,
`mishaps`, `marred`, ...) record history for the properties; no guard reads them, except to
bound the number of failures.

### The shared structures of the server

**OrderedKeys** has the two ways in which the key order of a `SafeOrderedMap` changes: a
new key goes to the end, a deleted one leaves the others in order. **SafeOrderedMap** uses
it with the lock and the published copy: a write is a step that changes `m.data` under
`m.lock` and a step, `Publish`, that stores the copy, since a reader may load between
them. Readers are not actions; what they can load is the variable `ro`, and the
properties about readers are properties of `ro`. **OrderedMap** is what a reader is
promised: a list of entries with distinct keys that each write changes at once.
`RefinesOrderedMap` maps its entries to the published copy.

**KeyRWMutex** separates the look-up under `mu.RLock`, the creation under `mu.Lock` and
the wait for the mutex, and repeats the look-up in `Unlock` and `RUnlock`. The history
variable `overwritten` records the keys whose mutex a second creator replaced. **RWLock**
is what the comments "requires advertisement write lock" expect; `RefinesRWLock` holds for
the keys that have a mutex already.

**Advertisements** models who is in which match. The store and the peers of a match are
`SafeOrderedMap`s, so each access is one step and a search (`GetUserAdvertisement`)
iterates over the version it loaded (`scan`), reading the peers of each match as they are
when it gets there. `lockedBy` is the write lock of a match, held over the steps of a
section that changes the shared maps more than once. The handlers are cut at each access:

| Handler | Steps |
|---|---|
| `host.go` Host | `Scan`*, `RemovePeer`, `DropIfEmpty` (the previous match), `StoreAdvertisement`, `NewPeer` |
| `join.go` Join | the same removal, `Lookup`, `NewPeer` |
| `leave.go` Leave, `logout.go` Logout | `RemovePeer`, `DropIfEmpty`; Logout searches first |
| `peerAdd.go` PeerAdd | `BeginPeerAdd`, `AddPeer`* |
| `updateHost.go` UpdateHost | `CheckFirst` (no lock), `SetHost` |

In the game with party matches (AoE4, `MultiMatch`) Host and Join skip the removal.
`sequential` is a history variable: the users whose requests never overlap and whom no
host has added to a match. The lock is an atomic one here; KeyRWMutex says when that is
justified.

**Messages** has a `Handle` goroutine per connection (`handler`: reading, deleting its
entry, waiting for `connLock.Lock`, closed, or stuck in the close handler), a goroutine
per message (`send`), the channel of each session and the `readSession` polls. `connLock`
is `readers` plus a pending writer (`Closing`): as in `sync.RWMutex`, a writer that waits
keeps new readers out, which is what makes a nested `RLock` dangerous. `niled` records
that `Close` has set `conn` and `writeLock` to nil; using such a pointer is `crashed`.
Messages addresses sessions by id and leaves their end to Sessions: a message may be sent
to a session that has ended, as `GetByUserId` may have returned it just before.

**Sessions** has logins (find, delete, create), other requests (reset the expiry, then
handle, for Logout with the deletion at the end) and the sweeper. An expiry is the time
left, so that the state does not grow with time; `TimePasses` is the clock. A ticker given an
interval of zero panics, which ends the server.

### The state of the server's users

**UserFile** is the JSON file of one user: opened, locked and read at the first login,
defaulted value by value in the order of `Generate`, changed under a value's key lock, and
encoded whole after a truncation at each change. `StopAndStart` ends the process anywhere,
and a new one opens the file. `cachedRawData`, the values in memory and the disk are three
variables, since the code updates them in three places. **Items** has what the user owns
on top of it: `PlaceItems`, `MoveToSlot`, `UpdateItemAttributes`, `CreateItemLoadout`,
`UpdateItemLoadout`, `SetAvatarStatValues`, each as it is in memory, as it is saved, and as
the client was told; and the draw of ids under the one mutex of the generators (`rng.go`).

**Match** is one match after it was advertised: `Update`, `UpdateState`, the platform
session and lobby ids, `StartObserving`, `StopObserving`, the searches, `SendMatchChat`.
Its sections under the match's lock are one step, what follows them is not locked, and
sessions expire between. The set of observers is a pointer (a number here) that each start
replaces. **Lobby** is the invitations, `PeerUpdate` and `UpdateTags`: an inviter who comes
back has a new `Peer`, so the set of invitees that a request has loaded may be an old one.
**Chat** is a channel with its members, and what each client believes they are (`view`).
**Presence** is the presence of each user, what each client knows of it, and the
relationships that a login returns. In all of these a message is delivered when it is given
to the session; Messages goes on from there.

**Authentication** is one login through `AuthMiddleware`, `AuthMiddlewareCached` or
`AuthMiddlewareOffline`: the three upstream requests, each of which succeeds, fails or is
refused, who answers the client, the deadline that is cached, the deferred logout.
**Labyrinth** is the generator of a gauntlet column by column, every draw being any draw;
**Gauntlet** the functions that change the progress, `DataVersion`, and the client that
polls by version and receives pointers encoded later.

**ServerRun** is `runRoot` from the PID lock to the end, game after game and address after
address, with the goroutine of each server, requests that are served while the next game is
set up (their handlers read maps that it writes), signals, and on Windows the request to
stop. The channel of the stop signal has no buffer, so that a signal is taken by `AwaitStop`
or lost, and a request waits (`StopRequested`).

### The launcher and its processes

**Launcher** models the processes on a PC: the launcher (`main`, the program counter of
`runRoot`, and `handler`, its signal handler), the `launcher-config` processes, the
config-admin-agent (`admin`) and the launcher-agent of each run of the launcher. They
share what is changed on the PC (`applied`) and the file of revert flags (`store`); a
flag is the setting it reverts. `ConfigRevert` is run by four kinds of actors, and
`revert` says where each of them is in it:

| Code | Actions |
|---|---|
| `root.go` waits, clean-up, flush | `Start`, `Waited`, `CleanedUp`, `FlushCache` |
| `hosts.go`, `cert.go`, `isolateUserData.go`, `RunSetUp` | `SetUp`, `StoreFlags`, once per group of settings |
| `LaunchAgentAndGame` | `StartAgent`, `StartGame` |
| deferred `Config.Revert`, signal handler, exit | `CheckFails`, `SignalLauncher`, `Exit` |
| `KillAgent`, `ConfigRevert` | `Interrupt`, `Kill`, `Load`, `Delete` |
| `runSetUp`, `runRevert` of `launcher-config` | `ChangeLocal`*, `SetUpAdmin`, `RevertAdmin`, `StopAgentIfNeeded` |
| `Watch` and the signal handler of the agent | `SeeGame`, `SeeEnd`, `AgentExits`, `SignalAgent`, `Unlist` |

A `launcher-config` whose parent has ended goes on as an orphan. `KillAgent` finds the
agent by its pid file, which an agent whose signal handler has ended has removed
(`unlisted`): from then on nobody can kill that agent, though its `Watch` goes on.
`troubles` collects what went wrong by itself, each kind at most once; a step that fails
because of the state (a backup that is there, an agent that runs already) is no trouble.
`overlap` is set when a `launcher-config` starts while another runs, and `unknowing` when an
admin agent is started while hosts or certificate are changed: it takes what it has not done
itself as reverted (`ipc.go`). Two simplifications:
`Config.Revert` reads the file twice in a row (whether it has flags, and which), here
once; and `launcher-config stopAgent` is a part of the step that starts it.

### The files and processes of a PC

**Hosts** is the hosts file with its lines: `AddHosts` with its backup, `RemoveHosts` with
both its ways back, two processes and the lock that neither waits for, the user's edits, and
a stop of a process between any two steps. **PidLock** is `Lock`, `Unlock`, `Process` and
`Kill` system call by system call, so that a name can come to mean another file between two
of them. **BattleServers** is `battle-server-manager` (start, clean, remove, remove-all)
over the directory of configurations, servers that die or do not answer, and the launcher
that finds which server it has started by comparing two listings. **Config** is
`launcher-config`: `setup` and `revert` part by part, the two renames of each folder, the
game's certificate store, the undo of what was done when a part fails, and the goroutine
that undoes on a signal. **AdminAgent** is two `launcher-config`s, the elevated agent that
serves one connection at a time, what it remembers of what was set up through it
(`mappedIps`, `addedCert`), and `config-admin` run without it; any of them can be killed
while a command is on its way. **Connection** is the launcher's way to a server: discovery,
the host it was given or the server it starts; its certificate; `MapHosts`, `AddCert`; the
cache of resolved names; and the check of every domain before the game. Servers come and go
meanwhile, with a new identity each time.

## 3. The runs

| Run | Instance | Distinct states | Result |
|---|---|---|---|
| `safe_ordered_map` | 2 goroutines, 4 keys, 2 values | 6,962 (symmetric) | passes |
| `mutexes_and_sessions` | `part` mutexes: 2 goroutines, a known and a new key, 3 mutexes; sessions: 2 users, 2 ids, 2 requests, lifetime of 2 ticks | 403,612 | passes |
| `key_mutex_fresh` | 2 goroutines, 1 new key, 2 mutexes | | violates `MutualExclusion` |
| `advertisements` | 2 users, 2 matches, 2 requests, 2 titles | 934,545 (symmetric) | passes |
| `advertisements_live` | the same with 1 match, no symmetry | 87,440 | passes |
| `messages` | 2 sessions (1 notified), 2 connections, 2 messages, 1 poll, channel of 1 | 192,500 | passes |
| `messages_logout` | 1 session, no connection, 2 messages, 2 polls, channel of 100 | | violates `NoticesInDifferentResponses` |
| `launcher` | two PCs: hosts, certificate of the PC, metadata, profiles; or the user's certificate alone; 2 starts, 2 troubles | 807,642 | passes |
| `launcher_cleanup` | hosts (mapped by hand), metadata; 2 starts, no trouble | | violates `CleanupStopsAdminAgent` |
| `server_state` | ten parts, below | 499,782 | passes |
| `host_pc` | six parts, below | 1,371,599 | passes |
| `config_store` | part `config` of `host_pc` | | violates `StoreCanBeRestored` |

A type invariant is stated in every module, and as `TypeOK` or `PartTypeOK` of the
instances; the runs list only what could be wrong without one.

What they show:

- **safe_ordered_map.** `keyMap` stays the inverse of `keys`; every copy a reader loads has
  a value for each key, and each key once; the copies follow one another as the abstract
  map. Four keys leave two behind the one that is deleted, so that their order and both
  their places matter.
- **mutexes_and_sessions.** For a key that has a mutex the lock is a read-write lock (by
  refinement) and waiting ends. For a new one, sections exclude each other until a second
  goroutine that missed it replaces its mutex. Two goroutines suffice for the race; the third
  mutex is for the one that replaces. A user whose logins do not overlap has one session;
  what has expired leaves, unless the client returns or the sweeper's ticker was given an
  interval of zero. A lifetime of two ticks lets two sessions expire one after another, which
  the sweeper meets in one round or two.
- **advertisements.** No user is added to a match that searches cannot reach; no match
  stays listed with nobody in it; a user whose requests do not overlap is in one match at
  most, outside of AoE4. Two matches let a user be in one while the other is emptied; two
  concurrent requests let any two handlers meet at any of their steps. A `Begin` reuses a
  request once it is answered, so sequences of requests are unbounded; only the number of
  matches ever stored is bounded (by `AdvIds`).
- **advertisements_live.** Every request is answered: no handler leaves a lock taken.
  Symmetry is not used, since it is unsound for liveness.
- **messages.** The entry of a session never leads to a connection whose pointers are nil;
  a message is in the channel or with one poll, once, or was written, or was dropped on a
  connection closed meanwhile; a message's goroutine ends unless the connection has locked
  itself, the server has crashed, or the channel is full. That list of exceptions is tight:
  each of them is reached. The capacity is 1 so that a full channel takes two messages.
- **launcher.** When every process has ended, what is still changed on the PC is in the file of
  flags; the elevated agent does not outlive the others; a game starts with all of its settings
  and keeps them; after a game all is reverted without another start. Each property names what
  it excuses, and each excuse is needed: without it TLC finds the behaviour, here or with three
  starts and every kind of trouble. They say where the code is exposed: a signal to the
  launcher, after which an orphaned `launcher-config` makes settings nobody stores; two reverts
  at once; a second start during the game, whose deferred revert takes the settings from under
  it; the headless agent, which skips a revert that needs the administrator once the elevated
  agent is gone; and that agent's successor, which reports as reverted what it has not done
  itself, after which the flags are deleted with the hosts still mapped. Two starts let one
  launcher meet the remains of another, two troubles let a failure hit the revert of another
  one.

**server_state**, part by part (two requests at a time unless said otherwise):

| Part | Bounds | What it shows |
|---|---|---|
| file | 2 values of a user, 3 contents, 2 callers, 2 stops | `AnsweredIsSaved`: a stop loses at most what was not answered yet, or everything if it hits the moment between truncation and write |
| items | 2 items, one without attributes; 2 loadout ids; 2 statistics, one fixed | `ToldIsKept`: what the client was told it owns is what it will be told, also after a restart, except after a panic, for a statistic set twice, and for loadouts once loaded. `DrawsEnd`: an id is drawn in the end, unless somebody has drawn one that the loop refuses |
| labyrinth | 5 rows, 4 columns, plans of 2 to 4 | `PathsLeadToTheBoss`: for every draw, no dead end, no unreachable mission, no crossing |
| gauntlet | 2 missions, 4 versions, a client that polls | `SameVersionSameData`: a client with the server's version has the server's data |
| match | 2 users, 2 titles, 2 starts, 4 calls | `NobodyIsMissed`: who has a session throughout is sent what concerns him. `ObserversAreKept`: updates lose no observer |
| lobby | 2 users, 2 races, 2 entries each | `InviteeKnows`: the last message about an invitation says whether it stands |
| chat | 2 users, 4 requests | `ViewsSettle`: when nothing runs, the clients see the members there are |
| presence | 2 users, 2 presences, 3 requests | `PresenceSettles`: no client keeps a presence that was replaced |
| authentication | 3 modes, 3 logins, validity of 2, time to 4 | `LetThroughIsKnown`: who is let through was accepted or has a fresh cached answer. `AnsweredOnce`: one answer per login, two if the deferred logout fails |
| run | 2 games, 2 addresses, one of them the unspecified one, 2 requests | `StopRequestsEnd`: a request to stop ends the server, whenever it comes |

Two users are enough where a property relates one user's state to what another believes;
the lobby and the chat need a second entry of the same user, which their bounds allow. The
bounds on requests (`MaxCalls`, `MaxChats`, ...) exceed the number that run at once, so that a
request can follow two that met.

**host_pc**:

| Part | Bounds | What it shows |
|---|---|---|
| hosts | 5 first files (empty; mapped rightly; mapped elsewhere with another host on the line; the PC's own name with a game's; a comment and a line with too many hosts), 2 processes, 1 edit, 2 set-ups, 1 stop | `UserLinesReturn`: with nothing set up the file holds the user's lines |
| pid | 3 processes, 1 watcher | `AtMostOneRuns`, unless a file was taken away that another had open. Two processes and one whose end removes the file are what the race takes |
| battle | 3 servers, 3 managers, `Radix` 10, files up to 10.toml | `RunningAreListed`: a running server has a file. `SparesOthers`: the launcher has its own one removed |
| config | 2 profiles, 3 groups of parts, 3 commands, 2 faults | `OwnFoldersReturn`: the user's folders are active, or safe in the backup |
| admin | 2 `launcher-config`s, 2 agents, 3 requests, 1 mishap | `AgentUndoesItsOwn`: a revert that the agent reports undoes all that was set up through it |
| connection | 2 domains, 2 machines, one of them this PC, 2 runs of a server on each, 1 disturbance | `LaunchReachesServer`: the game's domains lead to the chosen server, under a trusted certificate |

As in the launcher's properties, what is excused is named in the property, in a variable
that the step which causes it sets, and was found to be needed by leaving it out.
**config_store** checks the one promise of this part that does not hold (section 5).

Fairness. `advertisements_live` assumes that a handler's next step is taken (the Go
scheduler; weak fairness) and that a goroutine waiting for an advertisement's lock gets
it if it is released again and again (`sync.RWMutex` serves waiters; strong fairness).
`mutexes_and_sessions` assumes the same of its goroutines, that time passes and that the
sweeper runs; requests owe nothing. `messages` assumes it of every goroutine in the server,
of a poll because it has a timer, and nothing of the clients: they need not connect, close
or poll. `server_state` assumes that a goroutine waiting for the mutex of the generators
gets it if it is free again and again (strong fairness), and in the part `run` that the
goroutine of `runRoot` goes on and that the second for which `Shutdown` waits passes (weak
fairness); handlers need not end. `launcher` assumes that each process goes on with its
next step, and that a wait with a time limit ends; not that the user starts the launcher
again or ends the game, nor that anything goes wrong. `host_pc` has safety alone: its
processes may stop anywhere.

Deadlock is checked in `safe_ordered_map`. The others may stop: the bound on matches makes
Host wait, a crash or a panic ends the process, goroutines that lock themselves stay, the
processes of a PC end, and the parts run out of requests.

## 4. The proofs

The theorems hold for every value of the constants, under the named assumptions of the
modules: `None`, `NoThread`, `NoSession` and the like are not elements of the sets beside
them, bounds are natural numbers, `Lifetime`, `MaxTime`, `Capacity` and `Radix` are positive,
the keys known to KeyRWMutex have a mutex each, `KeyOrder` is a sequence, Match has finitely
many users (it makes sequences of them), no command of Config mixes the administrator's part
with folders, the user's lines of Hosts are not marked as the program's and are comments or
have a host (`ParseLine` takes no others), and a game has finitely many hosts. A bound on
requests, starts or failures is thus any number. Each component has one inductive invariant
(`IInv`, `FileIInv`, `ChatIInv`, ...), with a lemma per action. TLC has checked each of them
before it was proved.

**SafeOrderedMap_proofs.** `IInv` is the conjunction of the type invariant, `LockInv` (the
lock is held by the goroutine that is inside a write, and by nobody else) and the four
properties: `KeyMapIsInverse` and `ReadersSeeWholeMap` of the run, and
`PublishedWhenReleased` and `IterationIsCurrent`, which are only proved. None is inductive
alone: `PublishedWhenReleased` is what makes
`Publish` establish `ReadersSeeWholeMap` from `KeyMapIsInverse`, `LockInv` is what keeps a
second writer from changing the keys `IterAndStore` was given. The step over `Delete`
rests on `OrderedKeysTheorems`: what `RemoveAt` does to the range, the length and the
places of an injective sequence. Theorems `TypeCorrect`, `KeyMapCorrect`,
`ReadersCorrect`, `PublishedCorrect` and `IterationCorrect` state the five invariants.
`ImplementsOrderedMap` is the refinement of OrderedMap: only `Publish` changes what readers
load, so that the proof has to carry what the write did from its step to the publication.
`PendingIsOneWrite` does: the entries of `m.data` follow the published ones by one
addition, replacement or removal (`OneWrite`). It holds after a write because nothing was
pending before (`PublishedWhenReleased`), and the three lemmas named `...IsOneWrite` say
which of the three it was; the one of `Delete` needs that `keyMap` gives the right place.

**LocksSessions_proofs**, KeyRWMutex. Two creators may give a key two mutexes, so that
exclusion is stated for the keys that are not `overwritten`, and `LockIInv` says of these
what makes it inductive: two keys never share a mutex (`OwnMutex`), a goroutine that waits
or is inside refers to the mutex its key has now (`HasCurrentMutex`), and who is inside
holds it (`InsideHolds`). A known key is never overwritten, since only a look-up that
finds none leads to `Create`. `ExclusionCorrect` follows, and that no fatal `Unlock`
happens without an overwrite. `ImplementsRWLock` is the refinement: the initial states map
to initial states, and each step to `EnterWrite`, `EnterRead`, `LeaveWrite` or `LeaveRead`
of the goroutine's key, or, when it is not a known one or the step is a call, a look-up or
a creation, to a stutter.

**LocksSessions_proofs**, Sessions. `OneLogin` (two requests in progress never log in the
same sequential user) and `OneSession` (such a user has at most one session; the one a
login is about to delete, and none when it is about to create) are inductive together with
`CallsWellFormed`. That a new id is not doomed and not named by any request (`UnusedId`)
is what the sweeper's and the other requests' steps need. `DoomedHaveExpired` is only
proved: it is a conjunct that no other needs. The type of the ticker is the one place with
arithmetic: `MinIsLeast` takes the nearest expiry from the well-foundedness of `<` on
`Nat`. Theorems `SessionTypeCorrect`, `OneSessionCorrect`, `SweepCorrect`.

**ServerState_proofs**, UserFile. `AnsweredIsSaved` needs to know what the next write will
bring: `FileLoadedInv` (of every value the cache has what was answered, or, while its lock
is held, what is not answered yet), `FileLoginInv` (what a login has made of the values
that come before the rest, and that between its writes the file holds the cache),
`FileCallsInv` (who holds which lock) and `FileDiskInv` (when the file can be empty). A
stop keeps the file and the history only; that an empty file without a login in progress
means a stop inside a write is what carries `AnsweredIsSaved` over it. Theorems
`FileTypeCorrect`, `AnsweredAreSaved`.

**ServerState_proofs**, Authentication. `StepsInOrder` says how often the login was
answered at each of its steps, and `DeadlineWasHeard` that a deadline is that of the last
answer of the official server. Theorems `AuthTypeCorrect`, `LetThroughCorrect`,
`AnswerCorrect`.

**ServerState_proofs**, the other parts, whose properties say that what a client has heard is
right once nothing is in progress. An inductive invariant has to say so of every moment:

- *Items*: `ToldIsKept` is inductive with the types. `OwnedIsKept`.
- *Labyrinth*: the columns that are placed are linked (`ColumnsLinked`), and so is the one that
  is being filled, from its first pass on (`FillingLinked`). The last loop takes away one of
  two paths that cross; `Paths` (each mission keeps a path from and to it, and no pair crosses)
  follows because neither of the two straight paths beside a crossing is taken away. It holds
  of labyrinths of every size: `LabyrinthsAreWhole`.
- *Gauntlet*: a client with the server's version has its data also while it polls
  (`ClientIsBehind`), and a poll with that version points at the current challenge
  (`PollPoints`), so that what is encoded later is of that version or of one that the client
  will poll again. `VersionsTellData`.
- *Match*: whoever a request must tell is among those it has still to look up or has found
  (`TellsWhoIsDue`); a request about to observe has the set of a start that there was.
  `BroadcastsReachAll`, `ObserversStay`.
- *Lobby*: between requests the last message about a pair says whether the invitation stands,
  and during one the invitation is as its message will say (`ToldOrAboutTo`). It needs that the
  `Peer` a request has loaded is still the inviter's (`LoyalPairs`). `InviteesKnow`.
- *Chat*: a client knows who is in the channel except for what a handler has still to tell it
  (`ChatViewsRight`, `ChatPending`), and what a handler is about to tell is right
  (`ChatTidingsRight`), since the handlers it would clash with are `overlapped`
  (`ChatOverlapsKnown`). `ViewsOfTheChannelSettle`.
- *Presence*: the same of presences and friends (`PresenceKnown`, `FriendsKnown`); a user that
  has not mingled has one handler, which sends what his presence is (`PresenceOneHandler`).
  `PresencesSettle`.

**Messages_proofs.** `ListedAreServed`: a listed connection has its session for token, and its
`Handle` has not deleted the entry yet; so two connections never lead to each other's entry.
`DeliveredOnce` needs that what a channel or a poll holds was stored for that session
(`HeldWasStored`), is held once (`HeldOnce`), and that what was stored is held
(`StoredIsHeld`): a step that moves a message is then a one-to-one map of the places that
hold one (lemmas on Append and on taking the first). Theorems `TypeCorrect`,
`ListedConnectionsAreOpen`, `MessagesAreDeliveredOnce`.

**HostPC_proofs**, PidLock. Without a mistake all open files are the one that has the name
(`OpenIsNamed`), and from `Lock` to `Unlock` it is locked by its process (`LockHeld`); two
that run would have locked the same file. `OwnFileStep` and `LeavesStep` say what a step
does to the files of the others. Theorems `PidTypeCorrect`, `OneRunsCorrect`.

**HostPC_proofs**, the other parts:

- *BattleServers*: whenever a manager is at work, a running server that is in no file is the
  one it is about to write (`RunsAreKept`), and the file it is about to delete is of one that
  no longer runs (`ManagerRight`). That the next index is free unless the names mislead rests
  on a lemma (`Highest`) that one of finitely many indexes has the last name, by the
  well-foundedness of `<`; hence any number of files and any `Radix`. What is listed and runs
  was there when the launcher looked, or is its own (`NewIsOwn`). `RunningServersAreListed`,
  `OthersAreSpared`.
- *AdminAgent*: an agent remembers everything that is there by its hand (`AgentsRemember`);
  the lemmas named `...Outcome` say what each part of `config-admin` can leave.
  `AgentsUndoTheirOwn` is an action property.
- *Connection*: in the loops over the domains the ones that are done lead to the server, or
  one has asked for the certificate (`DoneAreChecked`), by addresses that are cached and
  still what the domain resolves to (`CacheIsCurrent`). `LaunchesReachTheServer`.
- *Hosts*: `AddHosts` works line by line, so that the module defines what it makes of a file
  by functions that count up the lines. That such a function exists, and what holds of it, is
  proved from the well-foundedness of `<` (`StepsExist`, `ByCounting`). On it stand
  `TakeLineKeeps` (a line that is commented out, and the rest of it that is kept, become the
  line again) and `AddedKeeps`: taking out of what `AddHosts` has written what is marked gives
  the user's file back, whatever is in it. The invariant `HostsAgree`, as long as nothing has
  gone wrong: who has the two files locked (`LocksOfHosts`); a backup is not taken away while a
  process adds (`BackupStays`); what is in the file, and what a process is about to write, hold
  the user's lines, and are just them when there is no backup or it is about to go (`FileHolds`,
  `TasksHold`); the backup has them unless the file was changed late (`BackupHolds`).
  `UserLinesCorrect`, for any files, edits and number of processes.
- *Config*: as long as nothing that the property excuses has happened (`ConfigCore`), what a
  command has done and what it has left to do make up its parts, and its undo takes back what
  is done (`TasksAgree`). Each folder is not there, one of the LAN's, or the user's, put away
  when its part is set up and in its place when not (`Settled`); a part is set up when its flag
  is kept, unless the command has changed that and not undone it (`Status`). In the part at
  work the folders already exchanged are ahead of the others (`WorkedOn`), and the one in hand
  is `Halfway`; that is enough for a failure at any renaming to lead back, one folder after the
  other. It needs that the administrator's part, whose failure may undo nothing, is not in one
  command with folders (`ConfigAssumption`), as the launcher does it. `OwnFoldersCorrect`.

**Launcher_proofs.** `LauncherInv` has three parts. The values stay in range
(`LauncherTypes`). `Turns`: an actor's `ConfigRevert` moves only when its turn has come, the
launcher's in clean-up and in its deferred revert, the agent's after `Watch` or a signal; the
agent of a run is started once; only the launcher kills one. And unless what
`LeftoversAreStored` excuses has come about, `Left`: one `launcher-config` runs at most, and it
sets up for the main goroutine (`SetsUp`: changed is what is stored and what it has done so
far), reverts at once what could not be stored (`RevertsAtOnce`), or reverts the file
(`RevertsStored`: nothing is changed that is not in it); with none running, what is changed is
stored; and an admin agent that runs knows all that is for it to revert (`AdminKnows`), without
which its success would delete flags that are needed. The set-up of a group is the
administrator's as a whole or not at all, since a PC's certificate is trusted in one store
(`SettingsAssumption`); a group that mixed both could fail half done. What has befallen stays
(`HistoryStays`), so a step need only be followed while nothing has. `LauncherInvariant`,
`LeftoversCorrect`, for any number of starts and troubles.

The other three properties rest on `Order`, which holds while nobody has been signalled or
killed and no two `launcher-config` have run at once (`OrderCorrect`): one agent runs at most,
the one a launcher interrupts it kills next, so the clean-up leaves neither an agent nor a
`launcher-config` behind, and the launcher that sets up after it is alone. On it stand

- `Starts` for `GameStartsSetUp`: from the clean-up on there is no game, the agent just started
  does no more than wait for it, the groups before the next are made, and the `launcher-config`
  at work makes what it does not find (`Makes`). `GameStartsCorrect`.
- `Ends` for `AdminAgentEnds`: where the file is empty and an agent runs, the launcher is in its
  set-up or its deferred revert and will stop it (`StopsIt`). The first group that is not empty
  is the administrator's (`FirstIsAdmins`), and with an empty file nothing of it is in order
  (`NoneYet`, from `Left`), so the first flags that are stored are among those whose revert stops
  the agent. That fails when the user has mapped the hosts by hand, as section 5 says; hence the
  hypothesis `Manual = {}`, as in the run. `AdminEndsCorrect`.

`GameKeepsSetUp` has an invariant of its own, `Keeps`: up to the first game only the launcher
changes settings (`OnlyMain`), and from its start until it has ended nobody does
(`Undisturbed`). It needs neither `Order` nor the absence of kills, after which there is no game
at all. `GameKeepsCorrect`.

**Advertisements_proofs.** `IInv` strengthens the type invariant and the safety properties
with `Distinct` (the store and each match's peers have no duplicates), `CreatedInv`
(whatever is listed or named has been stored, so a new id is really new), `LockInv` (the
lock of a match is held by the request that is inside its section), `InsideIsListed` (a
match does not go away during a section) and `HostHistory` (peers, and the user of a
pending `SetHost`, have been peers). `NoGhostPeers` needs the lock: only the section that
emptied a match deletes it, and none adds in between. `HostWasPeer` needs the history of
the users between the check and the set. There is one lemma per action and one for the
steps that change the request alone. Theorems `TypeCorrect`, `NoGhosts`, `NoneAbandoned`,
`HostCorrect` and `PeerAddCorrect`; what the last two state is in no run. `OneMatch` states
`SequentialUserInOneMatch`, by a second invariant on top of `IInv`: a user whose requests
come one after the other is `Alone`, that is, no other request is about to add it, and its
own one `Knows` in which matches it still can be. At the start of the search these are the
listed ones (because of `NoGhostPeers`, a match missing from the list has no peers), then
those not looked at yet, then the one that is left, then none.

Every safety property of the runs that pass is proved. Only model-checked: ServerRun, which has
liveness alone, and the four properties of section 5 that do not hold.
Liveness stays with TLC, since the prover has neither fairness nor `ENABLED` within reach.

## 5. Where the code and its comments differ

- `keyRWMutex.go:51` stores a new mutex without looking again under the exclusive lock.
  Two goroutines that lock a key first are then inside together, against
  "UnsafeNewPeer requires advertisement write lock" (`models/advertisement.go:384`), and
  the second `Unlock` stops the process. Run `key_mutex_fresh`.
- `logout.go:34-36` says that a delay of 100 ms makes the notifications of a logout "go in
  different responses". It does while a `readSession` is waiting; otherwise they gather in
  the channel and go in one. Run `messages_logout`.
- `launcher/internal/cmd/root.go:452-456` says of the initial clean-up "Ensure: No running
  config-admin-agent nor agent processes". It kills the launcher-agent; the
  config-admin-agent it stops only by a revert of hosts or certificate. Where both were in
  order nothing is to be reverted, the agent that was started to flush caches stays, and
  the flush of the next launcher fails because of it. Run `launcher_cleanup`.
- `launcher/README.md:43` says "All possible client modifications are reverted upon the
  launcher's exit." A revert that fails after it has restored the game's certificate store
  undoes that by appending the certificates without a new backup; every later revert then
  fails for want of one (`launcher-config/internal/cmd/revert.go:57`). Run `config_store`.

What else the modules contain of this kind; each is modelled as the code has it, and where
a property is affected, it names it as an excuse.

The server:

- `UpdateState` with a state other than 1 panics on the iterator it has not taken, and the
  start panics at the first peer without a session, after the messages were sent.
- `StartObserving` and `StopObserving` before the first start panic on the nil set of
  observers; the refusal of a stranger goes on to a second answer; `Update` in AoE1 and AoE3
  makes a started match joinable again.
- `sendText` ends in a panic at the first member of the channel without a session.
- `setAvatarStatValues.go:62-64` sets the value of a copy; saved loadouts cannot be loaded,
  after which whatever touches them panics; the loop that draws an id never draws a second
  time, and holds the mutex of all generators while it spins.
- A refusal of the official server counts as an answer and renews the cached deadline; a
  failed deferred logout answers the client a second time.
- `GenerateNodeRows` takes the size of a column from the plan of the one before.
- A signal between `InitializeStopSignal` and the receive is lost. A server that fails to
  listen leaves the process running, and announced. Two games on the default host
  `0.0.0.0` clash: the second query socket cannot be opened, and the server ends. Early
  returns of `runRoot` leave the PID file. The maps of games and announcements are written
  while earlier games are served.
- The sweeper's ticker panics when it is given an interval of zero.

The hosts file:

- A host that the user has mapped rightly already is commented out when another one is
  missing, and not added.
- `AddHosts` writes the new lines over the copy without truncating it, so that the end of a
  longer old file stays. A restoration in place loses the comments of the lines it keeps. A
  failed one removes the backup anyway. A stop inside a write loses lines.

The launcher and what it runs:

- `argsStore.go:61` yields one empty flag from a new file, so that the command of a revert
  has an empty executable. The fallback with `--all` of `ConfigRevert` has no data path, and
  ends with `ErrInvalidDataPath`.
- `FilterServerIPs` returns the id of the address it tried last, not of the one it chose;
  the nil id makes every server acceptable. `StartServer`, when another server holds the
  PID lock, sees its own one end at once and then kills the other.
- `RevertServer` of an empty path removes what `path.Join()` gives.
- The index of a battle server's file is one more than that of the file listed last: after
  9.toml and 10.toml the next one overwrites 10.toml. Automatic names, "Server (i)", are
  compared with lower-cased ones, so that a third automatic server fails. `remove` deletes
  the file of a server it could not kill.
- `launcher-config`: a set-up whose part in `config-admin` fails (run without the agent)
  undoes nothing; a crash that leaves a `.lan` file makes every later restoration of the
  certificate store fail; a restoration without a backup swaps in an empty folder; the
  revert through the agent does not hand over that it should go on after a failure.
- On Linux `UntrustCertificates` returns what it removed only if the flush FAILS, and fails
  where the file is not there. After a revert whose hosts part failed nothing is trusted
  again, and every retry with both settings fails at the certificate before it reaches the
  hosts; only an elevated `revert -a` passes. A set-up whose flush failed leaves a
  certificate that the agent does not know of, and reports as reverted.
- The handler of the config-admin-agent's signals gives up its PID lock, and the agent goes
  on; an agent that holds the lock but was never reached counts as stopped; the end of an
  agent removes the socket by name, whoever's it is by then.

## 6. What is not modelled

- The contents of messages, responses, settings of a match, certificates and data, and
  every conversion between them, except where a property needs one (lines of the hosts
  file, items and loadouts through JSON).
- Responses of the handlers in Advertisements: a handler that answers an error and goes on
  (Join does, for a wrong password) only goes on.
- The `SafeMap` and `SafeSet` of `Map.go`: they hold their lock for the whole of an
  operation, so each use is one step. `ReadOnlyOrderedMap` never changes.
- In Match and Lobby the fields that are only copied, and reports of results; in Presence
  `SetPresenceProperty` and the profile fields; upgrades of a user's data, since every
  version in the code is 0.
- The tables loaded at start, the constant responses, credentials (a sweeper like that of
  the sessions), the list of battle servers in the server with its LAN flag
  (`MainBattleServer.LAN` drops its read lock before it writes), contents of logs and
  announcements: read-only, one field behind one lock, or input and output.
- `server-genCert`, `battle-server-broadcast`, `config-helper`, `tools`, `build`:
  no state that outlives a call.
- Windows and macOS where they differ (locks, processes, stores, the pipe of the agent);
  the modules follow Linux, except for a folder in use that cannot be renamed, and for the
  request to stop.
- Of the launcher: certificate files given as arguments of the game, the set-up and revert
  commands, several games at once, a pid file removed after its process was replaced
  (PidLock has it by itself), a restart of the PC between two programs of the launcher
  (Config and Hosts have stops of one). Messages to an agent that is killed before it reads
  them are lost with it.
- The parts of `MCHostPC` are not composed with Launcher, which takes each of them for one
  step that succeeds or fails.

## 7. The plan

What could come next, in order of value:

1. Launcher with the store of Config in place of its one step: which failures of a part
   leave flags that no revert can satisfy.
2. The refinement of RWLock by the sections of Advertisements and Match, so that KeyRWMutex,
   composed, explains their lock; an atomic file as the abstraction of UserFile.
3. The Windows lock and process look-ups as variants of PidLock.
