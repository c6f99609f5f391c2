------------------------------ MODULE Sessions ------------------------------
(***************************************************************************)
(* The sessions of one game title: server/internal/models/baseSession.go   *)
(* and session.go, with the handlers that create, refresh and end them     *)
(* (login/platformlogin.go, login/logout.go, router/sessionMiddleware.go). *)
(*                                                                         *)
(* A session is an id, a user and an expiry.  The sweeper goroutine, which *)
(* the first CreateSession starts, waits for the earliest expiry, collects *)
(* the sessions that have expired, sets its ticker to the next expiry, and *)
(* only then deletes what it has collected, one session at a time.         *)
(*                                                                         *)
(* Time passes in units of the clock's resolution, and an expiry is kept   *)
(* as the time left: 0 when it is the present time, -1 when it is past.    *)
(* Ids are 30 random characters: an id is drawn again here only when it is *)
(* unused and nothing refers to it.  nextExpiration reads the expiries     *)
(* one by one; as each is compared with the same instant, one step does.   *)
(***************************************************************************)
EXTENDS Integers, FiniteSets, FiniteSetsExt

CONSTANTS
  Users, SessionIds,
  SessionRequests,  \* the requests that can be in progress at once
  Lifetime,         \* sessionDuration, in units of the clock
  NoSession         \* no user, and no id

ASSUME LifetimeAssumption == Lifetime \in Nat \ {0}
ASSUME NoSessionAssumption == NoSession \notin Users /\ NoSession \notin SessionIds

VARIABLES
  sessionUser,     \* per id: the user of its stored session, NoSession when there is none
  timeLeft,        \* per id: the time left until its expiry
  sessionCall,     \* the requests in progress
  sweeper,         \* off, starting, waiting, deleting, panicked (the server has stopped)
  timer,           \* the time left until the ticker fires
  doomed,          \* alreadyExpired: what the sweeper has still to delete
  refreshed,       \* history: the doomed sessions that were refreshed after being collected
  sequentialUsers  \* history: the users that have never had two logins in progress

sweepVars == <<sweeper, timer, doomed>>
sessionVars == <<sessionUser, timeLeft, sessionCall, sweepVars, refreshed, sequentialUsers>>

NoSessionCall == [pc |-> "idle", user |-> NoSession, id |-> NoSession]

SessionCall == [pc : {"idle", "find", "delete", "create", "reset", "handle"},
                user : Users \cup {NoSession}, id : SessionIds \cup {NoSession}]

StoredSessions == {i \in SessionIds : sessionUser[i] # NoSession}

SessionsOf(u) == {i \in SessionIds : sessionUser[i] = u}

SessionsInit ==
  /\ sessionUser = [i \in SessionIds |-> NoSession]
  /\ timeLeft = [i \in SessionIds |-> -1]
  /\ sessionCall = [r \in SessionRequests |-> NoSessionCall]
  /\ sweeper = "off" /\ timer = 0 /\ doomed = {}
  /\ refreshed = {}
  /\ sequentialUsers = Users

\* store.Delete, whoever asks for it.
RemoveSession(i) ==
  /\ sessionUser' = [sessionUser EXCEPT ![i] = NoSession]
  /\ timeLeft' = [timeLeft EXCEPT ![i] = -1]

SessionGoes(r, pc, i) == sessionCall' = [sessionCall EXCEPT ![r].pc = pc, ![r].id = i]

SessionAnswered(r) == sessionCall' = [sessionCall EXCEPT ![r] = NoSessionCall]

-----------------------------------------------------------------------------
\* Platformlogin: GetByUserId, Delete, Create.
LoggingIn(u) == \E r \in SessionRequests : sessionCall[r].user = u

BeginLogin(r, u) ==
  /\ sessionCall[r].pc = "idle"
  /\ sessionCall' = [sessionCall EXCEPT ![r].pc = "find", ![r].user = u]
  /\ sequentialUsers' = {v \in sequentialUsers : ~(v = u /\ LoggingIn(u))}
  /\ UNCHANGED <<sessionUser, timeLeft, sweepVars, refreshed>>

\* GetByUserId returns whichever session of the user the iteration meets first.
FindSession(r) ==
  /\ sessionCall[r].pc = "find"
  /\ \/ \E i \in SessionsOf(sessionCall[r].user) : SessionGoes(r, "delete", i)
     \/ SessionsOf(sessionCall[r].user) = {} /\ SessionGoes(r, "create", NoSession)
  /\ UNCHANGED <<sessionUser, timeLeft, sweepVars, refreshed, sequentialUsers>>

\* Mutant: the previous session is kept.
SkipDelete(r) ==
  /\ sessionCall[r].pc = "delete"
  /\ SessionGoes(r, "create", NoSession)
  /\ UNCHANGED <<sessionUser, timeLeft, sweepVars, refreshed, sequentialUsers>>

DeleteSession(r) ==
  /\ sessionCall[r].pc = "delete"
  /\ RemoveSession(sessionCall[r].id)
  /\ SessionGoes(r, "create", NoSession)
  /\ UNCHANGED <<sweepVars, refreshed, sequentialUsers>>

UnusedId(i) ==
  /\ sessionUser[i] = NoSession
  /\ i \notin doomed
  /\ \A r \in SessionRequests : sessionCall[r].id # i

\* CreateSession stores a session under a new id; the first one starts the sweeper.
CreateSession(r) ==
  /\ sessionCall[r].pc = "create"
  /\ \E i \in SessionIds :
       /\ UnusedId(i)
       /\ sessionUser' = [sessionUser EXCEPT ![i] = sessionCall[r].user]
       /\ timeLeft' = [timeLeft EXCEPT ![i] = Lifetime]
       /\ refreshed' = refreshed \ {i}
  /\ sweeper' = IF sweeper = "off" THEN "starting" ELSE sweeper
  /\ SessionAnswered(r)
  /\ UNCHANGED <<timer, doomed, sequentialUsers>>

-----------------------------------------------------------------------------
\* Any other request: SessionMiddleware finds the session and resets its expiry, then
\* the handler runs.  A request without a session is refused at once.
BeginRequest(r, i) ==
  /\ sessionCall[r].pc = "idle"
  /\ i \in StoredSessions
  /\ SessionGoes(r, "reset", i)
  /\ UNCHANGED <<sessionUser, timeLeft, sweepVars, refreshed, sequentialUsers>>

\* ResetExpiryTimer looks the session up once more.
ResetExpiry(r) ==
  /\ sessionCall[r].pc = "reset"
  /\ LET i == sessionCall[r].id IN
       /\ timeLeft' = [timeLeft EXCEPT ![i] = IF i \in StoredSessions THEN Lifetime ELSE @]
       /\ refreshed' = refreshed \cup ({i} \cap doomed)
       /\ SessionGoes(r, "handle", i)
  /\ UNCHANGED <<sessionUser, sweepVars, sequentialUsers>>

HandleSession(r) ==
  /\ sessionCall[r].pc = "handle"
  /\ SessionAnswered(r)
  /\ UNCHANGED <<sessionUser, timeLeft, sweepVars, refreshed, sequentialUsers>>

\* Logout ends with the deletion of its session.
SessionLogout(r) ==
  /\ sessionCall[r].pc = "handle"
  /\ RemoveSession(sessionCall[r].id)
  /\ SessionAnswered(r)
  /\ UNCHANGED <<sweepVars, refreshed, sequentialUsers>>

-----------------------------------------------------------------------------
\* The sweeper.
ExpiredSessions == {i \in StoredSessions : timeLeft[i] < 0}

NextExpiration ==
  IF StoredSessions \subseteq ExpiredSessions THEN Lifetime
  ELSE Min({timeLeft[i] : i \in StoredSessions \ ExpiredSessions})

\* NewTicker and Reset panic when the interval is not positive.
SetTicker(pc) ==
  /\ timer' = NextExpiration
  /\ sweeper' = IF NextExpiration = 0 THEN "panicked" ELSE pc

StartSweeper ==
  /\ sweeper = "starting"
  /\ SetTicker("waiting")
  /\ UNCHANGED <<sessionUser, timeLeft, sessionCall, doomed, refreshed, sequentialUsers>>

Collect ==
  /\ sweeper = "waiting" /\ timer = 0
  /\ SetTicker("deleting")
  /\ doomed' = ExpiredSessions
  /\ refreshed' = {}
  /\ UNCHANGED <<sessionUser, timeLeft, sessionCall, sequentialUsers>>

\* Mutant: the sweeper returns when no session is left, though it was started once.
DeleteExpiredUntilEmpty ==
  /\ sweeper = "deleting"
  /\ \/ \E i \in doomed :
          /\ RemoveSession(i)
          /\ doomed' = doomed \ {i}
          /\ UNCHANGED sweeper
     \/ /\ doomed = {}
        /\ sweeper' = IF StoredSessions = {} THEN "returned" ELSE "waiting"
        /\ UNCHANGED <<sessionUser, timeLeft, doomed>>
  /\ UNCHANGED <<sessionCall, timer, refreshed, sequentialUsers>>

DeleteExpired ==
  /\ sweeper = "deleting"
  /\ \/ \E i \in doomed :
          /\ RemoveSession(i)
          /\ doomed' = doomed \ {i}
          /\ UNCHANGED sweeper
     \/ /\ doomed = {}
        /\ sweeper' = "waiting"
        /\ UNCHANGED <<sessionUser, timeLeft, doomed>>
  /\ UNCHANGED <<sessionCall, timer, refreshed, sequentialUsers>>

TimePasses ==
  /\ timeLeft' = [i \in SessionIds |-> IF timeLeft[i] < 0 THEN -1 ELSE timeLeft[i] - 1]
  /\ timer' = IF timer = 0 THEN 0 ELSE timer - 1
  /\ UNCHANGED <<sessionUser, sessionCall, sweeper, doomed, refreshed, sequentialUsers>>

-----------------------------------------------------------------------------
Sweep == StartSweeper \/ Collect \/ DeleteExpired

SessionStep(r) ==
  \/ FindSession(r) \/ DeleteSession(r) \/ CreateSession(r)
  \/ ResetExpiry(r) \/ HandleSession(r) \/ SessionLogout(r)

SessionsNext ==
  /\ sweeper # "panicked"
  /\ \/ Sweep \/ TimePasses
     \/ \E r \in SessionRequests :
          \/ SessionStep(r)
          \/ \E u \in Users : BeginLogin(r, u)
          \/ \E i \in SessionIds : BeginRequest(r, i)

SessionsSpec == SessionsInit /\ [][SessionsNext]_sessionVars

\* Time passes, and the sweeper's goroutine is scheduled; clients need do nothing.
SessionsFairness ==
  /\ WF_sessionVars(sweeper # "panicked" /\ TimePasses)
  /\ WF_sessionVars(Sweep)

SessionsFairSpec == SessionsSpec /\ SessionsFairness

-----------------------------------------------------------------------------
\* The type invariant of the sessions, the requests and the sweeper: no expiry and no
\* ticker is further off than a lifetime, and CreateSession starts the sweeper.
SessionsTypeOK ==
  /\ sessionUser \in [SessionIds -> Users \cup {NoSession}]
  /\ timeLeft \in [SessionIds -> -1 .. Lifetime]
  /\ sessionCall \in [SessionRequests -> SessionCall]
  /\ sweeper \in {"off", "starting", "waiting", "deleting", "panicked"}
  /\ timer \in 0 .. Lifetime
  /\ doomed \subseteq SessionIds
  /\ refreshed \subseteq SessionIds
  /\ sequentialUsers \subseteq Users
  /\ sweeper = "off" => StoredSessions = {}

\* A user whose logins never overlap has one session at most: GetByUserId, which says
\* where the messages for a user go, has no choice.
SequentialUserHasOneSession ==
  \A u \in sequentialUsers : Cardinality(SessionsOf(u)) <= 1

\* What the sweeper is about to delete has expired, unless a request refreshed it after
\* it was collected: nothing is collected early, and an id is not used again meanwhile.
DoomedHaveExpired ==
  \A i \in doomed : i \in StoredSessions => i \in ExpiredSessions \cup refreshed

\* An expired session leaves the store, unless its client comes back or the server stops.
ExpiredLeave ==
  \A i \in SessionIds : i \in ExpiredSessions ~> i \notin ExpiredSessions \/ sweeper = "panicked"
=============================================================================
