-------------------------------- MODULE Match --------------------------------
(***************************************************************************)
(* What becomes of a match once it is advertised: its updates, its start,  *)
(* its observers, the searches that find it and the messages its peers are *)
(* sent (routes/game/advertisement/{update, updateState, updatePlatform-   *)
(* LobbyID, startObserving, stopObserving, findAdvertisements, ...}.go,    *)
(* party/sendMatchChat.go, with models/advertisement.go).  Advertisements  *)
(* has who is in which match and when a match is dropped; here is one      *)
(* match, whose peers come and go.                                         *)
(*                                                                         *)
(* A section under the lock of the match is one step.  What follows it is  *)
(* not locked: the peers are those of the snapshot the section took, and   *)
(* their sessions are looked up one by one, while sessions expire.  A      *)
(* message is sent when it is given to the session (Messages goes on from  *)
(* there).  StartObserving reads, without the lock, the pointer to the set *)
(* of observers, nil before the match first starts and another one at each *)
(* start, and then stores the user in the set it points to.                *)
(*                                                                         *)
(* A request that panics is over, unanswered: SendOrStoreMessage does for  *)
(* a session that was not found, the set of observers if it is nil, and    *)
(* UpdateState for any state but 1, as it ranges over peers that it has    *)
(* not taken.                                                              *)
(***************************************************************************)
EXTENDS ServerConstants, OrderedKeys, FiniteSets

CONSTANTS
  MatchTitles,   \* the titles whose differences matter: AoE1 and AoE3, AoM, others
  MatchRequests, \* the requests that can be in progress at once
  MaxStarts,     \* how often the match starts
  MaxCalls       \* how many requests are made

ASSUME MatchAssumption == IsFiniteSet(Users) /\ MaxStarts \in Nat /\ MaxCalls \in Nat

VARIABLES
  title,
  match,         \* the fields of the advertisement that the handlers decide by
  players,       \* the keys of adv.peers, in order
  observers,     \* per start of the match, the users in its set of observers
  online,        \* the users that have a session
  handler,       \* the requests in progress
  calls,         \* how many requests were made
  seen,          \* history, per user: what the last search found of the match
  watching,      \* history: who observes, and was counted in the set of this start
  missed         \* history: who was not sent a message for all that he had a session

matchVars ==
  <<title, match, players, observers, online, handler, calls, seen, watching, missed>>

Starts == Len(observers)

\* A request: its user, where it is, the users it has still to look up, those it has found,
\* those that must be told, as they have had a session all along, and the set of observers
\* it points to.
Handler ==
  [op : {"start", "platform", "chat", "observe", "idle"}, user : Users \cup {None},
   todo : Seq(Users), slots : Seq(Users \cup {None}), due : SUBSET Users,
   set : 0 .. MaxStarts]

Idle == [op |-> "idle", user |-> None, todo |-> <<>>, slots |-> <<>>, due |-> {}, set |-> 0]

MatchInit ==
  /\ title \in MatchTitles
  /\ match = [started |-> FALSE, joinable |-> TRUE, visible |-> TRUE, observable |-> TRUE]
  /\ players = <<Host>>
  /\ observers = <<>>
  /\ online = Users
  /\ handler = [r \in MatchRequests |-> Idle]
  /\ calls = 0
  /\ seen = [u \in Users |-> FALSE]
  /\ watching = {} /\ missed = {}

IsPlayer(u) == u \in Range(players)

Call(r) == handler[r].op = "idle" /\ calls < MaxCalls /\ calls' = calls + 1
Becomes(r, record) == handler' = [handler EXCEPT ![r] = record]

\* A broadcast to these users starts.
Broadcast(r, op, sender, receivers) ==
  Becomes(r, [Idle EXCEPT !.op = op, !.user = sender, !.todo = receivers,
                          !.due = Range(receivers) \cap online])

\* The end of a request: those it should have told and has not are missed.
Ends(r, told) ==
  /\ Becomes(r, Idle)
  /\ missed' = missed \cup (handler[r].due \ told)

------------------------------------------------------------------------------
(* Updates *)

\* UnsafeUpdateState with state 1: the first such starts the match, with new observers.
Started(m) ==
  IF m.started THEN m ELSE [m EXCEPT !.started = TRUE, !.joinable = FALSE, !.visible = FALSE]

\* A mutant of ObserversAtStart: also a match that has started gets a new set.
ObserversAnew == Append(observers, {})

ObserversAtStart == IF match.started THEN observers ELSE Append(observers, {})

UpdateObservers(started) ==
  /\ observers' = IF started THEN ObserversAtStart ELSE observers
  /\ watching' = IF started /\ ~match.started THEN {} ELSE watching

MayStart == Starts < MaxStarts

\* UpdateState: after state 1 the peers are told; any other state panics once it is set.
UpdateState(r, started) ==
  /\ Call(r) /\ MayStart
  /\ match' = IF started THEN Started(match) ELSE [match EXCEPT !.started = FALSE]
  /\ UpdateObservers(started)
  /\ IF started THEN Broadcast(r, "start", None, players) ELSE UNCHANGED handler
  /\ UNCHANGED <<title, players, online, seen, missed>>

\* Update: all the fields are the request's, whatever the state was; in AoE1 and AoE3 the
\* match is joinable again.  If it starts the match, nobody is told.
Update(r, fields) ==
  /\ Call(r) /\ MayStart
  /\ LET joinable == fields.joinable \/ title \in {"AoE1", "AoE3"}
         updated == [fields EXCEPT !.joinable = joinable, !.started = match.started]
     IN match' = IF fields.started THEN Started(updated)
                 ELSE [updated EXCEPT !.started = FALSE]
  /\ UpdateObservers(fields.started)
  /\ UNCHANGED <<title, players, online, handler, seen, missed>>

\* updatePlatformID: only a player may, and all the players are told.
UpdatePlatformID(r, u) ==
  /\ Call(r) /\ IsPlayer(u)
  /\ Broadcast(r, "platform", u, players)
  /\ UNCHANGED <<title, match, players, observers, online, seen, watching, missed>>

\* SendMatchChat: to whom the client says, in some order, in AoM not to the sender himself.
SendMatchChat(r, u, receivers) ==
  /\ Call(r) /\ IsPlayer(u)
  /\ Broadcast(r, "chat", u,
       SetToSeq(IF title = "AoM" THEN receivers \ {u} ELSE receivers))
  /\ UNCHANGED <<title, match, players, observers, online, seen, watching, missed>>

------------------------------------------------------------------------------
(* The messages *)

\* A mutant of Slots: the slot of a peer without a session is left where it is.
SlotsInPlace(slots, u) ==
  IF u \in online THEN Append(slots, u) ELSE Append(slots, None)

\* UpdateState: the sessions it finds fill the slots from the first on, and the slots of
\* the others stay empty at the end.
Slots(slots, u) ==
  IF u \in online THEN Append(slots, u) ELSE slots

LookUp(r) ==
  /\ handler[r].op = "start" /\ handler[r].todo # <<>>
  /\ handler' = [handler EXCEPT ![r].todo = Tail(@),
                                ![r].slots = Slots(@, Head(handler[r].todo))]
  /\ UNCHANGED <<title, match, players, observers, online, calls, seen, watching, missed>>

\* The messages are sent slot by slot; an empty one panics.
SendMatchStart(r) ==
  /\ handler[r].op = "start" /\ handler[r].todo = <<>>
  /\ LET slots == handler[r].slots
         sent == {k \in DOMAIN slots : \A j \in 1 .. k : slots[j] # None}
     IN Ends(r, {slots[k] : k \in sent})
  /\ UNCHANGED <<title, match, players, observers, online, calls, seen, watching>>

\* UpdatePlatformID and SendMatchChat send to each session as they find it, and skip the
\* users that have none.
SendNext(r) ==
  /\ handler[r].op \in {"platform", "chat"}
  /\ IF handler[r].todo = <<>>
     THEN Ends(r, Range(handler[r].slots))
     ELSE /\ handler' = [handler EXCEPT ![r].todo = Tail(@),
                           ![r].slots = IF Head(handler[r].todo) \in online
                                        THEN Append(@, Head(handler[r].todo)) ELSE @]
          /\ UNCHANGED missed
  /\ UNCHANGED <<title, match, players, observers, online, calls, seen, watching>>

------------------------------------------------------------------------------
(* Observers *)

\* StartObserving up to the pointer.  A request whose every field differs from the match's
\* is refused only if its user is in the match, and goes on nevertheless.
StartObserving(r, u) ==
  /\ Call(r)
  /\ IF Starts = 0 THEN UNCHANGED handler
     ELSE Becomes(r, [Idle EXCEPT !.op = "observe", !.user = u, !.set = Starts])
  /\ UNCHANGED <<title, match, players, observers, online, seen, watching, missed>>

\* The user is stored in the set the pointer led to, which may be an earlier start's.
StoreObserver(r) ==
  /\ handler[r].op = "observe"
  /\ observers' = [observers EXCEPT ![handler[r].set] = @ \cup {handler[r].user}]
  /\ watching' = IF handler[r].set = Starts THEN watching \cup {handler[r].user} ELSE watching
  /\ Becomes(r, Idle)
  /\ UNCHANGED <<title, match, players, online, calls, seen, missed>>

StopObserving(r, u) ==
  /\ Call(r)
  /\ observers' = IF Starts = 0 THEN observers ELSE [observers EXCEPT ![Starts] = @ \ {u}]
  /\ watching' = watching \ {u}
  /\ UNCHANGED <<title, match, players, online, handler, seen, missed>>

------------------------------------------------------------------------------
(* Searches, players and sessions *)

\* A search finds the matches its user is not in: those to join, or those that go on and
\* can be observed.
Finds(u, ongoing) ==
  /\ ~IsPlayer(u)
  /\ IF ongoing THEN (~match.joinable \/ ~match.visible) /\ match.observable
                ELSE match.joinable \/ match.visible

findAdvertisements(r, u, ongoing) ==
  /\ Call(r)
  /\ seen' = [seen EXCEPT ![u] = Finds(u, ongoing)]
  /\ UNCHANGED <<title, match, players, observers, online, handler, watching, missed>>

\* Join answers a match that is not joinable with an error, and goes on.
Join(u) ==
  /\ seen[u] /\ ~IsPlayer(u)
  /\ players' = WithKey(players, u)
  /\ UNCHANGED <<title, match, observers, online, handler, calls, seen, watching, missed>>

\* The host stays here: a match whose players have all left is dropped (Advertisements).
Leave(u) ==
  /\ u # Host /\ IsPlayer(u)
  /\ players' = WithoutKey(players, u)
  /\ seen' = [seen EXCEPT ![u] = FALSE]
  /\ UNCHANGED <<title, match, observers, online, handler, calls, watching, missed>>

\* A session ends (Sessions): its user need no longer be told what is under way.
Expire(u) ==
  /\ u \in online
  /\ online' = online \ {u}
  /\ handler' = [r \in MatchRequests |-> [handler[r] EXCEPT !.due = @ \ {u}]]
  /\ UNCHANGED <<title, match, players, observers, calls, seen, watching, missed>>

Fields == [started : BOOLEAN, joinable : BOOLEAN, visible : BOOLEAN, observable : {TRUE}]

Calls(r) ==
  \/ \E started \in BOOLEAN : UpdateState(r, started)
  \/ \E fields \in Fields : Update(r, fields)
  \/ \E u \in Users :
       \/ UpdatePlatformID(r, u)
       \/ SendMatchChat(r, u, Users)
       \/ StartObserving(r, u) \/ StopObserving(r, u)
       \/ \E ongoing \in BOOLEAN : findAdvertisements(r, u, ongoing)

MatchNext ==
  \/ \E r \in MatchRequests : Calls(r) \/ LookUp(r) \/ SendMatchStart(r) \/ SendNext(r)
                              \/ StoreObserver(r)
  \/ \E u \in Users : Join(u) \/ Leave(u) \/ Expire(u)

MatchSpec == MatchInit /\ [][MatchNext]_matchVars

------------------------------------------------------------------------------
(* Properties *)

MatchTypeOK ==
  /\ title \in MatchTitles
  /\ match \in [started : BOOLEAN, joinable : BOOLEAN, visible : BOOLEAN, observable : BOOLEAN]
  /\ players \in Seq(Users) /\ IsInjective(players)
  /\ observers \in Seq(SUBSET Users) /\ Starts <= MaxStarts
  /\ online \subseteq Users
  /\ handler \in [MatchRequests -> Handler]
  /\ calls \in 0 .. MaxCalls
  /\ seen \in [Users -> BOOLEAN]
  /\ watching \subseteq Users /\ missed \subseteq Users

\* The start of a match, a change of its platform session and a chat message are sent to
\* every player, or receiver, that has a session from the moment the request takes the
\* players until it ends, whoever else loses his session meanwhile: that UpdateState panics
\* at the first missing session costs the caller his answer and nobody his message
\* (updateState.go, updatePlatformLobbyID.go, sendMatchChat.go).
NobodyIsMissed == missed = {}

\* Whoever began to observe a match and was stored in the set of its last start is still in
\* it, whatever updates came since, unless he stopped or the match was started once more
\* (UnsafeUpdateState, StartObserving).
ObserversAreKept == Starts > 0 => watching \subseteq observers[Starts]

==============================================================================
