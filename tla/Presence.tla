------------------------------ MODULE Presence -------------------------------
(***************************************************************************)
(* Who is online, as the clients see it: routes/game/relationship/{set-    *)
(* Presence, setPresenceProperty, getRelationships}.go, what platformlogin *)
(* and logout do of it, and the presence of models/user.go.                *)
(*                                                                         *)
(* A handler sets the user's presence, encodes what it then is (which is   *)
(* another step), and sends that to every user that has a session, one by  *)
(* one.  A login gives its own client the relationships: the others whose  *)
(* presence is above 0; in the titles with friends it also makes the user  *)
(* everybody's friend, which a logout undoes before it ends the session.   *)
(* A session that expires changes nothing of this.                         *)
(***************************************************************************)
EXTENDS ServerConstants, Naturals, FiniteSets

CONSTANTS
  Presences,         \* the presence ids: 0 is offline, 1 what a login sets
  PresenceRequests,  \* the handlers that can be running at once
  MaxPresences       \* how many requests are made

ASSUME PresenceAssumption ==
  {0, 1} \subseteq Presences /\ Presences \subseteq Nat /\ None \notin Presences
ASSUME MaxPresencesAssumption == MaxPresences \in Nat

VARIABLES
  presence,          \* per user
  logged,            \* the users with a session
  friends,           \* per user with a session: whom his client takes for friends
  known,             \* per user: the presence of each other user, as his client knows it
  work,              \* the handlers
  presences,         \* how many requests were made
  mingled,           \* history: the users of whom two handlers ran at once
  hidden             \* history: the users that have set themselves offline

presenceVars == <<presence, logged, friends, known, work, presences, mingled, hidden>>

\* A handler: what it sends, once encoded, to whom, and the steps after it.
PresenceIdle == [op |-> "idle", user |-> None, sends |-> None, to |-> {}]

PresenceInit ==
  /\ presence = [u \in Users |-> 0]
  /\ logged = {}
  /\ friends = [u \in Users |-> {}]
  /\ known = [v \in Users |-> [u \in Users |-> 0]]
  /\ work = [r \in PresenceRequests |-> PresenceIdle]
  /\ presences = 0
  /\ mingled = {} /\ hidden = {}

Does(r, record) == work' = [work EXCEPT ![r] = record]
WorksFor(u) == \E r \in PresenceRequests : work[r].user = u

NewWork(r, op, u) ==
  /\ work[r].op = "idle" /\ presences < MaxPresences
  /\ presences' = presences + 1
  /\ Does(r, [PresenceIdle EXCEPT !.op = op, !.user = u])
  /\ mingled' = IF WorksFor(u) THEN mingled \cup {u} ELSE mingled

\* SetPresence, or SetPresenceProperty, which here is a set to the same presence.
SetPresence(r, u, p) ==
  /\ u \in logged /\ NewWork(r, "set", u)
  /\ presence' = [presence EXCEPT ![u] = p]
  /\ hidden' = IF p = 0 THEN hidden \cup {u} ELSE hidden
  /\ UNCHANGED <<logged, friends, known>>

\* Platformlogin: the session comes first, in the place of an earlier one, and then the
\* presence.
LoginSession(r, u) ==
  /\ NewWork(r, "login", u)
  /\ logged' = logged \cup {u}
  /\ presence' = [presence EXCEPT ![u] = 1]
  /\ friends' = [friends EXCEPT ![u] = {}]
  /\ known' = [known EXCEPT ![u] = [v \in Users |-> 0]]
  /\ UNCHANGED hidden

LogoutPresence(r, u) ==
  /\ u \in logged /\ NewWork(r, "logout", u)
  /\ presence' = [presence EXCEPT ![u] = 0]
  /\ UNCHANGED <<logged, friends, known, hidden>>

\* NotifyChangePresence encodes the presence there is by then.
EncodePresence(r) ==
  /\ work[r].op \in {"set", "login", "logout"} /\ work[r].sends = None
  /\ Does(r, [work[r] EXCEPT !.sends = presence[work[r].user], !.to = Users])
  /\ UNCHANGED <<presence, logged, friends, known, presences, mingled, hidden>>

SendPresence(r, v) ==
  /\ work[r].op \in {"set", "login", "logout"} /\ v \in work[r].to
  /\ known' = IF v \in logged
              THEN [known EXCEPT ![v][work[r].user] = work[r].sends] ELSE known
  /\ Does(r, [work[r] EXCEPT !.to = @ \ {v}])
  /\ UNCHANGED <<presence, logged, friends, presences, mingled, hidden>>

\* Then the messages about friends, for a login and for a logout.
ToFriends(r) ==
  /\ work[r].op \in {"login", "logout"} /\ work[r].sends # None /\ work[r].to = {}
  /\ Does(r, [work[r] EXCEPT
       !.op = IF @ = "login" THEN "accept" ELSE "clear", !.to = Users \ {work[r].user}])
  /\ UNCHANGED <<presence, logged, friends, known, presences, mingled, hidden>>

SendFriend(r, v) ==
  /\ work[r].op \in {"accept", "clear"} /\ v \in work[r].to
  /\ friends' = IF v \notin logged THEN friends
                ELSE [friends EXCEPT ![v] = IF work[r].op = "accept"
                                            THEN @ \cup {work[r].user}
                                            ELSE @ \ {work[r].user}]
  /\ Does(r, [work[r] EXCEPT !.to = @ \ {v}])
  /\ UNCHANGED <<presence, logged, known, presences, mingled, hidden>>

\* A mutant of Related: only those that have a session.
RelatedLogged(u) == {v \in Users \ {u} : presence[v] > 0 /\ v \in logged}

\* Relationships: the users whose presence is above 0 now.
Related(u) == {v \in Users \ {u} : presence[v] > 0}

\* The end of a handler: a login answers with the relationships, a logout ends the session.
FinishPresence(r) ==
  /\ work[r].sends # None /\ work[r].to = {} /\ work[r].op \in {"set", "accept", "clear"}
  /\ LET u == work[r].user
     IN /\ logged' = IF work[r].op = "clear" THEN logged \ {u} ELSE logged
        /\ IF work[r].op = "accept"
           THEN /\ friends' = [friends EXCEPT ![u] = @ \cup Related(u)]
                /\ known' = [known EXCEPT ![u] =
                     [v \in Users |-> IF v \in Related(u) THEN presence[v] ELSE @[v]]]
           ELSE UNCHANGED <<friends, known>>
  /\ Does(r, PresenceIdle)
  /\ UNCHANGED <<presence, presences, mingled, hidden>>

PresenceExpire(u) ==
  /\ u \in logged /\ ~WorksFor(u)
  /\ logged' = logged \ {u}
  /\ UNCHANGED <<presence, friends, known, work, presences, mingled, hidden>>

PresenceNext ==
  \/ \E r \in PresenceRequests :
       \/ \E u \in Users :
            \/ \E p \in Presences : SetPresence(r, u, p)
            \/ LoginSession(r, u) \/ LogoutPresence(r, u)
            \/ SendPresence(r, u) \/ SendFriend(r, u)
       \/ EncodePresence(r) \/ ToFriends(r) \/ FinishPresence(r)
  \/ \E u \in Users : PresenceExpire(u)

PresenceSpec == PresenceInit /\ [][PresenceNext]_presenceVars

------------------------------------------------------------------------------
(* Properties *)

PresenceHandler ==
  [op : {"idle", "set", "login", "logout", "accept", "clear"}, user : Users \cup {None},
   sends : Presences \cup {None}, to : SUBSET Users]

PresenceTypeOK ==
  /\ presence \in [Users -> Presences]
  /\ logged \subseteq Users
  /\ friends \in [Users -> SUBSET Users]
  /\ known \in [Users -> [Users -> Presences]]
  /\ work \in [PresenceRequests -> PresenceHandler]
  /\ presences \in 0 .. MaxPresences
  /\ mingled \subseteq Users /\ hidden \subseteq Users

Still == \A r \in PresenceRequests : work[r].op = "idle"

\* When nothing runs, a client knows the presence of every other user, and has those that
\* are online for friends (one that had set himself offline becomes a friend, of a client
\* that logged in meanwhile, only with his next login), although logins, logouts and changes of
\* several users were notified at the same time, in any order, and sessions expired: as long
\* as no two handlers of that user, or of the client's own, ran at once (ChangePresence,
\* Relationships).
PresenceSettles ==
  Still => \A v \in logged \ mingled : \A u \in Users \ (mingled \cup {v}) :
    /\ known[v][u] = presence[u]
    /\ presence[u] > 0 /\ u \notin hidden => u \in friends[v]

==============================================================================
