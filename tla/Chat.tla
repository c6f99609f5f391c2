-------------------------------- MODULE Chat ---------------------------------
(***************************************************************************)
(* A chat channel: models/chatChannel.go and routes/game/chat/{join,leave} *)
(* Channel.go, sendText.go, with what login/logout.go does to it.          *)
(*                                                                         *)
(* A handler changes the members in one atomic step, answers, and only     *)
(* then notifies the users one by one, in no order, whoever has a session. *)
(* The client may go on as soon as it is answered, so that the tail of one *)
(* request runs while the next one of the same user is served.             *)
(*                                                                         *)
(* A session that expires leaves its user in the channel: nobody is told,  *)
(* the user cannot join it again before he has left it, and a text stops,  *)
(* in a panic, at the first such member.                                   *)
(***************************************************************************)
EXTENDS ServerConstants, OrderedKeys, FiniteSets

CONSTANTS
  ChatRequests,  \* the handlers that can be running at once
  MaxChats       \* how many requests are made

ASSUME ChatAssumption == MaxChats \in Nat

VARIABLES
  members,       \* the keys of channel.users, in order
  session,       \* the users that have a session
  view,          \* per user: who his client takes for members, None if it is not in
  running,       \* the handlers
  chats,         \* how many requests were made
  overlapped     \* history: <<v, u>>, the handlers of u ran with one of u or of v

chatVars == <<members, session, view, running, chats, overlapped>>

\* A handler: its user, whether it is answered, whom it has still to notify (a set as a
\* sequence where the order counts).
ChatIdle == [op |-> "idle", user |-> None, list |-> {}, answered |-> FALSE,
             notify |-> {}, texts |-> <<>>]

ChatInit ==
  /\ members = <<>>
  /\ session = Users
  /\ view = [u \in Users |-> None]
  /\ running = [r \in ChatRequests |-> ChatIdle]
  /\ chats = 0
  /\ overlapped = {}

IsMember(u) == u \in Range(members)

\* A client waits for the answer of a request before it makes the next one.
Waiting(u) == \E r \in ChatRequests : running[r].user = u /\ ~running[r].answered

RequestOf(r, u) ==
  /\ running[r].op = "idle" /\ chats < MaxChats /\ u \in session /\ ~Waiting(u)
  /\ chats' = chats + 1

\* The handlers running with this one, of user u, now that it begins.
Overlaps(r, u) ==
  overlapped' = overlapped \cup
    UNION {{<<u, running[q].user>>, <<running[q].user, u>>} \cup
           (IF running[q].user = u THEN Users \X {u} ELSE {}) :
             q \in {q \in ChatRequests \ {r} : running[q].op # "idle"}}

Runs(r, record) == running' = [running EXCEPT ![r] = record]

\* AddUser gives the users that were in the channel; a member is refused.
JoinChannel(r, u) ==
  /\ RequestOf(r, u) /\ ~IsMember(u)
  /\ members' = WithKey(members, u)
  /\ Runs(r, [ChatIdle EXCEPT !.op = "join", !.user = u, !.list = Range(members),
                              !.notify = Users])
  /\ Overlaps(r, u)
  /\ UNCHANGED <<session, view>>

LeaveChannel(r, u) ==
  /\ RequestOf(r, u) /\ IsMember(u)
  /\ members' = WithoutKey(members, u)
  /\ Runs(r, [ChatIdle EXCEPT !.op = "leave", !.user = u, !.notify = Users \ {u}])
  /\ Overlaps(r, u)
  /\ UNCHANGED <<session, view>>

\* A mutant of ToldOfLogout: nobody.
ToldNobody(u) == {}

\* Whom Logout notifies: everybody else, if its user was in the channel.
ToldOfLogout(u) == IF IsMember(u) THEN Users \ {u} ELSE {}

LogoutOfChannel(r, u) ==
  /\ RequestOf(r, u)
  /\ members' = WithoutKey(members, u)
  /\ Runs(r, [ChatIdle EXCEPT !.op = "logout", !.user = u, !.notify = ToldOfLogout(u)])
  /\ Overlaps(r, u)
  /\ UNCHANGED <<session, view>>

\* SendText is for members.
SendText(r, u) ==
  /\ RequestOf(r, u) /\ IsMember(u)
  /\ Runs(r, [ChatIdle EXCEPT !.op = "text", !.user = u])
  /\ Overlaps(r, u)
  /\ UNCHANGED <<members, session, view>>

\* The answer; that of a logout comes last, and ends the session.
ChatAnswer(r) ==
  /\ running[r].op \in {"join", "leave", "text"} /\ ~running[r].answered
  /\ LET u == running[r].user
     IN view' = CASE running[r].op = "join" ->
                       [view EXCEPT ![u] = running[r].list \cup {u}]
                  [] running[r].op = "leave" -> [view EXCEPT ![u] = None]
                  [] OTHER -> view
  /\ Runs(r, [running[r] EXCEPT
       !.answered = TRUE,
       !.texts = IF running[r].op = "text" THEN members ELSE <<>>])
  /\ UNCHANGED <<members, session, chats, overlapped>>

\* ChannelJoinMessage and ChannelLeaveMessage, as a client in the channel takes them.
Notified(known, op, u) ==
  IF known = None THEN None
  ELSE IF op = "join" THEN known \cup {u} ELSE known \ {u}

Notify(r, v) ==
  /\ running[r].answered \/ running[r].op = "logout"
  /\ v \in running[r].notify
  /\ view' = IF v \in session
             THEN [view EXCEPT ![v] = Notified(@, running[r].op, running[r].user)] ELSE view
  /\ Runs(r, [running[r] EXCEPT !.notify = @ \ {v}])
  /\ UNCHANGED <<members, session, chats, overlapped>>

\* The next member in order; one without a session ends the handler.
HearText(r) ==
  /\ running[r].op = "text" /\ running[r].answered
  /\ LET left == running[r].texts
     IN Runs(r, IF left = <<>> \/ Head(left) \notin session THEN ChatIdle
                ELSE [running[r] EXCEPT !.texts = Tail(left)])
  /\ UNCHANGED <<members, session, view, chats, overlapped>>

\* A session ends.
EndsSession(u, handlers) ==
  /\ session' = session \ {u}
  /\ view' = [view EXCEPT ![u] = None]
  /\ running' = handlers

ChatDone(r) ==
  /\ running[r].op \in {"join", "leave", "logout"} /\ running[r].notify = {}
  /\ IF running[r].op = "logout"
     THEN EndsSession(running[r].user, [running EXCEPT ![r] = ChatIdle])
     ELSE /\ running[r].answered
          /\ Runs(r, ChatIdle) /\ UNCHANGED <<session, view>>
  /\ UNCHANGED <<members, chats, overlapped>>

\* Sessions expire (Sessions), and a user logs in again, in or out of the channel.
ChatExpire(u) ==
  /\ u \in session /\ ~Waiting(u)
  /\ EndsSession(u, running)
  /\ UNCHANGED <<members, chats, overlapped>>

ChatLogin(u) ==
  /\ u \notin session /\ chats < MaxChats
  /\ session' = session \cup {u}
  /\ UNCHANGED <<members, view, running, chats, overlapped>>

ChatNext ==
  \/ \E r \in ChatRequests :
       \/ \E u \in Users :
            \/ JoinChannel(r, u) \/ LeaveChannel(r, u) \/ LogoutOfChannel(r, u)
            \/ SendText(r, u) \/ Notify(r, u)
       \/ ChatAnswer(r) \/ HearText(r) \/ ChatDone(r)
  \/ \E u \in Users : ChatExpire(u) \/ ChatLogin(u)

ChatSpec == ChatInit /\ [][ChatNext]_chatVars

------------------------------------------------------------------------------
(* Properties *)

ChatTypeOK ==
  /\ members \in Seq(Users) /\ IsInjective(members)
  /\ session \subseteq Users
  /\ view \in [Users -> (SUBSET Users) \cup {None}]
  /\ \A r \in ChatRequests :
       /\ running[r].op \in {"idle", "join", "leave", "logout", "text"}
       /\ running[r].user \in Users \cup {None}
       /\ running[r].notify \subseteq Users
  /\ chats \in 0 .. MaxChats
  /\ overlapped \subseteq Users \X Users

Quiet == \A r \in ChatRequests : running[r].op = "idle"

\* When nothing runs, every client that is in the channel knows who is, the members whose
\* sessions have expired included; except of users whose requests ran together with another
\* one of theirs, or of the client's: their messages can come in any order (joinChannel.go,
\* leaveChannel.go, logout.go).
ViewsSettle ==
  Quiet => \A v, u \in Users :
    view[v] # None /\ <<v, u>> \notin overlapped => (u \in view[v] <=> IsMember(u))

==============================================================================
