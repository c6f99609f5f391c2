------------------------------ MODULE Messages ------------------------------
(***************************************************************************)
(* How the server's notifications reach a client: the WebSocket            *)
(* connections of server/internal/routes/wss/wss.go, and the channel of a  *)
(* session (models/session.go) that the client empties with readSession.   *)
(*                                                                         *)
(* Handle runs in one goroutine per connection and SendOrStoreMessage      *)
(* starts one per message.  They meet in the map of connections, in the    *)
(* two locks of a connectionWrapper, and in the two pointers that Close    *)
(* sets to nil.  connLock is a sync.RWMutex: a goroutine that waits for    *)
(* Lock keeps new readers out, and a reader that locks again inside its    *)
(* own section waits for that writer as well.                              *)
(*                                                                         *)
(* A nil dereference outside an HTTP handler's goroutine stops the server. *)
(***************************************************************************)
EXTENDS Naturals, Sequences, FiniteSets

CONSTANTS
  Sessions,  \* the session ids of the clients
  Notified,  \* the sessions whose user is notified, and polls
  Conns,     \* the connections (a connectionWrapper and its Handle goroutine)
  Notices,   \* the messages (a message and its SendOrStoreMessage goroutine)
  Polls,     \* the readSession requests
  Capacity,  \* cap(messageChan), 100 in the code
  None

ASSUME CapacityAssumption == Capacity \in Nat \ {0}
ASSUME NotifiedAssumption == Notified \subseteq Sessions
ASSUME NoneAssumption ==
  None \notin Sessions \cup Conns \cup Notices \cup {"written", "dropped", "stored"}
ASSUME PollsAssumption == Polls \cap Sessions = {}

VARIABLES
  connections,  \* per session: the connection stored under it
  handler,      \* per connection: where Handle is
  token,        \* per connection: sessionToken, None before the login message
  niled,        \* the connections whose conn and writeLock Close has set to nil
  readers,      \* per connection: the senders inside connLock.RLock
  writeLock,    \* per connection: the sender that holds writeLock
  send,         \* per message: its goroutine
  channel,      \* per session: messageChan
  poll,         \* the readSession requests
  crashed       \* a nil pointer was dereferenced

connVars == <<connections, handler, token, niled>>
lockVars == <<readers, writeLock>>
vars == <<connVars, lockVars, send, channel, poll, crashed>>

\* "reading" is inside ReadJSON, which holds connLock.RLock; "stuck" is in the close
\* handler, which ReadJSON has called; "locking" is at Close's connLock.Lock.
HandlerSteps == {"new", "reading", "deleting", "locking", "closed", "stuck"}

SendSteps == {"idle", "lock", "wait", "defer", "write", "writing", "logging",
              "store", "done"}

Send == [pc : SendSteps, to : Sessions \cup {None}, conn : Conns \cup {None},
         result : {None, "written", "dropped", "stored"}]

Poll == [pc : {"idle", "waiting", "answered"}, of : Sessions \cup {None},
         got : Seq(Notices), acked : BOOLEAN]

Init ==
  /\ connections = [s \in Sessions |-> None]
  /\ handler = [c \in Conns |-> "new"]
  /\ token = [c \in Conns |-> None]
  /\ niled = {}
  /\ readers = [c \in Conns |-> {}]
  /\ writeLock = [c \in Conns |-> None]
  /\ send = [m \in Notices |-> [pc |-> "idle", to |-> None, conn |-> None,
                                result |-> None]]
  /\ channel = [s \in Sessions |-> <<>>]
  /\ poll = [p \in Polls |-> [pc |-> "idle", of |-> None, got |-> <<>>, acked |-> FALSE]]
  /\ crashed = FALSE

-----------------------------------------------------------------------------
\* The goroutine of a connection.

\* The socket of c is closed, and a Lock of its connLock is pending.
Closing(c) == handler[c] \in {"locking", "stuck"}

Upgrade(c) ==
  /\ handler[c] = "new"
  /\ handler' = [handler EXCEPT ![c] = "reading"]
  /\ UNCHANGED <<connections, token, niled, lockVars, send, channel,
                 poll, crashed>>

\* Reading fails; or the message names a session that has ended, or names none while the
\* connection has none or one that has ended.  What was stored is deleted first.
ReadFails(c) ==
  /\ handler[c] = "reading"
  /\ handler' = [handler EXCEPT ![c] = IF token[c] = None THEN "locking" ELSE "deleting"]
  /\ UNCHANGED <<connections, token, niled, lockVars, send, channel,
                 poll, crashed>>

\* The peer's close frame: the close handler runs inside ReadJSON, closes the socket,
\* and then asks for the Lock of the connLock that ReadJSON holds.
ReadClose(c) ==
  /\ handler[c] = "reading"
  /\ handler' = [handler EXCEPT ![c] = "stuck"]
  /\ UNCHANGED <<connections, token, niled, lockVars, send,
                 channel, poll, crashed>>

\* Mutant: the connection stays stored under its previous session.
StoreConnectionOnly(c, s) ==
  /\ handler[c] = "reading"
  /\ connections' = [connections EXCEPT ![s] = c]
  /\ token' = [token EXCEPT ![c] = s]
  /\ UNCHANGED <<handler, niled, lockVars, send, channel, poll, crashed>>

\* A message with operation 0 that names a session other than the connection's: Store
\* for the login message, StoreAndDelete when the session changes.
StoreConnection(c, s) ==
  /\ handler[c] = "reading"
  /\ s # token[c]
  /\ connections' = [x \in Sessions |-> CASE x = s -> c
                                          [] x = token[c] -> None
                                          [] OTHER -> connections[x]]
  /\ token' = [token EXCEPT ![c] = s]
  /\ UNCHANGED <<handler, niled, lockVars, send, channel, poll, crashed>>

\* The deferred Delete, whichever connection is stored under the token, and closeConn.
DeleteConnection(c) ==
  /\ handler[c] = "deleting"
  /\ connections' = [connections EXCEPT ![token[c]] = None]
  /\ handler' = [handler EXCEPT ![c] = "locking"]
  /\ UNCHANGED <<token, niled, lockVars, send, channel,
                 poll, crashed>>

\* Close: the Lock is granted when no reader is left; then Handle returns.
SetNil(c) ==
  /\ handler[c] = "locking"
  /\ readers[c] = {}
  /\ niled' = niled \cup {c}
  /\ handler' = [handler EXCEPT ![c] = "closed"]
  /\ token' = [token EXCEPT ![c] = None]
  /\ UNCHANGED <<connections, lockVars, send, channel, poll,
                 crashed>>

-----------------------------------------------------------------------------
\* The goroutine of a message.

At(m, step) == send[m].pc = step

GoTo(m, step) == send' = [send EXCEPT ![m].pc = step]

Return(m, result) ==
  send' = [send EXCEPT ![m].pc = "done", ![m].result = result, ![m].conn = None]

\* SendOrStoreMessage, for a session that GetByUserId found and that may have ended since.
StartSend(m, s) ==
  /\ At(m, "idle")
  /\ LET c == connections[s] IN
       send' = [send EXCEPT ![m].pc = IF c = None THEN "store" ELSE "lock",
                            ![m].to = s, ![m].conn = c]
  /\ UNCHANGED <<connVars, lockVars, channel, poll, crashed>>

\* The pointer writeLock is read at the call of Lock and again at the defer of Unlock.
UseWriteLockPointer(m) ==
  /\ At(m, "lock") \/ At(m, "defer")
  /\ IF send[m].conn \in niled
     THEN /\ crashed' = TRUE
          /\ UNCHANGED send
     ELSE /\ GoTo(m, IF At(m, "lock") THEN "wait" ELSE "write")
          /\ UNCHANGED crashed
  /\ UNCHANGED <<connVars, lockVars, channel, poll>>

LockForWriting(m) ==
  /\ At(m, "wait")
  /\ writeLock[send[m].conn] = None
  /\ writeLock' = [writeLock EXCEPT ![send[m].conn] = m]
  /\ GoTo(m, "defer")
  /\ UNCHANGED <<connVars, readers, channel, poll, crashed>>

Unlock(m) == writeLock' = [writeLock EXCEPT ![send[m].conn] = None]

\* withConn: nothing is written, and no error returned, once conn is nil.
BeginWrite(m) ==
  /\ At(m, "write")
  /\ ~Closing(send[m].conn)
  /\ \/ /\ send[m].conn \in niled
        /\ Unlock(m)
        /\ Return(m, "dropped")
        /\ UNCHANGED readers
     \/ /\ send[m].conn \notin niled
        /\ readers' = [readers EXCEPT ![send[m].conn] = @ \cup {m}]
        /\ GoTo(m, "writing")
        /\ UNCHANGED writeLock
  /\ UNCHANGED <<connVars, channel, poll, crashed>>

WriteSucceeds(m) ==
  /\ At(m, "writing")
  /\ ~Closing(send[m].conn)
  /\ GoTo(m, "logging")
  /\ UNCHANGED <<connVars, lockVars, channel, poll, crashed>>

\* Mutants: a failed write is not reported; it leaves the connection locked.
WriteFailsSilently(m) ==
  /\ At(m, "writing")
  /\ readers' = [readers EXCEPT ![send[m].conn] = @ \ {m}]
  /\ Unlock(m)
  /\ Return(m, None)
  /\ UNCHANGED <<connVars, channel, poll, crashed>>

WriteFailsLocked(m) ==
  /\ At(m, "writing")
  /\ readers' = [readers EXCEPT ![send[m].conn] = @ \ {m}]
  /\ GoTo(m, "store")
  /\ UNCHANGED <<connVars, writeLock, channel, poll, crashed>>

\* A write may fail at any time, and fails once the socket is closed.
WriteFails(m) ==
  /\ At(m, "writing")
  /\ readers' = [readers EXCEPT ![send[m].conn] = @ \ {m}]
  /\ Unlock(m)
  /\ GoTo(m, "store")
  /\ UNCHANGED <<connVars, channel, poll, crashed>>

\* logJSON's arguments, LocalAddr and RemoteAddr, lock connLock for reading once more.
LogWrite(m) ==
  /\ At(m, "logging")
  /\ ~Closing(send[m].conn)
  /\ readers' = [readers EXCEPT ![send[m].conn] = @ \ {m}]
  /\ Unlock(m)
  /\ Return(m, "written")
  /\ UNCHANGED <<connVars, channel, poll, crashed>>

\* AddMessage: the goroutine waits while the channel is full.
AddMessage(m) ==
  /\ At(m, "store")
  /\ Len(channel[send[m].to]) < Capacity
  /\ channel' = [channel EXCEPT ![send[m].to] = Append(@, m)]
  /\ Return(m, "stored")
  /\ UNCHANGED <<connVars, lockVars, poll, crashed>>

-----------------------------------------------------------------------------
\* ReadSession: the session is looked up by the middleware, then WaitForMessages.

BeginPoll(p, s) ==
  /\ poll[p].pc = "idle"
  /\ poll' = [poll EXCEPT ![p].pc = "waiting", ![p].of = s]
  /\ UNCHANGED <<connVars, lockVars, send, channel, crashed>>

\* The inner loop runs while there are some messages, but fewer than the capacity.
Draining(p) == Len(poll[p].got) \in 1 .. Capacity - 1

TakeMessage(p) ==
  /\ poll[p].pc = "waiting"
  /\ channel[poll[p].of] # <<>>
  /\ poll' = [poll EXCEPT ![p].got = Append(@, Head(channel[poll[p].of]))]
  /\ channel' = [channel EXCEPT ![poll[p].of] = Tail(@)]
  /\ UNCHANGED <<connVars, lockVars, send, crashed>>

\* The inner loop finds the channel empty, or the outer one waits until its timer fires.
\* Only the former advances the acknowledgement.
AnswerPoll(p) ==
  /\ poll[p].pc = "waiting"
  /\ Draining(p) => channel[poll[p].of] = <<>>
  /\ poll' = [poll EXCEPT ![p].pc = "answered", ![p].acked = Draining(p)]
  /\ UNCHANGED <<connVars, lockVars, send, channel, crashed>>

-----------------------------------------------------------------------------
HandleStep(c) == DeleteConnection(c) \/ SetNil(c)

Receive(c) ==
  \/ Upgrade(c) \/ ReadFails(c) \/ ReadClose(c)
  \/ \E s \in Sessions : StoreConnection(c, s)

SendStep(m) ==
  \/ UseWriteLockPointer(m) \/ LockForWriting(m) \/ BeginWrite(m)
  \/ WriteSucceeds(m) \/ WriteFails(m) \/ LogWrite(m) \/ AddMessage(m)

PollStep(p) == TakeMessage(p) \/ AnswerPoll(p)

Next ==
  /\ ~crashed
  /\ \/ \E c \in Conns : Receive(c) \/ HandleStep(c)
     \/ \E m \in Notices : SendStep(m) \/ \E s \in Notified : StartSend(m, s)
     \/ \E p \in Polls : PollStep(p) \/ \E s \in Notified : BeginPoll(p, s)

Spec == Init /\ [][Next]_vars

\* Every goroutine is scheduled; nothing forces a client to send, nor a poll to come.
Fairness ==
  /\ \A c \in Conns : WF_vars(~crashed /\ HandleStep(c))
  /\ \A m \in Notices : SF_vars(~crashed /\ SendStep(m))
  /\ \A p \in Polls : WF_vars(~crashed /\ PollStep(p))

FairSpec == Spec /\ Fairness

-----------------------------------------------------------------------------
\* The type invariant of the connections, the senders, the channels and the polls; a
\* session's channel never holds more than its capacity (AddMessage waits).
TypeOK ==
  /\ connections \in [Sessions -> Conns \cup {None}]
  /\ handler \in [Conns -> HandlerSteps]
  /\ token \in [Conns -> Sessions \cup {None}]
  /\ niled \subseteq Conns
  /\ readers \in [Conns -> SUBSET Notices]
  /\ writeLock \in [Conns -> Notices \cup {None}]
  /\ send \in [Notices -> Send]
  /\ channel \in [Sessions -> Seq(Notices)]
  /\ \A s \in Sessions : Len(channel[s]) <= Capacity
  /\ poll \in [Polls -> Poll]
  /\ crashed \in BOOLEAN

\* The pointers of a connection are set to nil only when no session leads to it any more,
\* so only a message that looked the connection up before that can meet them.
ListedAreOpen ==
  \A s \in Sessions : connections[s] \notin niled

\* What the channel of session x holds, or poll x has taken.
Held(x) == IF x \in Sessions THEN channel[x] ELSE poll[x].got

\* Where message m is held.
Copies(m) ==
  UNION {{x} \X {i \in DOMAIN Held(x) : Held(x)[i] = m} : x \in Sessions \cup Polls}

\* A goroutine that has returned has written its message, has dropped it on a connection
\* closed under it, or has stored it: then it is in the channel of its session or with
\* one poll of that session, once, however many senders and polls there are; a message
\* that was written is in neither.
DeliveredOnce ==
  \A m \in Notices :
    /\ At(m, "done") => send[m].result # None
    /\ Cardinality(Copies(m)) = IF send[m].result = "stored" THEN 1 ELSE 0
    /\ \A x \in Copies(m) :
         send[m].to = IF x[1] \in Sessions THEN x[1] ELSE poll[x[1]].of

\* Lock is requested twice by one goroutine: in the close handler under ReadJSON, or, as
\* a reader, by the log arguments of a write while Close waits for that reader.
LockedByItself(c) ==
  \/ handler[c] = "stuck"
  \/ handler[c] = "locking" /\ \E m \in readers[c] : At(m, "logging")

\* Every message's goroutine returns, unless its connection has locked itself, its
\* session's channel is full and not read, or the server has stopped.
SendReturns ==
  \A m \in Notices :
    ~At(m, "idle") ~>
      \/ At(m, "done") \/ crashed
      \/ ~At(m, "store") /\ send[m].conn # None /\ LockedByItself(send[m].conn)
      \/ At(m, "store") /\ Len(channel[send[m].to]) = Capacity

-----------------------------------------------------------------------------
\* Logout leaves the user's channels one after the other: it waits 100ms after each
\* notification, in which its goroutine returns and a poll that waits takes the message.
NotifyLeaveChannel(m, s) ==
  /\ StartSend(m, s)
  /\ \A n \in Notices : At(n, "idle") \/ At(n, "done")
  /\ \A p \in Polls :
       poll[p].pc = "waiting" => poll[p].got = <<>> /\ channel[poll[p].of] = <<>>

LogoutNext ==
  /\ ~crashed
  /\ \/ \E m \in Notices : SendStep(m) \/ \E s \in Notified : NotifyLeaveChannel(m, s)
     \/ \E p \in Polls : PollStep(p) \/ \E s \in Notified : BeginPoll(p, s)

LogoutSpec == Init /\ [][LogoutNext]_vars

\* logout.go:34-36: the notifications "go in different responses" of readSession.
NoticesInDifferentResponses ==
  \A p \in Polls : poll[p].pc = "answered" => Len(poll[p].got) <= 1
=============================================================================
