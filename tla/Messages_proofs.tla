--------------------------- MODULE Messages_proofs ---------------------------
(***************************************************************************)
(* No session leads to a connection whose pointers are nil, and a message  *)
(* that was stored is in one place, once: the proofs, for any sessions,    *)
(* connections, messages, requests and capacity of a channel.              *)
(***************************************************************************)
EXTENDS Messages, FiniteSetTheorems, TLAPS

\* A stored connection has its session for token, and its Handle has not yet deleted it; the
\* pointers of a connection are nil only when its Handle has returned.
ListedAreServed ==
  /\ \A s \in Sessions :
       connections[s] # None =>
         /\ token[connections[s]] = s
         /\ handler[connections[s]] \in {"reading", "deleting", "stuck"}
  /\ \A c \in niled : handler[c] = "closed"

\* A goroutine has a session once it has started, a connection while it uses one, and a
\* result when it has returned; a request that has begun has a session.
GoroutinesWellFormed ==
  /\ \A m \in Notices :
       /\ ~At(m, "idle") => send[m].to \in Sessions
       /\ send[m].pc \in {"lock", "wait", "defer", "write", "writing", "logging"} =>
            send[m].conn \in Conns
       /\ At(m, "done") <=> send[m].result # None
  /\ \A p \in Polls :
       /\ poll[p].pc = "idle" => poll[p].got = <<>>
       /\ poll[p].pc # "idle" => poll[p].of \in Sessions

\* What a channel, or a request, holds was stored for its session.
HeldWasStored ==
  /\ \A s \in Sessions : \A i \in 1 .. Len(channel[s]) :
       send[channel[s][i]].result = "stored" /\ send[channel[s][i]].to = s
  /\ \A p \in Polls : \A i \in 1 .. Len(poll[p].got) :
       send[poll[p].got[i]].result = "stored" /\ send[poll[p].got[i]].to = poll[p].of

\* No message is held twice.
HeldOnce ==
  /\ \A s \in Sessions : \A i, j \in 1 .. Len(channel[s]) :
       channel[s][i] = channel[s][j] => i = j
  /\ \A p, r \in Polls : \A i \in 1 .. Len(poll[p].got), j \in 1 .. Len(poll[r].got) :
       poll[p].got[i] = poll[r].got[j] => p = r /\ i = j
  /\ \A s \in Sessions, p \in Polls :
       \A i \in 1 .. Len(channel[s]), j \in 1 .. Len(poll[p].got) :
         channel[s][i] # poll[p].got[j]

\* A stored message is held.
StoredIsHeld ==
  \A m \in Notices :
    send[m].result = "stored" =>
      \/ \E i \in 1 .. Len(channel[send[m].to]) : channel[send[m].to][i] = m
      \/ \E p \in Polls : \E i \in 1 .. Len(poll[p].got) : poll[p].got[i] = m

IInv ==
  /\ TypeOK
  /\ ListedAreServed
  /\ GoroutinesWellFormed
  /\ HeldWasStored
  /\ HeldOnce
  /\ StoredIsHeld

-----------------------------------------------------------------------------
(* What the invariant says of the properties *)

LEMMA CopiesElements ==
  ASSUME NEW m, NEW x
  PROVE  x \in Copies(m) <=>
           \/ \E s \in Sessions : \E i \in DOMAIN channel[s] :
                x = <<s, i>> /\ channel[s][i] = m
           \/ \E p \in Polls : \E i \in DOMAIN poll[p].got :
                x = <<p, i>> /\ poll[p].got[i] = m
<1> DEFINE Places(h) == {h} \X {i \in DOMAIN Held(h) : Held(h)[i] = m}
<1>1. Copies(m) = UNION {Places(h) : h \in Sessions \cup Polls}
  BY DEF Copies
<1>2. \A h : x \in Places(h) <=> \E i \in DOMAIN Held(h) : x = <<h, i>> /\ Held(h)[i] = m
  OBVIOUS
<1> HIDE DEF Places
<1>3. x \in Copies(m) <=> \E h \in Sessions \cup Polls : x \in Places(h)
  BY <1>1, Zenon
<1> QED  BY <1>2, <1>3, PollsAssumption DEF Held

LEMMA HeldIsDelivered ==
  ASSUME IInv
  PROVE  DeliveredOnce
<1> SUFFICES ASSUME NEW m \in Notices
             PROVE  /\ At(m, "done") => send[m].result # None
                    /\ Cardinality(Copies(m)) =
                         IF send[m].result = "stored" THEN 1 ELSE 0
                    /\ \A x \in Copies(m) :
                         send[m].to = IF x[1] \in Sessions THEN x[1] ELSE poll[x[1]].of
  BY DEF DeliveredOnce
<1>0. /\ \A s \in Sessions : DOMAIN channel[s] = 1 .. Len(channel[s])
      /\ \A p \in Polls : DOMAIN poll[p].got = 1 .. Len(poll[p].got)
  BY DEF IInv, TypeOK, Poll
<1>1. At(m, "done") => send[m].result # None
  BY DEF IInv, GoroutinesWellFormed
<1>2. \A x \in Copies(m) :
         /\ send[m].result = "stored"
         /\ send[m].to = IF x[1] \in Sessions THEN x[1] ELSE poll[x[1]].of
  <2> SUFFICES ASSUME NEW x \in Copies(m)
               PROVE  /\ send[m].result = "stored"
                      /\ send[m].to = IF x[1] \in Sessions THEN x[1] ELSE poll[x[1]].of
    OBVIOUS
  <2>1. CASE \E s \in Sessions : \E i \in DOMAIN channel[s] :
               x = <<s, i>> /\ channel[s][i] = m
    BY <1>0, <2>1 DEF IInv, HeldWasStored
  <2>2. CASE \E p \in Polls : \E i \in DOMAIN poll[p].got :
               x = <<p, i>> /\ poll[p].got[i] = m
    BY <1>0, <2>2, PollsAssumption DEF IInv, HeldWasStored
  <2> QED  BY <2>1, <2>2, CopiesElements
<1>3. \A x, y \in Copies(m) : x = y
  <2> SUFFICES ASSUME NEW x \in Copies(m), NEW y \in Copies(m)
               PROVE  x = y
    OBVIOUS
  <2>1. \A s, t \in Sessions : \A i \in DOMAIN channel[s], j \in DOMAIN channel[t] :
          channel[s][i] = m /\ channel[t][j] = m => s = t /\ i = j
    BY <1>0 DEF IInv, HeldWasStored, HeldOnce
  <2>2. \A s \in Sessions, p \in Polls :
          \A i \in DOMAIN channel[s], j \in DOMAIN poll[p].got :
            ~(channel[s][i] = m /\ poll[p].got[j] = m)
    BY <1>0 DEF IInv, HeldOnce
  <2>3. \A p, r \in Polls : \A i \in DOMAIN poll[p].got, j \in DOMAIN poll[r].got :
          poll[p].got[i] = m /\ poll[r].got[j] = m => p = r /\ i = j
    BY <1>0 DEF IInv, HeldOnce
  <2>4. \/ \E s \in Sessions : \E i \in DOMAIN channel[s] : x = <<s, i>> /\ channel[s][i] = m
        \/ \E p \in Polls : \E i \in DOMAIN poll[p].got :
             x = <<p, i>> /\ poll[p].got[i] = m
    BY CopiesElements
  <2>5. \/ \E s \in Sessions : \E i \in DOMAIN channel[s] : y = <<s, i>> /\ channel[s][i] = m
        \/ \E p \in Polls : \E i \in DOMAIN poll[p].got :
             y = <<p, i>> /\ poll[p].got[i] = m
    BY CopiesElements
  <2>6. CASE \E s \in Sessions : \E i \in DOMAIN channel[s] : x = <<s, i>> /\ channel[s][i] = m
    BY <2>1, <2>2, <2>5, <2>6
  <2>7. CASE \E p \in Polls : \E i \in DOMAIN poll[p].got :
               x = <<p, i>> /\ poll[p].got[i] = m
    BY <2>2, <2>3, <2>5, <2>7
  <2> QED  BY <2>4, <2>6, <2>7
<1>4. CASE send[m].result = "stored"
  <2>1. send[m].to \in Sessions
    BY <1>4, NoneAssumption DEF IInv, GoroutinesWellFormed, TypeOK, Send, At
  <2>2. \E x : x \in Copies(m)
    <3>1. \/ \E i \in DOMAIN channel[send[m].to] : channel[send[m].to][i] = m
          \/ \E p \in Polls : \E i \in DOMAIN poll[p].got : poll[p].got[i] = m
      BY <1>0, <1>4, <2>1 DEF IInv, StoredIsHeld
    <3> QED  BY <2>1, <3>1, CopiesElements
  <2>3. PICK x : Copies(m) = {x}
    BY <1>3, <2>2
  <2> QED  BY <1>1, <1>2, <1>4, <2>3, FS_Singleton
<1>5. CASE send[m].result # "stored"
  <2>1. Copies(m) = {}
    BY <1>2, <1>5
  <2> QED  BY <1>1, <1>5, <2>1, FS_EmptySet
<1> QED  BY <1>4, <1>5

LEMMA ServedAreOpen ==
  ASSUME IInv
  PROVE  ListedAreOpen
<1> SUFFICES ASSUME NEW s \in Sessions, connections[s] \in niled
             PROVE  FALSE
  BY DEF ListedAreOpen
<1>1. connections[s] # None
  BY NoneAssumption DEF IInv, TypeOK
<1>2. handler[connections[s]] \in {"reading", "deleting", "stuck"}
  BY <1>1 DEF IInv, ListedAreServed
<1>3. handler[connections[s]] = "closed"
  BY DEF IInv, ListedAreServed
<1> QED  BY <1>2, <1>3

-----------------------------------------------------------------------------
(* The initial states, and the steps *)

LEMMA InitInv == Init => IInv
<1> SUFFICES ASSUME Init PROVE IInv
  OBVIOUS
<1>1. TypeOK
  <2>1. \A s \in Sessions : channel[s] = <<>>
    BY DEF Init
  <2>2. channel \in [Sessions -> Seq(Notices)] /\ \A s \in Sessions : Len(channel[s]) <= Capacity
    BY <2>1, CapacityAssumption DEF Init
  <2>3. send \in [Notices -> Send]
    BY DEF Init, SendSteps, Send
  <2>4. poll \in [Polls -> Poll]
    BY DEF Init, Poll
  <2> QED  BY <2>2, <2>3, <2>4 DEF Init, TypeOK, HandlerSteps
<1>2. ListedAreServed
  BY DEF Init, ListedAreServed
<1>3. GoroutinesWellFormed
  BY DEF Init, At, GoroutinesWellFormed
<1>4. HeldWasStored /\ HeldOnce
  BY DEF Init, HeldWasStored, HeldOnce
<1>5. StoredIsHeld
  BY NoneAssumption DEF Init, StoredIsHeld
<1> QED  BY <1>1, <1>2, <1>3, <1>4, <1>5 DEF IInv

\* The goroutine of a connection delivers nothing.
LEMMA NothingDelivered ==
  ASSUME IInv, UNCHANGED <<send, channel, poll>>
  PROVE  GoroutinesWellFormed' /\ HeldWasStored' /\ HeldOnce' /\ StoredIsHeld'
BY DEF IInv, GoroutinesWellFormed, HeldWasStored, HeldOnce, StoredIsHeld, At

\* What is stored under each session when c is stored under session s.
LEMMA StoredUnder ==
  ASSUME NEW c \in Conns, NEW s \in Sessions, StoreConnection(c, s), TypeOK
  PROVE  /\ connections' \in [Sessions -> Conns \cup {None}]
         /\ connections'[s] = c
         /\ \A x \in Sessions \ {s} :
              connections'[x] = IF x = token[c] THEN None ELSE connections[x]
<1>1. connections' = [x \in Sessions |-> CASE x = s -> c
                                           [] x = token[c] -> None
                                           [] OTHER -> connections[x]]
  BY DEF StoreConnection
<1>2. \A x \in Sessions : (CASE x = s -> c [] x = token[c] -> None [] OTHER -> connections[x])
                           = IF x = s THEN c ELSE IF x = token[c] THEN None ELSE connections[x]
  BY DEF StoreConnection
<1>3. connections' = [x \in Sessions |->
                        IF x = s THEN c ELSE IF x = token[c] THEN None ELSE connections[x]]
  BY <1>1, <1>2
<1> QED  BY <1>3 DEF TypeOK

LEMMA ReceiveInv ==
  ASSUME IInv, NEW c \in Conns, Receive(c)
  PROVE  IInv'
<1>1. TypeOK'
  <2>1. CASE Upgrade(c) \/ ReadFails(c) \/ ReadClose(c)
    BY <2>1 DEF Upgrade, ReadFails, ReadClose, lockVars, IInv, TypeOK, HandlerSteps
  <2>2. ASSUME NEW s \in Sessions, StoreConnection(c, s) PROVE TypeOK'
    BY <2>2, StoredUnder DEF StoreConnection, lockVars, IInv, TypeOK
  <2> QED  BY <2>1, <2>2 DEF Receive
<1>2. ListedAreServed'
  <2>0. /\ \A x \in Sessions : connections[x] # None =>
              /\ connections[x] \in Conns
              /\ token[connections[x]] = x
              /\ handler[connections[x]] \in {"reading", "deleting", "stuck"}
        /\ \A d \in niled : d \in Conns /\ handler[d] = "closed"
    BY DEF IInv, TypeOK, ListedAreServed
  <2>1. CASE Upgrade(c) \/ ReadFails(c) \/ ReadClose(c)
    <3>1. /\ UNCHANGED <<connections, token, niled>>
          /\ handler[c] \in {"new", "reading"}
          /\ \A d \in Conns \ {c} : handler'[d] = handler[d]
          /\ handler'[c] = "locking" => token[c] = None
          /\ handler'[c] \in {"reading", "locking", "deleting", "stuck"}
      BY <2>1 DEF Upgrade, ReadFails, ReadClose, IInv, TypeOK
    <3> QED  BY <2>0, <3>1, NoneAssumption DEF ListedAreServed
  <2>2. ASSUME NEW s \in Sessions, StoreConnection(c, s) PROVE ListedAreServed'
    <3>1. /\ UNCHANGED <<handler, niled>>
          /\ handler[c] = "reading"
          /\ token'[c] = s
          /\ \A d \in Conns \ {c} : token'[d] = token[d]
      BY <2>2 DEF StoreConnection, IInv, TypeOK
    <3>2. /\ connections'[s] = c
          /\ \A x \in Sessions \ {s} :
               connections'[x] = IF x = token[c] THEN None ELSE connections[x]
      BY <2>2, StoredUnder DEF IInv
    <3> QED  BY <2>0, <3>1, <3>2, NoneAssumption DEF ListedAreServed
  <2> QED  BY <2>1, <2>2 DEF Receive
<1>3. GoroutinesWellFormed' /\ HeldWasStored' /\ HeldOnce' /\ StoredIsHeld'
  BY NothingDelivered DEF Receive, Upgrade, ReadFails, ReadClose, StoreConnection
<1> QED  BY <1>1, <1>2, <1>3 DEF IInv

LEMMA HandleStepInv ==
  ASSUME IInv, NEW c \in Conns, HandleStep(c)
  PROVE  IInv'
<1>1. TypeOK'
  BY DEF HandleStep, DeleteConnection, SetNil, lockVars, IInv, TypeOK, HandlerSteps
<1>2. ListedAreServed'
  <2>1. CASE DeleteConnection(c)
    BY <2>1, NoneAssumption DEF DeleteConnection, IInv, TypeOK, ListedAreServed
  <2>2. CASE SetNil(c)
    BY <2>2, NoneAssumption DEF SetNil, IInv, TypeOK, ListedAreServed
  <2> QED  BY <2>1, <2>2 DEF HandleStep
<1>3. GoroutinesWellFormed' /\ HeldWasStored' /\ HeldOnce' /\ StoredIsHeld'
  BY NothingDelivered DEF HandleStep, DeleteConnection, SetNil
<1> QED  BY <1>1, <1>2, <1>3 DEF IInv

\* A step of a message's goroutine that stores nothing.
LEMMA NothingStored ==
  ASSUME IInv, NEW m \in Notices, send[m].result # "stored", NEW q,
         send' = [send EXCEPT ![m] = q], q.result # "stored",
         UNCHANGED <<connVars, channel, poll>>
  PROVE  ListedAreServed' /\ HeldWasStored' /\ HeldOnce' /\ StoredIsHeld'
<1>1. \A n \in Notices : send'[n] = IF n = m THEN q ELSE send[n]
  BY DEF IInv, TypeOK
<1>2. ListedAreServed'
  BY DEF IInv, ListedAreServed, connVars
<1>3. /\ \A s \in Sessions : \A i \in 1 .. Len(channel[s]) : channel[s][i] \in Notices \ {m}
      /\ \A p \in Polls : \A i \in 1 .. Len(poll[p].got) : poll[p].got[i] \in Notices \ {m}
  BY DEF IInv, TypeOK, Poll, HeldWasStored
<1>4. HeldWasStored'
  BY <1>1, <1>3 DEF IInv, HeldWasStored
<1>5. HeldOnce'
  BY DEF IInv, HeldOnce
<1>6. StoredIsHeld'
  BY <1>1 DEF IInv, StoredIsHeld
<1> QED  BY <1>2, <1>4, <1>5, <1>6

\* The steps at which a message's goroutine uses a connection.
Connected == {"lock", "wait", "defer", "write", "writing", "logging"}

LEMMA GoToInv ==
  ASSUME IInv, NEW m \in Notices, NEW step \in Connected \cup {"store"}, GoTo(m, step),
         send[m].pc \in Connected, UNCHANGED <<connVars, channel, poll>>
  PROVE  /\ send' \in [Notices -> Send]
         /\ ListedAreServed' /\ GoroutinesWellFormed'
         /\ HeldWasStored' /\ HeldOnce' /\ StoredIsHeld'
<1> DEFINE q == [send[m] EXCEPT !.pc = step]
<1>1. send[m] \in Send /\ send[m].to \in Sessions /\ send[m].conn \in Conns
      /\ send[m].result = None
  BY DEF IInv, TypeOK, GoroutinesWellFormed, Connected, At
<1>2. q \in Send /\ q.pc = step /\ q.to = send[m].to /\ q.conn = send[m].conn
      /\ q.result = send[m].result
  BY <1>1 DEF Send, SendSteps, Connected
<1>3. send' = [send EXCEPT ![m] = q]
  BY DEF GoTo, IInv, TypeOK
<1> HIDE DEF q
<1>4. send' \in [Notices -> Send] /\ \A n \in Notices : send'[n] = IF n = m THEN q ELSE send[n]
  BY <1>2, <1>3 DEF IInv, TypeOK
<1>5. GoroutinesWellFormed'
  BY <1>1, <1>2, <1>4 DEF IInv, GoroutinesWellFormed, At, Connected
<1>6. send[m].result # "stored" /\ q.result # "stored"
  BY <1>1, <1>2, NoneAssumption
<1> QED  BY <1>3, <1>4, <1>5, <1>6, NothingStored

LEMMA ReturnInv ==
  ASSUME IInv, NEW m \in Notices, NEW result \in {"written", "dropped"}, Return(m, result),
         send[m].pc \in Connected, UNCHANGED <<connVars, channel, poll>>
  PROVE  /\ send' \in [Notices -> Send]
         /\ ListedAreServed' /\ GoroutinesWellFormed'
         /\ HeldWasStored' /\ HeldOnce' /\ StoredIsHeld'
<1> DEFINE q == [send[m] EXCEPT !.pc = "done", !.result = result, !.conn = None]
<1>1. send[m] \in Send /\ send[m].to \in Sessions /\ send[m].result = None
  BY DEF IInv, TypeOK, GoroutinesWellFormed, Connected, At
<1>2. q \in Send /\ q.pc = "done" /\ q.to = send[m].to /\ q.result = result
  BY <1>1 DEF Send, SendSteps
<1>3. send' = [send EXCEPT ![m] = q]
  BY DEF Return, IInv, TypeOK
<1> HIDE DEF q
<1>4. send' \in [Notices -> Send] /\ \A n \in Notices : send'[n] = IF n = m THEN q ELSE send[n]
  BY <1>2, <1>3 DEF IInv, TypeOK
<1>5. GoroutinesWellFormed'
  BY <1>1, <1>2, <1>4, NoneAssumption DEF IInv, GoroutinesWellFormed, At
<1>6. send[m].result # "stored" /\ q.result # "stored"
  BY <1>1, <1>2, NoneAssumption
<1> QED  BY <1>3, <1>4, <1>5, <1>6, NothingStored

LEMMA StartSendInv ==
  ASSUME IInv, NEW m \in Notices, NEW s \in Sessions, StartSend(m, s)
  PROVE  IInv'
<1> DEFINE c == connections[s]
           q == [send[m] EXCEPT !.pc = IF c = None THEN "store" ELSE "lock",
                                !.to = s, !.conn = c]
<1>1. send[m] \in Send /\ send[m].result = None /\ c \in Conns \cup {None}
  BY DEF StartSend, IInv, TypeOK, GoroutinesWellFormed, At
<1>2. /\ q \in Send
      /\ c = None => q.pc = "store"
      /\ c # None => q.pc = "lock"
      /\ q.to = s /\ q.conn = c /\ q.result = None
  BY <1>1 DEF Send, SendSteps
<1>3. send' = [send EXCEPT ![m] = q]
  BY DEF StartSend, IInv, TypeOK
<1> HIDE DEF q, c
<1>4. send' \in [Notices -> Send] /\ \A n \in Notices : send'[n] = IF n = m THEN q ELSE send[n]
  BY <1>2, <1>3 DEF IInv, TypeOK
<1>5. GoroutinesWellFormed'
  BY <1>1, <1>2, <1>4 DEF StartSend, IInv, GoroutinesWellFormed, At
<1>6. send[m].result # "stored" /\ q.result # "stored"
  BY <1>1, <1>2, NoneAssumption
<1>7. ListedAreServed' /\ HeldWasStored' /\ HeldOnce' /\ StoredIsHeld'
  BY <1>3, <1>6, NothingStored DEF StartSend
<1>8. TypeOK'
  BY <1>4 DEF StartSend, connVars, lockVars, IInv, TypeOK
<1> QED  BY <1>5, <1>7, <1>8 DEF IInv

\* The steps between the start of a message's goroutine and AddMessage.
LEMMA WriteStepInv ==
  ASSUME IInv, NEW m \in Notices,
         \/ UseWriteLockPointer(m) \/ LockForWriting(m) \/ BeginWrite(m)
         \/ WriteSucceeds(m) \/ WriteFails(m) \/ LogWrite(m)
  PROVE  IInv'
<1> DEFINE c == send[m].conn
<1>0. /\ send[m].pc \in Connected /\ c \in Conns
      /\ UNCHANGED <<connVars, channel, poll>>
  BY DEF UseWriteLockPointer, LockForWriting, BeginWrite, WriteSucceeds, WriteFails, LogWrite,
         At, Connected, IInv, GoroutinesWellFormed
<1>1. /\ readers' \in [Conns -> SUBSET Notices]
      /\ writeLock' \in [Conns -> Notices \cup {None}]
      /\ crashed' \in BOOLEAN
  <2>1. CASE UseWriteLockPointer(m) \/ WriteSucceeds(m)
    BY <2>1 DEF UseWriteLockPointer, WriteSucceeds, lockVars, IInv, TypeOK
  <2>2. CASE LockForWriting(m)
    BY <2>2 DEF LockForWriting, IInv, TypeOK
  <2>3. CASE BeginWrite(m)
    <3>1. CASE Unlock(m) /\ UNCHANGED <<readers, crashed>>
      BY <3>1 DEF Unlock, IInv, TypeOK
    <3>2. CASE /\ readers' = [readers EXCEPT ![c] = readers[c] \cup {m}]
               /\ UNCHANGED <<writeLock, crashed>>
      BY <1>0, <3>2 DEF IInv, TypeOK
    <3>3. readers \in [Conns -> SUBSET Notices]
      BY DEF IInv, TypeOK
    <3> QED  BY <1>0, <2>3, <3>1, <3>2, <3>3 DEF BeginWrite
  <2>4. CASE WriteFails(m) \/ LogWrite(m)
    <3>1. /\ readers' = [readers EXCEPT ![c] = readers[c] \ {m}]
          /\ Unlock(m) /\ UNCHANGED crashed
      BY <1>0, <2>4 DEF WriteFails, LogWrite, IInv, TypeOK
    <3>2. readers' \in [Conns -> SUBSET Notices]
      BY <1>0, <3>1 DEF IInv, TypeOK
    <3> QED  BY <3>1, <3>2 DEF Unlock, IInv, TypeOK
  <2> QED  BY <2>1, <2>2, <2>3, <2>4
<1>2. \/ UNCHANGED send
      \/ \E step \in Connected \cup {"store"} : GoTo(m, step)
      \/ \E result \in {"written", "dropped"} : Return(m, result)
  BY DEF UseWriteLockPointer, LockForWriting, BeginWrite, WriteSucceeds, WriteFails, LogWrite,
         At, Connected
<1>3. /\ send' \in [Notices -> Send]
      /\ ListedAreServed' /\ GoroutinesWellFormed'
      /\ HeldWasStored' /\ HeldOnce' /\ StoredIsHeld'
  <2>1. CASE UNCHANGED send
    BY <1>0, <2>1, NothingDelivered DEF connVars, IInv, TypeOK, ListedAreServed
  <2>2. CASE \E step \in Connected \cup {"store"} : GoTo(m, step)
    BY <1>0, <2>2, GoToInv
  <2>3. CASE \E result \in {"written", "dropped"} : Return(m, result)
    BY <1>0, <2>3, ReturnInv
  <2> QED  BY <1>2, <2>1, <2>2, <2>3
<1>4. TypeOK'
  BY <1>0, <1>1, <1>3 DEF connVars, IInv, TypeOK
<1> QED  BY <1>3, <1>4 DEF IInv

LEMMA AddMessageInv ==
  ASSUME IInv, NEW m \in Notices, AddMessage(m)
  PROVE  IInv'
<1> DEFINE s == send[m].to
           q == [send[m] EXCEPT !.pc = "done", !.result = "stored", !.conn = None]
<1>1. send[m] \in Send /\ s \in Sessions /\ send[m].result = None
  BY DEF AddMessage, IInv, TypeOK, GoroutinesWellFormed, At
<1>2. q \in Send /\ q.pc = "done" /\ q.to = s /\ q.result = "stored"
  BY <1>1 DEF Send, SendSteps
<1>3. send' = [send EXCEPT ![m] = q]
  BY DEF AddMessage, Return, IInv, TypeOK
<1>4. channel' = [channel EXCEPT ![s] = Append(channel[s], m)] /\ Len(channel[s]) < Capacity
  BY <1>1 DEF AddMessage, IInv, TypeOK
<1>5. UNCHANGED <<connVars, lockVars, poll, crashed>>
  BY DEF AddMessage
<1> HIDE DEF q, s
<1>6. send' \in [Notices -> Send] /\ \A n \in Notices : send'[n] = IF n = m THEN q ELSE send[n]
  BY <1>2, <1>3 DEF IInv, TypeOK
<1>7. /\ channel' \in [Sessions -> Seq(Notices)]
      /\ \A t \in Sessions \ {s} : channel'[t] = channel[t]
      /\ Len(channel'[s]) = Len(channel[s]) + 1
      /\ channel'[s][Len(channel[s]) + 1] = m
      /\ \A i \in 1 .. Len(channel[s]) : channel'[s][i] = channel[s][i]
      /\ Len(channel[s]) \in Nat
  BY <1>1, <1>4 DEF IInv, TypeOK
<1>8. /\ \A t \in Sessions : \A i \in 1 .. Len(channel[t]) : channel[t][i] \in Notices \ {m}
      /\ \A p \in Polls : \A i \in 1 .. Len(poll[p].got) : poll[p].got[i] \in Notices \ {m}
  BY <1>1, NoneAssumption DEF IInv, TypeOK, Poll, HeldWasStored
<1>9. TypeOK'
  BY <1>4, <1>5, <1>6, <1>7, CapacityAssumption DEF connVars, lockVars, IInv, TypeOK
<1>10. ListedAreServed' /\ GoroutinesWellFormed'
  BY <1>1, <1>2, <1>5, <1>6, NoneAssumption
     DEF connVars, IInv, ListedAreServed, GoroutinesWellFormed, At
<1>11. HeldWasStored'
  <2>1. ASSUME NEW t \in Sessions, NEW i \in 1 .. Len(channel'[t])
        PROVE  send'[channel'[t][i]].result = "stored" /\ send'[channel'[t][i]].to = t
    BY <1>1, <1>2, <1>6, <1>7, <1>8 DEF IInv, HeldWasStored
  <2>2. ASSUME NEW p \in Polls, NEW i \in 1 .. Len(poll'[p].got)
        PROVE  send'[poll'[p].got[i]].result = "stored"
               /\ send'[poll'[p].got[i]].to = poll'[p].of
    BY <1>5, <1>6, <1>8 DEF IInv, HeldWasStored
  <2> QED  BY <2>1, <2>2 DEF HeldWasStored
<1>12. HeldOnce'
  <2>1. ASSUME NEW t \in Sessions, NEW i \in 1 .. Len(channel'[t]), NEW j \in 1 .. Len(channel'[t]),
               channel'[t][i] = channel'[t][j]
        PROVE  i = j
    <3>1. \/ i \in 1 .. Len(channel[t]) /\ channel'[t][i] = channel[t][i]
          \/ t = s /\ i = Len(channel[s]) + 1 /\ channel'[t][i] = m
      BY <1>7
    <3>2. \/ j \in 1 .. Len(channel[t]) /\ channel'[t][j] = channel[t][j]
          \/ t = s /\ j = Len(channel[s]) + 1 /\ channel'[t][j] = m
      BY <1>7
    <3> QED  BY <1>8, <2>1, <3>1, <3>2 DEF IInv, HeldOnce
  <2>2. ASSUME NEW t \in Sessions, NEW p \in Polls,
               NEW i \in 1 .. Len(channel'[t]), NEW j \in 1 .. Len(poll'[p].got)
        PROVE  channel'[t][i] # poll'[p].got[j]
    <3>1. \/ i \in 1 .. Len(channel[t]) /\ channel'[t][i] = channel[t][i]
          \/ channel'[t][i] = m
      BY <1>7
    <3> QED  BY <1>5, <1>8, <3>1 DEF IInv, HeldOnce
  <2> QED  BY <1>5, <2>1, <2>2 DEF IInv, HeldOnce
<1>13. StoredIsHeld'
  <2> SUFFICES ASSUME NEW n \in Notices, send'[n].result = "stored"
               PROVE  \/ \E i \in 1 .. Len(channel'[send'[n].to]) :
                           channel'[send'[n].to][i] = n
                      \/ \E p \in Polls : \E i \in 1 .. Len(poll'[p].got) : poll'[p].got[i] = n
    BY DEF StoredIsHeld
  <2>1. CASE n = m
    <3>1. send'[n].to = s
      BY <1>2, <1>6, <2>1
    <3>2. Len(channel[s]) + 1 \in 1 .. Len(channel'[s])
      BY <1>7
    <3> QED  BY <1>7, <2>1, <3>1, <3>2
  <2>2. CASE n # m
    <3>1. /\ send[n].result = "stored" /\ send'[n].to = send[n].to
          /\ send[n].to \in Sessions
      BY <1>6, <2>2, NoneAssumption DEF IInv, TypeOK, Send, GoroutinesWellFormed, At
    <3> QED  BY <1>1, <1>5, <1>7, <3>1 DEF IInv, StoredIsHeld
  <2> QED  BY <2>1, <2>2
<1> QED  BY <1>9, <1>10, <1>11, <1>12, <1>13 DEF IInv

\* A request takes the first message of its session's channel.
LEMMA TakeMessageInv ==
  ASSUME IInv, NEW p \in Polls, TakeMessage(p)
  PROVE  IInv'
<1> DEFINE s == poll[p].of
           m == Head(channel[s])
           q == [poll[p] EXCEPT !.got = Append(poll[p].got, m)]
<1>1. poll[p] \in Poll /\ s \in Sessions /\ channel[s] \in Seq(Notices) /\ channel[s] # <<>>
  BY DEF TakeMessage, IInv, TypeOK, GoroutinesWellFormed
<1>2. /\ m \in Notices /\ m = channel[s][1] /\ Len(channel[s]) >= 1
      /\ Len(channel[s]) \in Nat /\ Len(poll[p].got) \in Nat
  BY <1>1 DEF Poll
<1>3. /\ q \in Poll /\ q.pc = poll[p].pc /\ q.of = s
      /\ Len(q.got) = Len(poll[p].got) + 1
      /\ q.got[Len(poll[p].got) + 1] = m
      /\ \A i \in 1 .. Len(poll[p].got) : q.got[i] = poll[p].got[i]
  <2> HIDE DEF m
  <2>1. poll[p].got \in Seq(Notices)
    BY <1>1 DEF Poll
  <2>2. Append(poll[p].got, m) \in Seq(Notices)
    BY <1>2, <2>1
  <2>3. q \in Poll /\ q.pc = poll[p].pc /\ q.of = s /\ q.got = Append(poll[p].got, m)
    <3> DEFINE more == Append(poll[p].got, m)
    <3> HIDE DEF more
    <3>1. poll[p] \in Poll /\ more \in Seq(Notices)
      BY <1>1, <2>2 DEF more
    <3>2. LET r == [poll[p] EXCEPT !.got = more]
          IN  r \in Poll /\ r.pc = poll[p].pc /\ r.of = s /\ r.got = more
      BY <3>1 DEF Poll
    <3> QED  BY <3>2 DEF more
  <2> HIDE DEF q
  <2> QED  BY <1>2, <2>1, <2>3
<1>4. poll' = [poll EXCEPT ![p] = q]
  BY DEF TakeMessage, IInv, TypeOK
<1>5. channel' = [channel EXCEPT ![s] = Tail(channel[s])]
  BY <1>1 DEF TakeMessage, IInv, TypeOK
<1>6. UNCHANGED <<connVars, lockVars, send, crashed>> /\ poll[p].pc = "waiting"
  BY DEF TakeMessage
<1>7. /\ channel' \in [Sessions -> Seq(Notices)]
      /\ \A t \in Sessions \ {s} : channel'[t] = channel[t]
      /\ Len(channel'[s]) = Len(channel[s]) - 1
      /\ \A i \in 1 .. Len(channel[s]) - 1 : channel'[s][i] = channel[s][i + 1]
  BY <1>1, <1>5 DEF IInv, TypeOK
<1> HIDE DEF q, m, s
<1>8. poll' \in [Polls -> Poll] /\ \A r \in Polls : poll'[r] = IF r = p THEN q ELSE poll[r]
  BY <1>3, <1>4 DEF IInv, TypeOK
<1>9. TypeOK'
  <2>1. \A t \in Sessions : Len(channel'[t]) <= Capacity
    BY <1>1, <1>2, <1>7, CapacityAssumption DEF IInv, TypeOK
  <2> QED  BY <1>6, <1>7, <1>8, <2>1 DEF connVars, lockVars, IInv, TypeOK
<1>10. ListedAreServed' /\ GoroutinesWellFormed'
  BY <1>1, <1>3, <1>6, <1>8
     DEF connVars, IInv, ListedAreServed, GoroutinesWellFormed, At
\* Each place of the next state holds what a place of this one does.
<1>11. \A t \in Sessions : \A i \in 1 .. Len(channel'[t]) :
         \/ t # s /\ i \in 1 .. Len(channel[t]) /\ channel'[t][i] = channel[t][i]
         \/ t = s /\ i + 1 \in 2 .. Len(channel[t]) /\ channel'[t][i] = channel[t][i + 1]
  BY <1>1, <1>2, <1>7
<1>12. \A r \in Polls : \A i \in 1 .. Len(poll'[r].got) :
         \/ i \in 1 .. Len(poll[r].got) /\ poll'[r].got[i] = poll[r].got[i]
         \/ r = p /\ i = Len(poll[p].got) + 1 /\ poll'[r].got[i] = channel[s][1]
  <2>1. \A i \in 1 .. Len(q.got) :
          \/ i \in 1 .. Len(poll[p].got) /\ q.got[i] = poll[p].got[i]
          \/ i = Len(poll[p].got) + 1 /\ q.got[i] = channel[s][1]
    <3>1. /\ Len(poll[p].got) \in Nat /\ Len(q.got) = Len(poll[p].got) + 1
          /\ q.got[Len(poll[p].got) + 1] = channel[s][1]
      BY <1>2, <1>3
    <3>2. \A i \in 1 .. Len(poll[p].got) : q.got[i] = poll[p].got[i]
      BY <1>3
    <3> QED  BY <3>1, <3>2
  <2> QED  BY <1>8, <2>1
<1>13. HeldWasStored'
  <2>1. ASSUME NEW t \in Sessions, NEW i \in 1 .. Len(channel'[t])
        PROVE  send[channel'[t][i]].result = "stored" /\ send[channel'[t][i]].to = t
    <3>1. \E j \in 1 .. Len(channel[t]) : channel'[t][i] = channel[t][j]
      BY <1>2, <1>11
    <3> QED  BY <3>1 DEF IInv, HeldWasStored
  <2>2. ASSUME NEW r \in Polls, NEW i \in 1 .. Len(poll'[r].got)
        PROVE  send[poll'[r].got[i]].result = "stored"
               /\ send[poll'[r].got[i]].to = poll'[r].of
    <3>1. poll'[r].of = poll[r].of
      BY <1>3, <1>8 DEF s
    <3>2. send[channel[s][1]].result = "stored" /\ send[channel[s][1]].to = s
      BY <1>1, <1>2 DEF IInv, HeldWasStored
    <3> QED  BY <1>12, <3>1, <3>2 DEF IInv, HeldWasStored, s
  <2> QED  BY <1>6, <2>1, <2>2 DEF HeldWasStored
<1>14. HeldOnce'
  <2>1. ASSUME NEW t \in Sessions, NEW i \in 1 .. Len(channel'[t]), NEW j \in 1 .. Len(channel'[t]),
               channel'[t][i] = channel'[t][j]
        PROVE  i = j
    BY <1>11, <1>2, <2>1 DEF IInv, HeldOnce
  <2>2. ASSUME NEW r \in Polls, NEW k \in Polls,
               NEW i \in 1 .. Len(poll'[r].got), NEW j \in 1 .. Len(poll'[k].got),
               poll'[r].got[i] = poll'[k].got[j]
        PROVE  r = k /\ i = j
    <3>1. \A l \in Polls : \A h \in 1 .. Len(poll[l].got) : poll[l].got[h] # channel[s][1]
      BY <1>1, <1>2 DEF IInv, HeldOnce
    <3>2. \/ i \in 1 .. Len(poll[r].got) /\ poll'[r].got[i] = poll[r].got[i]
          \/ r = p /\ i = Len(poll[p].got) + 1 /\ poll'[r].got[i] = channel[s][1]
      BY <1>12
    <3>3. \/ j \in 1 .. Len(poll[k].got) /\ poll'[k].got[j] = poll[k].got[j]
          \/ k = p /\ j = Len(poll[p].got) + 1 /\ poll'[k].got[j] = channel[s][1]
      BY <1>12
    <3> QED  BY <2>2, <3>1, <3>2, <3>3 DEF IInv, HeldOnce
  <2>3. ASSUME NEW t \in Sessions, NEW r \in Polls,
               NEW i \in 1 .. Len(channel'[t]), NEW j \in 1 .. Len(poll'[r].got)
        PROVE  channel'[t][i] # poll'[r].got[j]
    <3>1. CASE j \in 1 .. Len(poll[r].got) /\ poll'[r].got[j] = poll[r].got[j]
      BY <1>11, <3>1 DEF IInv, HeldOnce
    <3>2. CASE poll'[r].got[j] = channel[s][1]
      <4>1. channel'[t][i] # channel[s][1]
        <5>1. CASE t = s
          BY <1>2, <1>11, <5>1 DEF IInv, HeldOnce
        <5>2. CASE t # s
          <6>1. send[channel[s][1]].to = s
            BY <1>1, <1>2 DEF IInv, HeldWasStored
          <6>2. send[channel'[t][i]].to = t
            BY <1>11, <5>2 DEF IInv, HeldWasStored
          <6> QED  BY <5>2, <6>1, <6>2
        <5> QED  BY <5>1, <5>2
      <4> QED  BY <3>2, <4>1
    <3> QED  BY <1>12, <3>1, <3>2
  <2> QED  BY <2>1, <2>2, <2>3 DEF HeldOnce
<1>15. StoredIsHeld'
  <2> SUFFICES ASSUME NEW n \in Notices, send[n].result = "stored"
               PROVE  \/ \E i \in 1 .. Len(channel'[send[n].to]) :
                           channel'[send[n].to][i] = n
                      \/ \E r \in Polls : \E i \in 1 .. Len(poll'[r].got) : poll'[r].got[i] = n
    BY <1>6 DEF StoredIsHeld
  <2>1. CASE \E r \in Polls : \E i \in 1 .. Len(poll[r].got) : poll[r].got[i] = n
    BY <1>2, <1>3, <1>8, <2>1
  <2>2. CASE \E i \in 1 .. Len(channel[send[n].to]) : channel[send[n].to][i] = n
    <3>1. PICK i \in 1 .. Len(channel[send[n].to]) : channel[send[n].to][i] = n
      BY <2>2
    <3>2. send[n].to \in Sessions
      BY NoneAssumption DEF IInv, TypeOK, Send, GoroutinesWellFormed, At
    <3>3. CASE send[n].to # s
      BY <1>7, <3>1, <3>2, <3>3
    <3>4. CASE send[n].to = s /\ i = 1
      BY <1>2, <1>3, <1>8, <3>1, <3>4
    <3>5. CASE send[n].to = s /\ i # 1
      <4>1. i - 1 \in 1 .. Len(channel'[s]) /\ channel'[s][i - 1] = n
        BY <1>2, <1>7, <3>1, <3>5
      <4> QED  BY <3>5, <4>1
    <3> QED  BY <3>3, <3>4, <3>5
  <2> QED  BY <2>1, <2>2 DEF IInv, StoredIsHeld
<1> QED  BY <1>9, <1>10, <1>13, <1>14, <1>15 DEF IInv

\* The other steps of a request take no message.
LEMMA PollInv ==
  ASSUME IInv, NEW p \in Polls, AnswerPoll(p) \/ \E s \in Sessions : BeginPoll(p, s)
  PROVE  IInv'
<1>1. /\ poll' \in [Polls -> Poll]
      /\ \A r \in Polls : poll'[r].got = poll[r].got
      /\ \A r \in Polls \ {p} : poll'[r] = poll[r]
      /\ poll'[p].pc # "idle" /\ poll'[p].of \in Sessions
      /\ poll[p].pc = "idle" \/ poll'[p].of = poll[p].of
  <2>1. CASE AnswerPoll(p)
    <3>1. poll[p].of \in Sessions
      BY <2>1 DEF AnswerPoll, IInv, GoroutinesWellFormed
    <3>2. Draining(p) \in BOOLEAN
      BY DEF Draining
    <3> DEFINE q == [poll[p] EXCEPT !.pc = "answered", !.acked = Draining(p)]
    <3>3. poll[p] \in Poll /\ q \in Poll /\ q.pc = "answered"
          /\ q.of = poll[p].of /\ q.got = poll[p].got
      BY <3>2 DEF IInv, TypeOK, Poll
    <3>4. poll' = [poll EXCEPT ![p] = q]
      BY <2>1 DEF AnswerPoll, IInv, TypeOK
    <3> HIDE DEF q
    <3> QED  BY <3>1, <3>3, <3>4 DEF IInv, TypeOK
  <2>2. CASE \E s \in Sessions : BeginPoll(p, s)
    <3>1. PICK s \in Sessions : BeginPoll(p, s)
      BY <2>2
    <3> DEFINE q == [poll[p] EXCEPT !.pc = "waiting", !.of = s]
    <3>2. q \in Poll /\ q.pc = "waiting" /\ q.of = s /\ q.got = poll[p].got
      BY DEF IInv, TypeOK, Poll
    <3>3. poll' = [poll EXCEPT ![p] = q] /\ poll[p].pc = "idle"
      BY <3>1 DEF BeginPoll, IInv, TypeOK
    <3> HIDE DEF q
    <3> QED  BY <3>2, <3>3 DEF IInv, TypeOK
  <2> QED  BY <2>1, <2>2
<1>2. UNCHANGED <<connVars, lockVars, send, channel, crashed>>
  BY DEF AnswerPoll, BeginPoll
<1>3. poll[p].pc = "idle" => poll[p].got = <<>>
  BY DEF IInv, GoroutinesWellFormed
<1>4. TypeOK'
  BY <1>1, <1>2 DEF connVars, lockVars, IInv, TypeOK
<1>5. ListedAreServed' /\ GoroutinesWellFormed'
  BY <1>1, <1>2 DEF connVars, IInv, ListedAreServed, GoroutinesWellFormed, At
<1>6. HeldWasStored'
  BY <1>1, <1>2, <1>3 DEF IInv, HeldWasStored
<1>7. HeldOnce' /\ StoredIsHeld'
  BY <1>1, <1>2 DEF IInv, HeldOnce, StoredIsHeld
<1> QED  BY <1>4, <1>5, <1>6, <1>7 DEF IInv

LEMMA NextInv == IInv /\ [Next]_vars => IInv'
<1> SUFFICES ASSUME IInv, [Next]_vars PROVE IInv'
  OBVIOUS
<1>1. CASE Next
  <2>1. ASSUME NEW c \in Conns, Receive(c) \/ HandleStep(c) PROVE IInv'
    BY <2>1, ReceiveInv, HandleStepInv
  <2>2. ASSUME NEW m \in Notices, SendStep(m) PROVE IInv'
    BY <2>2, WriteStepInv, AddMessageInv DEF SendStep
  <2>3. ASSUME NEW m \in Notices, NEW s \in Notified, StartSend(m, s) PROVE IInv'
    BY <2>3, StartSendInv, NotifiedAssumption
  <2>4. ASSUME NEW p \in Polls, PollStep(p) \/ \E s \in Notified : BeginPoll(p, s) PROVE IInv'
    BY <2>4, TakeMessageInv, PollInv, NotifiedAssumption DEF PollStep
  <2> QED  BY <1>1, <2>1, <2>2, <2>3, <2>4 DEF Next
<1>2. CASE UNCHANGED vars
  <2>1. TypeOK' /\ ListedAreServed'
    BY <1>2 DEF vars, connVars, lockVars, IInv, TypeOK, ListedAreServed
  <2> QED  BY <1>2, <2>1, NothingDelivered DEF vars, IInv
<1> QED  BY <1>1, <1>2

LEMMA Invariance == Spec => []IInv
BY InitInv, NextInv, PTL DEF Spec

-----------------------------------------------------------------------------
(* The theorems *)

\* The maps, the locks, the goroutines, the channels and the requests keep their types, and
\* AddMessage never puts more into a channel than its capacity.
THEOREM TypeCorrect == Spec => []TypeOK
<1>1. IInv => TypeOK
  BY DEF IInv
<1> QED  BY <1>1, Invariance, PTL

\* However the Store, StoreAndDelete and Delete of several connections follow one another,
\* no session leads to a connection that Close has set to nil.
THEOREM ListedConnectionsAreOpen == Spec => []ListedAreOpen
BY ServedAreOpen, Invariance, PTL

\* SendOrStoreMessage and WaitForMessages neither lose nor repeat a message between them: what
\* was stored is in the channel of its session, or with one of its requests, once.
THEOREM MessagesAreDeliveredOnce == Spec => []DeliveredOnce
BY HeldIsDelivered, Invariance, PTL
=============================================================================
