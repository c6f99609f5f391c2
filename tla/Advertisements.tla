--------------------------- MODULE Advertisements ---------------------------
(***************************************************************************)
(* The matches of one game title: server/internal/models/advertisement.go  *)
(* and the handlers that create them and change who is in them             *)
(* (routes/game/advertisement/{host,join,leave}.go, party/{peerAdd,        *)
(* updateHost}.go, and the first half of login/logout.go).                 *)
(*                                                                         *)
(* Every HTTP request runs in a goroutine of its own, so a handler is cut  *)
(* here at each point where it reads or writes the shared maps.  A write   *)
(* section of an advertisement (WithWriteLock) is one step when it changes *)
(* the shared maps once, and holds lockedBy over several steps when it     *)
(* changes them more often, because GetUserAdvertisement and UpdateHost    *)
(* read the maps without the lock.  The lock itself is that of             *)
(* KeyRWMutex, for an advertisement whose mutex is not overwritten.        *)
(*                                                                         *)
(* Ids are drawn from all the int32s until an unused one is found: an id   *)
(* is never drawn twice here.  What a handler only writes to its response  *)
(* is left out: Join answers a failed password or version check, and Host  *)
(* a failed party check, with an error and then goes on.                   *)
(***************************************************************************)
EXTENDS OrderedKeys, FiniteSets

CONSTANTS
  Users, AdvIds,
  Requests,   \* the requests that can be in progress at once
  Titles,     \* the game titles; MultiMatch is the one with party matches
  MultiMatch, \* AoE4, "which needs multiple for groups"
  None

ASSUME NoneAssumption ==
  /\ None \notin Users /\ None \notin AdvIds /\ None \notin Requests

VARIABLES
  title,      \* the game title of this store; it never changes
  store,      \* the keys of advs.store, in order
  created,    \* the ids that have been stored so far
  peers,      \* per advertisement: the keys of adv.peers, in order
  hostId,     \* per advertisement: adv.hostId
  lockedBy,   \* per advertisement: the request that is inside a write section
  req,        \* the requests in progress
  everPeer,   \* history, per advertisement: the users that have been peers
  sequential  \* history: the users that have never had two requests in progress,
              \* nor been added by a host

advVars == <<store, created, peers, hostId, lockedBy>>
history == <<everPeer, sequential>>
vars == <<title, advVars, req, history>>

Ops == {"host", "join", "leave", "logout", "peerAdd", "updateHost"}

Steps == {"idle", "find", "remove", "drop", "store", "lookup", "newPeer", "peerAdd",
          "adding", "checkFirst", "setHost"}

\* A request: where its handler is, the user it acts for, the advertisement it names or
\* has stored, the one its user is being removed from, what GetUserAdvertisement has
\* still to look at, and the users PeerAdd has still to add.
Request == [pc : Steps, op : Ops \cup {None}, user : Users \cup {None},
            target : AdvIds \cup {None}, leaving : AdvIds \cup {None},
            scan : Seq(AdvIds), todo : Seq(Users)]

NoRequest == [pc |-> "idle", op |-> None, user |-> None, target |-> None,
              leaving |-> None, scan |-> <<>>, todo |-> <<>>]

Listed(a) == a \in Range(store)
IsPeer(u, a) == u \in Range(peers[a])

Init ==
  /\ title \in Titles
  /\ store = <<>>
  /\ created = {}
  /\ peers = [a \in AdvIds |-> <<>>]
  /\ hostId = [a \in AdvIds |-> None]
  /\ lockedBy = [a \in AdvIds |-> None]
  /\ req = [r \in Requests |-> NoRequest]
  /\ everPeer = [a \in AdvIds |-> {}]
  /\ sequential = Users

-----------------------------------------------------------------------------
\* Host and Join first take the user out of a match, except in AoE4.
LeavesPrevious == title # MultiMatch

FirstStep(o) ==
  CASE o = "logout" -> "find"
    [] o = "leave" -> "remove"
    [] o = "host" -> IF LeavesPrevious THEN "find" ELSE "store"
    [] o = "join" -> IF LeavesPrevious THEN "find" ELSE "lookup"
    [] o = "peerAdd" -> "peerAdd"
    [] o = "updateHost" -> "checkFirst"

At(r, step) == req[r].pc = step
Goto(r, step) == req' = [req EXCEPT ![r].pc = step]
Respond(r) == req' = [req EXCEPT ![r] = NoRequest]

\* The request enters, or leaves, the write section of advertisement a.
Unlocked(a) == lockedBy[a] = None
Enter(r, a) == lockedBy' = [lockedBy EXCEPT ![a] = r]
ExitStillLocked(a) == UNCHANGED lockedBy \* Mutant: no deferred Unlock.
Exit(a) == lockedBy' = [lockedBy EXCEPT ![a] = None]

\* Where a handler goes on once its user has been removed from a match, or found in none.
\* What Logout does after that concerns no advertisement.
GoOn(r) ==
  CASE req[r].op = "host" -> Goto(r, "store")
    [] req[r].op = "join" -> Goto(r, "lookup")
    [] OTHER -> Respond(r)

Busy(u) == \E r \in Requests : ~At(r, "idle") /\ req[r].user = u

\* Leave names the advertisement to leave, the others look for it.
Leaving(o, a) == IF o = "leave" THEN a ELSE None

\* A request of user u arrives; a is the advertisement it names, if it names one.
\* GetUserAdvertisement starts from the advertisements that are stored by then.
Begin(r, o, u, a) ==
  /\ At(r, "idle")
  /\ IF o \in {"host", "logout"} THEN a = None ELSE a \in created
  /\ req' = [req EXCEPT ![r] =
       [pc |-> FirstStep(o), op |-> o, user |-> u, target |-> a,
        leaving |-> Leaving(o, a),
        scan |-> IF FirstStep(o) = "find" THEN store ELSE <<>>, todo |-> <<>>]]
  /\ sequential' = IF Busy(u) THEN sequential \ {u} ELSE sequential
  /\ UNCHANGED <<title, advVars, everPeer>>

Found(r, a) ==
  req' = [req EXCEPT ![r].leaving = a, ![r].scan = <<>>, ![r].pc = "remove"]

\* Mutant: only the first match is looked at.
ScanFirstOnly(r) ==
  /\ At(r, "find")
  /\ IF req[r].scan # <<>> /\ IsPeer(req[r].user, Head(req[r].scan))
     THEN Found(r, Head(req[r].scan))
     ELSE GoOn(r)
  /\ UNCHANGED <<title, advVars, history>>

\* GetUserAdvertisement: one turn of its loop, over the peers as they are now.
Scan(r) ==
  /\ At(r, "find")
  /\ IF req[r].scan = <<>>
     THEN GoOn(r)
     ELSE IF IsPeer(req[r].user, Head(req[r].scan))
     THEN Found(r, Head(req[r].scan))
     ELSE req' = [req EXCEPT ![r].scan = Tail(@)]
  /\ UNCHANGED <<title, advVars, history>>

\* UnsafeRemovePeer, under the write lock: the user leaves adv.peers ...
RemovePeer(r) ==
  LET a == req[r].leaving IN
  /\ At(r, "remove") /\ Unlocked(a)
  /\ IF Listed(a) /\ IsPeer(req[r].user, a)
     THEN /\ peers' = [peers EXCEPT ![a] = WithoutKey(@, req[r].user)]
          /\ Enter(r, a) /\ Goto(r, "drop")
     ELSE GoOn(r) /\ UNCHANGED <<peers, lockedBy>>
  /\ UNCHANGED <<title, store, created, hostId, history>>

\* Mutant: the advertisement is deleted only when its host is the last to leave.
DropIfHost(r) ==
  LET a == req[r].leaving IN
  /\ At(r, "drop")
  /\ store' = IF peers[a] = <<>> /\ hostId[a] = req[r].user
              THEN WithoutKey(store, a) ELSE store
  /\ Exit(a) /\ GoOn(r)
  /\ UNCHANGED <<title, created, peers, hostId, history>>

\* ... and the advertisement that has nobody left is deleted; the section ends.
DropIfEmpty(r) ==
  LET a == req[r].leaving IN
  /\ At(r, "drop")
  /\ store' = IF peers[a] = <<>> THEN WithoutKey(store, a) ELSE store
  /\ Exit(a) /\ GoOn(r)
  /\ UNCHANGED <<title, created, peers, hostId, history>>

\* Host: Store, without a lock, of an advertisement that has no peers yet.
StoreAdvertisement(r) ==
  /\ At(r, "store")
  /\ \E a \in AdvIds \ created :
       /\ created' = created \cup {a}
       /\ store' = Append(store, a)
       /\ hostId' = [hostId EXCEPT ![a] = req[r].user]
       /\ req' = [req EXCEPT ![r].target = a, ![r].pc = "newPeer"]
  /\ UNCHANGED <<title, peers, lockedBy, history>>

\* Join: the advertisement is looked up; a party that does not match is refused.
Lookup(r) ==
  /\ At(r, "lookup")
  /\ \/ Listed(req[r].target) /\ Goto(r, "newPeer")
     \/ Respond(r)
  /\ UNCHANGED <<title, advVars, history>>

AddUser(a, u) ==
  /\ peers' = [peers EXCEPT ![a] = WithKey(@, u)]
  /\ everPeer' = [everPeer EXCEPT ![a] = @ \cup {u}]

\* Mutant: the peer is added to the advertisement that was looked up before.
NewPeerUnchecked(r) ==
  LET a == req[r].target IN
  /\ At(r, "newPeer") /\ Unlocked(a)
  /\ AddUser(a, req[r].user)
  /\ Respond(r)
  /\ UNCHANGED <<title, store, created, hostId, lockedBy, sequential>>

\* Host and Join: UnsafeNewPeer under the write lock, which looks the id up again.
NewPeer(r) ==
  LET a == req[r].target IN
  /\ At(r, "newPeer") /\ Unlocked(a)
  /\ IF Listed(a) THEN AddUser(a, req[r].user) ELSE UNCHANGED <<peers, everPeer>>
  /\ Respond(r)
  /\ UNCHANGED <<title, store, created, hostId, lockedBy, sequential>>

\* PeerAdd: under the write lock, the host names the users to add, all of them known
\* to the server.  Anything else ends the section at once.
BeginPeerAdd(r) ==
  LET a == req[r].target IN
  /\ At(r, "peerAdd") /\ Unlocked(a)
  /\ \/ /\ Listed(a) /\ hostId[a] = req[r].user
        /\ \E us \in {<<u>> : u \in Users} \cup (Users \X Users) :
             /\ req' = [req EXCEPT ![r].todo = us, ![r].pc = "adding"]
             /\ sequential' = sequential \ Range(us)
        /\ Enter(r, a)
     \/ Respond(r) /\ UNCHANGED <<sequential, lockedBy>>
  /\ UNCHANGED <<title, store, created, peers, hostId, everPeer>>

\* PeerAdd adds one user, and after the last one leaves the section; when UnsafeNewPeer
\* does not find the advertisement, neither does the rollback, and the section ends.
AddPeer(r) ==
  LET a == req[r].target IN
  /\ At(r, "adding")
  /\ IF Listed(a) THEN AddUser(a, Head(req[r].todo)) ELSE UNCHANGED <<peers, everPeer>>
  /\ IF Listed(a) /\ Tail(req[r].todo) # <<>>
     THEN req' = [req EXCEPT ![r].todo = Tail(@)] /\ UNCHANGED lockedBy
     ELSE Exit(a) /\ Respond(r)
  /\ UNCHANGED <<title, store, created, hostId, sequential>>

\* UpdateHost: whether the user is the first peer is read without the lock ...
CheckFirst(r) ==
  LET a == req[r].target IN
  /\ At(r, "checkFirst")
  /\ IF Listed(a) /\ peers[a] # <<>> /\ Head(peers[a]) = req[r].user
     THEN Goto(r, "setHost")
     ELSE Respond(r)
  /\ UNCHANGED <<title, advVars, history>>

\* ... and the host is set under it.
SetHost(r) ==
  LET a == req[r].target IN
  /\ At(r, "setHost") /\ Unlocked(a)
  /\ hostId' = [hostId EXCEPT ![a] = req[r].user]
  /\ Respond(r)
  /\ UNCHANGED <<title, store, created, peers, lockedBy, history>>

Next ==
  \E r \in Requests :
    \/ \E o \in Ops, u \in Users, a \in AdvIds \cup {None} : Begin(r, o, u, a)
    \/ Scan(r) \/ RemovePeer(r) \/ DropIfEmpty(r)
    \/ StoreAdvertisement(r) \/ Lookup(r) \/ NewPeer(r)
    \/ BeginPeerAdd(r) \/ AddPeer(r)
    \/ CheckFirst(r) \/ SetHost(r)

Spec == Init /\ [][Next]_vars

\* Handlers run on, and a goroutine that waits for the lock of an advertisement gets
\* it: a sync.RWMutex serves the goroutines that wait for it in turn.
Fairness ==
  \A r \in Requests :
    /\ WF_vars(\/ Scan(r) \/ DropIfEmpty(r) \/ StoreAdvertisement(r)
               \/ Lookup(r) \/ AddPeer(r) \/ CheckFirst(r))
    /\ SF_vars(RemovePeer(r) \/ NewPeer(r) \/ BeginPeerAdd(r) \/ SetHost(r))

FairSpec == Spec /\ Fairness

-----------------------------------------------------------------------------
\* A request that works on an advertisement has one, and is at a step of its handler.
WellFormed(q) ==
  /\ q \in Request
  /\ q.pc # "idle" => q.op \in Ops /\ q.user \in Users
  /\ q.pc = "store" => q.op = "host"
  /\ q.pc = "lookup" => q.op = "join"
  /\ q.pc \in {"remove", "drop"} => q.leaving \in AdvIds
  /\ q.pc \in {"lookup", "newPeer", "peerAdd", "adding", "checkFirst", "setHost"}
       => q.target \in AdvIds
  /\ q.pc \in {"find", "remove", "drop"} /\ q.op = "join" => q.target \in AdvIds
  /\ q.pc = "adding" => q.todo # <<>>

\* The type invariant of the store and of the requests.
TypeOK ==
  /\ title \in Titles
  /\ store \in Seq(AdvIds)
  /\ created \subseteq AdvIds
  /\ peers \in [AdvIds -> Seq(Users)]
  /\ hostId \in [AdvIds -> Users \cup {None}]
  /\ lockedBy \in [AdvIds -> Requests \cup {None}]
  /\ req \in [Requests -> Request]
  /\ \A r \in Requests : WellFormed(req[r])
  /\ everPeer \in [AdvIds -> SUBSET Users]
  /\ sequential \subseteq Users

\* Nobody is ever put into, or left in, a match that searches can no longer reach:
\* a Join or Host that loses the race with the last peer's departure adds no one.
NoGhostPeers == \A a \in AdvIds : ~Listed(a) => peers[a] = <<>>

\* A match without peers is listed only while its host is on the way in, or while the
\* departure that emptied it is still deleting it: no empty match stays behind.
NoAbandonedMatch ==
  \A a \in Range(store) :
    peers[a] = <<>> =>
      \E r \in Requests :
        \/ At(r, "newPeer") /\ req[r].op = "host" /\ req[r].target = a
        \/ At(r, "drop") /\ req[r].leaving = a

\* While PeerAdd adds its users the match cannot go away: its write section ends with
\* all of them added, and the rollback in peerAdd.go is never taken.
PeerAddNeverRollsBack ==
  \A r \in Requests : At(r, "adding") => Listed(req[r].target)

\* A host is somebody who has been in the match: a takeover by UpdateHost is by a
\* user who was its first peer, whatever happened since the check.
HostWasPeer ==
  \A a \in Range(store) :
    \/ hostId[a] \in everPeer[a]
    \/ \E r \in Requests : At(r, "newPeer") /\ req[r].op = "host" /\ req[r].target = a

MatchesOf(u) == {a \in AdvIds : IsPeer(u, a)}

\* "Leave the previous match if the user is already in one", outside AoE4: this holds
\* for the users whose requests come one after the other and whom no host adds to a
\* match.  (Two requests at once of one user can each miss the match of the other.)
SequentialUserInOneMatch ==
  LeavesPrevious => \A u \in sequential : Cardinality(MatchesOf(u)) <= 1

\* Every request is answered: each write section is left, whatever the others do.  (A
\* Host that finds no unused id waits: ids do not run out in the code.)
RequestsAnswered ==
  \A r \in Requests : ~At(r, "idle") ~> (At(r, "idle") \/ At(r, "store"))

=============================================================================
