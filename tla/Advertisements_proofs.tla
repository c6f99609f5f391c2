----------------------- MODULE Advertisements_proofs -----------------------
(***************************************************************************)
(* The safety invariants of Advertisements, for any users, ids, requests   *)
(* and titles.  NoGhostPeers, NoAbandonedMatch and PeerAddNeverRollsBack   *)
(* hold because a write section really excludes the others: LockInv says   *)
(* who is inside one, and InsideIsListed that what a section works on      *)
(* cannot be deleted under it.  That a user is in one match at most is     *)
(* proved from these: its one request knows where the user still can be.   *)
(***************************************************************************)
EXTENDS Advertisements, OrderedKeysTheorems, FiniteSetTheorems

\* The keys of the store and of each peers map are distinct.
Distinct == IsInjective(store) /\ \A a \in AdvIds : IsInjective(peers[a])

\* What is listed, or named by a request, has been stored.
CreatedInv ==
  /\ Range(store) \subseteq created
  /\ \A r \in Requests : req[r].target \in created \cup {None}

Inside(r, a) ==
  \/ At(r, "drop") /\ req[r].leaving = a
  \/ At(r, "adding") /\ req[r].target = a

\* lockedBy[a] is the one request inside a write section of a.
LockInv == \A r \in Requests, a \in AdvIds : lockedBy[a] = r <=> Inside(r, a)

\* The advertisement of a write section stays listed until the section deletes it.
InsideIsListed == \A r \in Requests, a \in AdvIds : Inside(r, a) => Listed(a)

\* Peers are remembered in everPeer; so is the user of a pending SetHost, and a pending
\* Host is by the host unless someone who has been a peer took over.
HostHistory ==
  /\ \A a \in AdvIds : Range(peers[a]) \subseteq everPeer[a]
  /\ \A r \in Requests :
       At(r, "setHost") => req[r].user \in everPeer[req[r].target]
  /\ \A r \in Requests, a \in AdvIds :
       (At(r, "newPeer") /\ req[r].op = "host" /\ req[r].target = a)
         => hostId[a] = req[r].user \/ hostId[a] \in everPeer[a]

\* The inductive invariant.
IInv ==
  /\ TypeOK
  /\ Distinct
  /\ CreatedInv
  /\ LockInv
  /\ InsideIsListed
  /\ NoGhostPeers
  /\ NoAbandonedMatch
  /\ HostHistory
  /\ HostWasPeer

-----------------------------------------------------------------------------
\* A step replaces one request by another.
LEMMA ReqStep ==
  ASSUME TypeOK, NEW r \in Requests, NEW q, WellFormed(q),
         req' = [req EXCEPT ![r] = q]
  PROVE  /\ req' \in [Requests -> Request]
         /\ \A u \in Requests : WellFormed(req'[u])
         /\ req'[r] = q
         /\ \A u \in Requests \ {r} : req'[u] = req[u]
<1>1. q \in Request
  BY DEF WellFormed
<1> QED  BY <1>1 DEF TypeOK

LEMMA NoRequestWellFormed == WellFormed(NoRequest)
<1>1. <<>> \in Seq(AdvIds) /\ <<>> \in Seq(Users)
  BY EmptySeq
<1> QED  BY <1>1 DEF WellFormed, NoRequest, Request, Steps

\* After it has removed the user, a request is past every write section, and still has
\* the target it was sent with.
LEMMA GoOnStep ==
  ASSUME TypeOK, NEW r \in Requests, GoOn(r), req[r].pc \in {"find", "remove", "drop"}
  PROVE  \E q : /\ WellFormed(q)
                /\ req' = [req EXCEPT ![r] = q]
                /\ q.pc \in {"idle", "store", "lookup"}
                /\ q.target \in {req[r].target, None}
                /\ q.pc # "idle" => q.user = req[r].user /\ req[r].op \in {"host", "join"}
<1>1. req[r] \in Request /\ WellFormed(req[r])
  BY DEF TypeOK
<1>2. CASE req[r].op = "host"
  <2> DEFINE q == [req[r] EXCEPT !.pc = "store"]
  <2>1. Goto(r, "store")
    BY <1>2 DEF GoOn
  <2>2. /\ q \in Request /\ WellFormed(q) /\ q.pc = "store"
        /\ q.target = req[r].target /\ q.user = req[r].user
    BY <1>1, <1>2 DEF WellFormed, Request, Steps
  <2>3. req' = [req EXCEPT ![r] = q]
    BY <2>1, <2>2 DEF Goto, TypeOK
  <2> HIDE DEF q
  <2> QED  BY <1>2, <2>2, <2>3
<1>3. CASE req[r].op = "join"
  <2> DEFINE q == [req[r] EXCEPT !.pc = "lookup"]
  <2>1. Goto(r, "lookup")
    BY <1>3 DEF GoOn
  <2>2. /\ q \in Request /\ WellFormed(q) /\ q.pc = "lookup"
        /\ q.target = req[r].target /\ q.user = req[r].user
    BY <1>1, <1>3 DEF WellFormed, Request, Steps
  <2>3. req' = [req EXCEPT ![r] = q]
    BY <2>1, <2>2 DEF Goto, TypeOK
  <2> HIDE DEF q
  <2> QED  BY <1>3, <2>2, <2>3
<1>4. CASE req[r].op \notin {"host", "join"}
  <2>1. Respond(r)
    BY <1>4 DEF GoOn
  <2>2. NoRequest.pc = "idle" /\ NoRequest.target = None
    BY DEF NoRequest
  <2>3. req' = [req EXCEPT ![r] = NoRequest]
    BY <2>1 DEF Respond
  <2> QED  BY <2>2, <2>3, NoRequestWellFormed
<1> QED  BY <1>2, <1>3, <1>4

-----------------------------------------------------------------------------
LEMMA InitInv == Init => IInv
<1> SUFFICES ASSUME Init PROVE IInv
  OBVIOUS
<1>1. /\ <<>> \in Seq(AdvIds) /\ <<>> \in Seq(Users)
      /\ DOMAIN <<>> = {} /\ Range(<<>>) = {}
  BY EmptySeq, LenProperties DEF Range
<1>2. \A r \in Requests : req[r] = NoRequest /\ req[r].pc = "idle" /\ req[r].target = None
  BY DEF Init, NoRequest
<1>3. NoRequest \in Request /\ WellFormed(NoRequest)
  BY NoRequestWellFormed DEF WellFormed
<1>4. TypeOK
  BY <1>1, <1>2, <1>3 DEF Init, TypeOK
<1>5. Distinct /\ CreatedInv
  BY <1>1, <1>2 DEF Init, Distinct, CreatedInv, IsInjective
<1>6. LockInv /\ InsideIsListed
  BY <1>2, NoneAssumption DEF Init, LockInv, InsideIsListed, Inside, At
<1>7. NoGhostPeers /\ NoAbandonedMatch /\ HostWasPeer
  BY <1>1 DEF Init, NoGhostPeers, NoAbandonedMatch, HostWasPeer, Listed
<1>8. HostHistory
  BY <1>1, <1>2 DEF Init, HostHistory, At
<1> QED  BY <1>4, <1>5, <1>6, <1>7, <1>8 DEF IInv

\* A step outside the write sections that only moves request r on.
LEMMA QuietStep ==
  ASSUME IInv, NEW r \in Requests, NEW q, WellFormed(q),
         req' = [req EXCEPT ![r] = q],
         UNCHANGED <<title, advVars, everPeer>>, sequential' \subseteq sequential,
         req[r].pc \notin {"drop", "adding", "newPeer"},
         q.pc \notin {"drop", "adding"},
         q.pc = "newPeer" => q.op # "host",
         q.pc = "setHost" => q.user \in everPeer[q.target],
         q.target \in created \cup {None}
  PROVE  IInv'
<1>1. /\ req' \in [Requests -> Request]
      /\ \A u \in Requests : WellFormed(req'[u])
      /\ req'[r] = q
      /\ \A u \in Requests \ {r} : req'[u] = req[u]
  BY ReqStep DEF IInv
<1>2. TypeOK'
  BY <1>1 DEF IInv, TypeOK, advVars
<1>3. Distinct' /\ CreatedInv'
  BY <1>1 DEF IInv, Distinct, CreatedInv, advVars
<1>4. \A u \in Requests, a \in AdvIds : Inside(u, a)' <=> Inside(u, a)
  BY <1>1 DEF Inside, At
<1>5. LockInv' /\ InsideIsListed'
  BY <1>4 DEF IInv, LockInv, InsideIsListed, Listed, advVars
<1>6. NoGhostPeers'
  BY DEF IInv, NoGhostPeers, Listed, advVars
<1>7. NoAbandonedMatch'
  BY <1>1 DEF IInv, NoAbandonedMatch, At, advVars
<1>8. HostHistory'
  BY <1>1 DEF IInv, HostHistory, At, advVars
<1>9. HostWasPeer'
  BY <1>1 DEF IInv, HostWasPeer, At, advVars
<1> QED  BY <1>2, <1>3, <1>5, <1>6, <1>7, <1>8, <1>9 DEF IInv

LEMMA RespondStep ==
  ASSUME IInv, NEW r \in Requests, Respond(r),
         UNCHANGED <<title, advVars, everPeer>>, sequential' \subseteq sequential,
         req[r].pc \notin {"drop", "adding", "newPeer"}
  PROVE  IInv'
<1>1. NoRequest.pc = "idle" /\ NoRequest.target = None
  BY DEF NoRequest
<1>2. req' = [req EXCEPT ![r] = NoRequest]
  BY DEF Respond
<1> QED  BY <1>1, <1>2, NoRequestWellFormed, QuietStep

LEMMA BeginInv ==
  ASSUME IInv, NEW r \in Requests, NEW o \in Ops, NEW u \in Users,
         NEW a \in AdvIds \cup {None}, Begin(r, o, u, a)
  PROVE  IInv'
<1> DEFINE q == [pc |-> FirstStep(o), op |-> o, user |-> u, target |-> a,
                 leaving |-> Leaving(o, a),
                 scan |-> IF FirstStep(o) = "find" THEN store ELSE <<>>, todo |-> <<>>]
<1>1. <<>> \in Seq(AdvIds) /\ <<>> \in Seq(Users) /\ store \in Seq(AdvIds)
  BY EmptySeq DEF IInv, TypeOK
<1>2. /\ FirstStep(o) \in {"find", "remove", "store", "lookup", "peerAdd", "checkFirst"}
      /\ FirstStep(o) = "store" => o = "host"
      /\ FirstStep(o) = "lookup" => o = "join"
      /\ FirstStep(o) = "remove" => o = "leave"
      /\ o = "join" => FirstStep(o) \in {"find", "lookup"}
      /\ FirstStep(o) \in {"peerAdd", "checkFirst"} => o \in {"peerAdd", "updateHost"}
  BY DEF FirstStep, Ops
<1>3. /\ o \notin {"host", "logout"} => a \in AdvIds /\ a \in created
      /\ o \in {"host", "logout"} => a = None
  BY NoneAssumption DEF Begin, IInv, TypeOK
<1>4. q \in Request
  BY <1>1, <1>2 DEF Request, Steps, Leaving
<1>5. WellFormed(q)
  BY <1>2, <1>3, <1>4 DEF WellFormed, Leaving
<1>6. /\ req' = [req EXCEPT ![r] = q]
      /\ UNCHANGED <<title, advVars, everPeer>>
      /\ sequential' \subseteq sequential
      /\ req[r].pc = "idle"
  BY DEF Begin, At
<1>7. /\ q.pc \notin {"drop", "adding", "newPeer", "setHost"}
      /\ q.target \in created \cup {None}
  BY <1>2, <1>3
<1> HIDE DEF q
<1> QED  BY <1>5, <1>6, <1>7, QuietStep

LEMMA ScanInv ==
  ASSUME IInv, NEW r \in Requests, Scan(r)
  PROVE  IInv'
<1>1. /\ req[r] \in Request /\ WellFormed(req[r])
      /\ req[r].pc = "find" /\ req[r].scan \in Seq(AdvIds)
      /\ req[r].target \in created \cup {None}
  BY DEF IInv, TypeOK, CreatedInv, Scan, At, Request
<1>2. UNCHANGED <<title, advVars, everPeer>> /\ sequential' \subseteq sequential
  BY DEF Scan, history
<1>3. CASE GoOn(r)
  <2>1. PICK q : /\ WellFormed(q)
                 /\ req' = [req EXCEPT ![r] = q]
                 /\ q.pc \in {"idle", "store", "lookup"}
                 /\ q.target \in {req[r].target, None}
    BY <1>1, <1>3, GoOnStep DEF IInv
  <2> QED  BY <1>1, <1>2, <2>1, QuietStep
<1>4. ASSUME req[r].scan # <<>>, Found(r, Head(req[r].scan))
      PROVE  IInv'
  <2> DEFINE q == [req[r] EXCEPT !.leaving = Head(req[r].scan), !.scan = <<>>,
                                 !.pc = "remove"]
  <2>1. Head(req[r].scan) \in AdvIds /\ <<>> \in Seq(AdvIds)
    BY <1>1, <1>4, EmptySeq, HeadTailProperties
  <2>2. q \in Request /\ q.pc = "remove" /\ q.target = req[r].target
    BY <1>1, <2>1 DEF Request, Steps
  <2>3. WellFormed(q)
    BY <1>1, <2>1, <2>2 DEF WellFormed, Request
  <2>4. req' = [req EXCEPT ![r] = q]
    BY <1>1, <1>4 DEF Found, IInv, TypeOK
  <2> HIDE DEF q
  <2> QED  BY <1>1, <1>2, <2>2, <2>3, <2>4, QuietStep
<1>5. ASSUME req[r].scan # <<>>, req' = [req EXCEPT ![r].scan = Tail(@)]
      PROVE  IInv'
  <2> DEFINE q == [req[r] EXCEPT !.scan = Tail(req[r].scan)]
  <2>1. Tail(req[r].scan) \in Seq(AdvIds)
    BY <1>1, <1>5, HeadTailProperties
  <2>2. q \in Request /\ q.pc = "find" /\ q.target = req[r].target
    BY <1>1, <2>1 DEF Request, Steps
  <2>3. WellFormed(q)
    BY <1>1, <2>1, <2>2 DEF WellFormed, Request
  <2>4. req' = [req EXCEPT ![r] = q]
    BY <1>1, <1>5 DEF IInv, TypeOK
  <2> HIDE DEF q
  <2> QED  BY <1>1, <1>2, <2>2, <2>3, <2>4, QuietStep
<1> QED  BY <1>3, <1>4, <1>5 DEF Scan

LEMMA LookupInv ==
  ASSUME IInv, NEW r \in Requests, Lookup(r)
  PROVE  IInv'
<1>1. /\ req[r] \in Request /\ WellFormed(req[r])
      /\ req[r].pc = "lookup" /\ req[r].op = "join"
      /\ req[r].target \in created \cup {None}
  BY DEF IInv, TypeOK, CreatedInv, Lookup, At, WellFormed
<1>2. UNCHANGED <<title, advVars, everPeer>> /\ sequential' \subseteq sequential
  BY DEF Lookup, history
<1>3. CASE Goto(r, "newPeer")
  <2> DEFINE q == [req[r] EXCEPT !.pc = "newPeer"]
  <2>1. /\ q \in Request /\ q.pc = "newPeer" /\ q.target = req[r].target
        /\ q.op = "join"
    BY <1>1 DEF Request, Steps
  <2>2. WellFormed(q)
    BY <1>1, <2>1 DEF WellFormed, Request
  <2>3. req' = [req EXCEPT ![r] = q]
    BY <1>1, <1>3 DEF Goto, IInv, TypeOK
  <2> HIDE DEF q
  <2> QED  BY <1>1, <1>2, <2>1, <2>2, <2>3, QuietStep
<1>4. CASE Respond(r)
  BY <1>1, <1>2, <1>4, RespondStep
<1> QED  BY <1>3, <1>4 DEF Lookup

LEMMA CheckFirstInv ==
  ASSUME IInv, NEW r \in Requests, CheckFirst(r)
  PROVE  IInv'
<1> DEFINE a == req[r].target
<1>1. /\ req[r] \in Request /\ WellFormed(req[r])
      /\ req[r].pc = "checkFirst" /\ a \in AdvIds
      /\ a \in created \cup {None}
  BY DEF IInv, TypeOK, CreatedInv, CheckFirst, At, WellFormed
<1>2. UNCHANGED <<title, advVars, everPeer>> /\ sequential' \subseteq sequential
  BY DEF CheckFirst, history
<1>3. ASSUME peers[a] # <<>>, Head(peers[a]) = req[r].user, Goto(r, "setHost")
      PROVE  IInv'
  <2> DEFINE q == [req[r] EXCEPT !.pc = "setHost"]
  <2>1. /\ q \in Request /\ q.pc = "setHost" /\ q.target = a /\ q.user = req[r].user
    BY <1>1 DEF Request, Steps
  <2>2. WellFormed(q)
    BY <1>1, <2>1 DEF WellFormed, Request
  <2>3. req' = [req EXCEPT ![r] = q]
    BY <1>1, <1>3 DEF Goto, IInv, TypeOK
  <2>4. req[r].user \in Range(peers[a])
    <3>1. peers[a] \in Seq(Users)
      BY <1>1 DEF IInv, TypeOK
    <3>2. 1 \in DOMAIN peers[a] /\ peers[a][1] = req[r].user
      BY <1>3, <3>1, EmptySeq, LenProperties
    <3> QED  BY <3>2 DEF Range
  <2>5. req[r].user \in everPeer[a]
    BY <1>1, <2>4 DEF IInv, HostHistory
  <2> HIDE DEF q
  <2> QED  BY <1>1, <1>2, <2>1, <2>2, <2>3, <2>5, QuietStep
<1>4. CASE Respond(r)
  BY <1>1, <1>2, <1>4, RespondStep
<1> QED  BY <1>3, <1>4 DEF CheckFirst

-----------------------------------------------------------------------------
\* What every step that moves one request on establishes about the requests.
LEMMA MoveOn ==
  ASSUME IInv, NEW r \in Requests, NEW q, WellFormed(q),
         req' = [req EXCEPT ![r] = q]
  PROVE  /\ req' \in [Requests -> Request]
         /\ \A u \in Requests : WellFormed(req'[u])
         /\ req'[r] = q
         /\ \A u \in Requests \ {r} : req'[u] = req[u]
         /\ q.target \in created' \cup {None} /\ created \subseteq created'
              => \A u \in Requests : req'[u].target \in created' \cup {None}
<1>1. /\ req' \in [Requests -> Request]
      /\ \A u \in Requests : WellFormed(req'[u])
      /\ req'[r] = q
      /\ \A u \in Requests \ {r} : req'[u] = req[u]
  BY ReqStep DEF IInv
<1> QED  BY <1>1 DEF IInv, CreatedInv

LEMMA RemovePeerInv ==
  ASSUME IInv, NEW r \in Requests, RemovePeer(r)
  PROVE  IInv'
<1> DEFINE a == req[r].leaving
           u == req[r].user
<1>1. /\ req[r] \in Request /\ WellFormed(req[r])
      /\ req[r].pc = "remove" /\ a \in AdvIds /\ u \in Users
      /\ req[r].target \in created \cup {None}
  BY DEF IInv, TypeOK, CreatedInv, RemovePeer, At, WellFormed
<1>2. /\ UNCHANGED <<title, store, created, hostId, everPeer, sequential>>
      /\ lockedBy[a] = None
  BY DEF RemovePeer, Unlocked, history
<1>3. ASSUME GoOn(r), UNCHANGED <<peers, lockedBy>>
      PROVE  IInv'
  <2>1. PICK q : /\ WellFormed(q)
                 /\ req' = [req EXCEPT ![r] = q]
                 /\ q.pc \in {"idle", "store", "lookup"}
                 /\ q.target \in {req[r].target, None}
    BY <1>1, <1>3, GoOnStep DEF IInv
  <2> QED  BY <1>1, <1>2, <1>3, <2>1, QuietStep DEF advVars
<1>4. ASSUME Listed(a), peers' = [peers EXCEPT ![a] = WithoutKey(@, u)],
             Enter(r, a), Goto(r, "drop")
      PROVE  IInv'
  <2> DEFINE q == [req[r] EXCEPT !.pc = "drop"]
  <2>1. /\ q \in Request /\ q.pc = "drop" /\ q.target = req[r].target /\ q.leaving = a
    BY <1>1 DEF Request, Steps
  <2>2. WellFormed(q)
    BY <1>1, <2>1 DEF WellFormed, Request
  <2>3. req' = [req EXCEPT ![r] = q]
    BY <1>1, <1>4 DEF Goto, IInv, TypeOK
  <2> HIDE DEF q, a, u
  <2>4. /\ req' \in [Requests -> Request]
        /\ \A v \in Requests : WellFormed(req'[v])
        /\ req'[r] = q
        /\ \A v \in Requests \ {r} : req'[v] = req[v]
        /\ \A v \in Requests : req'[v].target \in created' \cup {None}
    BY <1>1, <1>2, <2>1, <2>2, <2>3, MoveOn
  <2>5. /\ peers' \in [AdvIds -> Seq(Users)]
        /\ IsInjective(peers'[a])
        /\ Range(peers'[a]) = Range(peers[a]) \ {u}
        /\ \A b \in AdvIds \ {a} : peers'[b] = peers[b]
    <3>1. peers[a] \in Seq(Users) /\ IsInjective(peers[a])
      BY <1>1 DEF IInv, TypeOK, Distinct
    <3>2. /\ WithoutKey(peers[a], u) \in Seq(Users)
          /\ IsInjective(WithoutKey(peers[a], u))
          /\ Range(WithoutKey(peers[a], u)) = Range(peers[a]) \ {u}
      BY <3>1, WithoutKeyProperties
    <3> QED  BY <1>1, <1>4, <3>2 DEF IInv, TypeOK
  <2>6. /\ lockedBy' \in [AdvIds -> Requests \cup {None}]
        /\ lockedBy'[a] = r
        /\ \A b \in AdvIds \ {a} : lockedBy'[b] = lockedBy[b]
    BY <1>1, <1>4 DEF Enter, IInv, TypeOK
  <2>7. TypeOK'
    BY <1>2, <2>4, <2>5, <2>6 DEF IInv, TypeOK
  <2>8. Distinct' /\ CreatedInv'
    BY <1>2, <2>4, <2>5 DEF IInv, Distinct, CreatedInv
  <2>9. LockInv' /\ InsideIsListed'
    <3>1. \A v \in Requests \ {r}, b \in AdvIds : Inside(v, b)' <=> Inside(v, b)
      BY <2>4 DEF Inside, At
    <3>2. \A b \in AdvIds : ~Inside(r, b)
      BY <1>1 DEF Inside, At
    <3>3. \A b \in AdvIds : Inside(r, b)' <=> b = a
      BY <2>1, <2>4 DEF Inside, At
    <3>4. LockInv'
      BY <1>1, <1>2, <2>6, <3>1, <3>2, <3>3, NoneAssumption DEF IInv, LockInv
    <3>5. InsideIsListed'
      BY <1>2, <1>4, <3>1, <3>3 DEF IInv, InsideIsListed, Listed
    <3> QED  BY <3>4, <3>5
  <2>10. NoGhostPeers'
    BY <1>2, <1>4, <2>5 DEF IInv, NoGhostPeers, Listed
  <2>11. NoAbandonedMatch'
    <3>1. SUFFICES ASSUME NEW b \in Range(store'), peers'[b] = <<>>
                   PROVE  \E v \in Requests :
                            \/ At(v, "newPeer")' /\ req'[v].op = "host" /\ req'[v].target = b
                            \/ At(v, "drop")' /\ req'[v].leaving = b
      BY DEF NoAbandonedMatch
    <3>2. b \in AdvIds
      BY <1>2 DEF IInv, TypeOK, CreatedInv
    <3>3. CASE b = a
      BY <2>1, <2>4, <3>3 DEF At
    <3>4. CASE b # a
      <4>1. PICK v \in Requests :
              \/ At(v, "newPeer") /\ req[v].op = "host" /\ req[v].target = b
              \/ At(v, "drop") /\ req[v].leaving = b
        BY <1>2, <2>5, <3>1, <3>2, <3>4 DEF IInv, NoAbandonedMatch
      <4>2. v # r
        BY <1>1, <4>1 DEF At
      <4> QED  BY <2>4, <4>1, <4>2 DEF At
    <3> QED  BY <3>3, <3>4
  <2>12. HostHistory'
    <3>1. \A b \in AdvIds : Range(peers'[b]) \subseteq everPeer'[b]
      BY <1>2, <2>1, <2>5 DEF IInv, HostHistory
    <3>2. \A v \in Requests : req'[v].pc # "drop" => req'[v] = req[v]
      BY <2>1, <2>4
    <3>3. \A v \in Requests : At(v, "setHost")' => req'[v].user \in everPeer'[req'[v].target]
      BY <1>2, <3>2 DEF IInv, HostHistory, At
    <3>4. \A v \in Requests, b \in AdvIds :
            At(v, "newPeer")' /\ req'[v].op = "host" /\ req'[v].target = b
              => hostId'[b] = req'[v].user \/ hostId'[b] \in everPeer'[b]
      BY <1>2, <3>2 DEF IInv, HostHistory, At
    <3> QED  BY <3>1, <3>3, <3>4 DEF HostHistory
  <2>13. HostWasPeer'
    <3>1. req[r].pc # "newPeer"
      BY <1>1
    <3> QED  BY <1>2, <2>4, <3>1 DEF IInv, HostWasPeer, At
  <2> QED  BY <2>7, <2>8, <2>9, <2>10, <2>11, <2>12, <2>13 DEF IInv
<1> QED  BY <1>3, <1>4 DEF RemovePeer

LEMMA DropIfEmptyInv ==
  ASSUME IInv, NEW r \in Requests, DropIfEmpty(r)
  PROVE  IInv'
<1> DEFINE a == req[r].leaving
<1>1. /\ req[r] \in Request /\ WellFormed(req[r])
      /\ req[r].pc = "drop" /\ a \in AdvIds
      /\ req[r].target \in created \cup {None}
  BY DEF IInv, TypeOK, CreatedInv, DropIfEmpty, At, WellFormed
<1>2. /\ UNCHANGED <<title, created, peers, hostId, everPeer, sequential>>
      /\ lockedBy[a] = r
  BY <1>1 DEF DropIfEmpty, history, IInv, LockInv, Inside, At
<1>3. PICK q : /\ WellFormed(q)
               /\ req' = [req EXCEPT ![r] = q]
               /\ q.pc \in {"idle", "store", "lookup"}
               /\ q.target \in {req[r].target, None}
  BY <1>1, GoOnStep DEF IInv, DropIfEmpty
<1>4. /\ req' \in [Requests -> Request]
      /\ \A v \in Requests : WellFormed(req'[v])
      /\ req'[r] = q
      /\ \A v \in Requests \ {r} : req'[v] = req[v]
      /\ \A v \in Requests : req'[v].target \in created' \cup {None}
  BY <1>1, <1>2, <1>3, MoveOn
<1>5. /\ lockedBy' \in [AdvIds -> Requests \cup {None}]
      /\ lockedBy'[a] = None
      /\ \A b \in AdvIds \ {a} : lockedBy'[b] = lockedBy[b]
  BY <1>1 DEF DropIfEmpty, Exit, IInv, TypeOK
<1>6. /\ store' \in Seq(AdvIds)
      /\ IsInjective(store')
      /\ Range(store') = IF peers[a] = <<>> THEN Range(store) \ {a} ELSE Range(store)
  <2>1. store \in Seq(AdvIds) /\ IsInjective(store)
    BY DEF IInv, TypeOK, Distinct
  <2>2. CASE peers[a] = <<>>
    <3>1. store' = WithoutKey(store, a)
      BY <2>2 DEF DropIfEmpty
    <3> QED  BY <1>1, <2>1, <2>2, <3>1, WithoutKeyProperties
  <2>3. CASE peers[a] # <<>>
    <3>1. store' = store
      BY <2>3 DEF DropIfEmpty
    <3> QED  BY <2>1, <2>3, <3>1
  <2> QED  BY <2>2, <2>3
<1> HIDE DEF a
<1>7. TypeOK'
  BY <1>2, <1>4, <1>5, <1>6 DEF IInv, TypeOK
<1>8. Distinct' /\ CreatedInv'
  BY <1>2, <1>4, <1>6 DEF IInv, Distinct, CreatedInv
<1>9. LockInv' /\ InsideIsListed'
  <2>1. \A v \in Requests \ {r}, b \in AdvIds : Inside(v, b)' <=> Inside(v, b)
    BY <1>4 DEF Inside, At
  <2>2. \A b \in AdvIds : Inside(r, b) <=> b = a
    BY <1>1 DEF Inside, At, a
  <2>3. \A b \in AdvIds : ~Inside(r, b)'
    BY <1>3, <1>4 DEF Inside, At
  <2>4. LockInv'
    BY <1>1, <1>2, <1>5, <2>1, <2>2, <2>3, NoneAssumption DEF IInv, LockInv
  <2>5. \A v \in Requests \ {r} : ~Inside(v, a)
    BY <1>1, <1>2 DEF IInv, LockInv
  <2>6. InsideIsListed'
    BY <1>6, <2>1, <2>3, <2>5 DEF IInv, InsideIsListed, Listed
  <2> QED  BY <2>4, <2>6
<1>10. NoGhostPeers'
  BY <1>2, <1>6 DEF IInv, NoGhostPeers, Listed
<1>11. NoAbandonedMatch'
  <2>1. SUFFICES ASSUME NEW b \in Range(store'), peers'[b] = <<>>
                 PROVE  \E v \in Requests :
                          \/ At(v, "newPeer")' /\ req'[v].op = "host" /\ req'[v].target = b
                          \/ At(v, "drop")' /\ req'[v].leaving = b
    BY DEF NoAbandonedMatch
  <2>2. b # a /\ b \in Range(store) /\ peers[b] = <<>>
    BY <1>2, <1>6, <2>1
  <2>3. PICK v \in Requests :
          \/ At(v, "newPeer") /\ req[v].op = "host" /\ req[v].target = b
          \/ At(v, "drop") /\ req[v].leaving = b
    BY <2>2 DEF IInv, NoAbandonedMatch
  <2>4. v # r
    BY <1>1, <2>2, <2>3 DEF At, a
  <2> QED  BY <1>4, <2>3, <2>4 DEF At
<1>12. HostHistory'
  BY <1>2, <1>3, <1>4 DEF IInv, HostHistory, At
<1>13. HostWasPeer'
  <2>1. req[r].pc # "newPeer"
    BY <1>1
  <2> QED  BY <1>2, <1>4, <1>6, <2>1 DEF IInv, HostWasPeer, At
<1> QED  BY <1>7, <1>8, <1>9, <1>10, <1>11, <1>12, <1>13 DEF IInv

LEMMA StoreAdvertisementInv ==
  ASSUME IInv, NEW r \in Requests, StoreAdvertisement(r)
  PROVE  IInv'
<1>1. /\ req[r] \in Request /\ WellFormed(req[r])
      /\ req[r].pc = "store" /\ req[r].op = "host" /\ req[r].user \in Users
  BY DEF IInv, TypeOK, StoreAdvertisement, At, WellFormed
<1>2. PICK a \in AdvIds \ created :
        /\ created' = created \cup {a}
        /\ store' = Append(store, a)
        /\ hostId' = [hostId EXCEPT ![a] = req[r].user]
        /\ req' = [req EXCEPT ![r].target = a, ![r].pc = "newPeer"]
  BY DEF StoreAdvertisement
<1>3. UNCHANGED <<title, peers, lockedBy, everPeer, sequential>>
  BY DEF StoreAdvertisement, history
<1> DEFINE q == [req[r] EXCEPT !.target = a, !.pc = "newPeer"]
<1>4. /\ q \in Request /\ q.pc = "newPeer" /\ q.op = "host" /\ q.target = a
      /\ q.user = req[r].user
  BY <1>1 DEF Request, Steps
<1>5. WellFormed(q)
  BY <1>1, <1>4 DEF WellFormed, Request
<1>6. req' = [req EXCEPT ![r] = q]
  BY <1>1, <1>2 DEF IInv, TypeOK
<1> HIDE DEF q
<1>7. /\ req' \in [Requests -> Request]
      /\ \A v \in Requests : WellFormed(req'[v])
      /\ req'[r] = q
      /\ \A v \in Requests \ {r} : req'[v] = req[v]
      /\ \A v \in Requests : req'[v].target \in created' \cup {None}
  BY <1>2, <1>4, <1>5, <1>6, MoveOn
<1>8. a \notin Range(store) /\ peers[a] = <<>>
  BY DEF IInv, CreatedInv, NoGhostPeers, Listed
<1>9. /\ store' \in Seq(AdvIds)
      /\ IsInjective(store')
      /\ Range(store') = Range(store) \cup {a}
  <2>1. store' = WithKey(store, a)
    BY <1>2, <1>8 DEF WithKey
  <2>2. store \in Seq(AdvIds) /\ IsInjective(store) /\ a \in AdvIds
    BY DEF IInv, TypeOK, Distinct
  <2>3. /\ WithKey(store, a) \in Seq(AdvIds)
        /\ IsInjective(WithKey(store, a))
        /\ Range(WithKey(store, a)) = Range(store) \cup {a}
    BY <2>2, WithKeyProperties
  <2> QED  BY <2>1, <2>3
<1>10. /\ hostId' \in [AdvIds -> Users \cup {None}]
       /\ hostId'[a] = req[r].user
       /\ \A b \in AdvIds \ {a} : hostId'[b] = hostId[b]
  BY <1>1, <1>2 DEF IInv, TypeOK
<1>11. TypeOK'
  BY <1>2, <1>3, <1>7, <1>9, <1>10 DEF IInv, TypeOK
<1>12. Distinct' /\ CreatedInv'
  BY <1>2, <1>3, <1>7, <1>9 DEF IInv, Distinct, CreatedInv
<1>13. LockInv' /\ InsideIsListed'
  <2>1. \A v \in Requests, b \in AdvIds : Inside(v, b)' <=> Inside(v, b)
    BY <1>1, <1>4, <1>7 DEF Inside, At
  <2> QED  BY <1>3, <1>9, <2>1 DEF IInv, LockInv, InsideIsListed, Listed
<1>14. NoGhostPeers'
  BY <1>3, <1>9 DEF IInv, NoGhostPeers, Listed
\* The requests that explain an empty or a taken over match are still there.
<1>15. \A v \in Requests : At(v, "newPeer") \/ At(v, "drop") => req'[v] = req[v]
  BY <1>1, <1>7 DEF At
<1>16. At(r, "newPeer")' /\ req'[r].op = "host" /\ req'[r].target = a
  BY <1>4, <1>7 DEF At
<1>17. NoAbandonedMatch'
  <2>1. SUFFICES ASSUME NEW b \in Range(store'), peers'[b] = <<>>
                 PROVE  \E v \in Requests :
                          \/ At(v, "newPeer")' /\ req'[v].op = "host" /\ req'[v].target = b
                          \/ At(v, "drop")' /\ req'[v].leaving = b
    BY DEF NoAbandonedMatch
  <2>2. CASE b = a
    BY <1>16, <2>2
  <2>3. CASE b # a
    <3>1. PICK v \in Requests :
            \/ At(v, "newPeer") /\ req[v].op = "host" /\ req[v].target = b
            \/ At(v, "drop") /\ req[v].leaving = b
      BY <1>3, <1>9, <2>1, <2>3 DEF IInv, NoAbandonedMatch
    <3> QED  BY <1>15, <3>1 DEF At
  <2> QED  BY <2>2, <2>3
<1>18. HostHistory'
  <2>1. \A v \in Requests \ {r} : req[v].target # a
    BY NoneAssumption DEF IInv, CreatedInv
  <2> QED  BY <1>3, <1>4, <1>7, <1>10, <2>1 DEF IInv, HostHistory, At
<1>19. HostWasPeer'
  <2>1. SUFFICES ASSUME NEW b \in Range(store')
                 PROVE  \/ hostId'[b] \in everPeer'[b]
                        \/ \E v \in Requests : /\ At(v, "newPeer")' /\ req'[v].op = "host"
                                               /\ req'[v].target = b
    BY DEF HostWasPeer
  <2>2. CASE b = a
    BY <1>16, <2>2
  <2>3. CASE b # a
    <3>1. b \in Range(store) /\ b \in AdvIds
      BY <1>9, <2>3 DEF IInv, CreatedInv, TypeOK
    <3>2. \/ hostId[b] \in everPeer[b]
          \/ \E v \in Requests : At(v, "newPeer") /\ req[v].op = "host" /\ req[v].target = b
      BY <3>1 DEF IInv, HostWasPeer
    <3> QED  BY <1>3, <1>10, <1>15, <2>3, <3>1, <3>2 DEF At
  <2> QED  BY <2>2, <2>3
<1> QED  BY <1>11, <1>12, <1>13, <1>14, <1>17, <1>18, <1>19 DEF IInv

\* AddUser leaves the peers distinct and remembers the one it adds.
LEMMA AddUserProperties ==
  ASSUME IInv, NEW a \in AdvIds, NEW u \in Users, AddUser(a, u)
  PROVE  /\ peers' \in [AdvIds -> Seq(Users)]
         /\ \A b \in AdvIds : IsInjective(peers'[b])
         /\ peers'[a] # <<>>
         /\ Range(peers'[a]) = Range(peers[a]) \cup {u}
         /\ \A b \in AdvIds \ {a} : peers'[b] = peers[b]
         /\ everPeer' \in [AdvIds -> SUBSET Users]
         /\ u \in everPeer'[a]
         /\ \A b \in AdvIds : everPeer[b] \subseteq everPeer'[b]
         /\ \A b \in AdvIds : Range(peers'[b]) \subseteq everPeer'[b]
<1>1. peers[a] \in Seq(Users) /\ IsInjective(peers[a]) /\ Range(peers[a]) \subseteq everPeer[a]
  BY DEF IInv, TypeOK, Distinct, HostHistory
<1>2. /\ WithKey(peers[a], u) \in Seq(Users)
      /\ IsInjective(WithKey(peers[a], u))
      /\ Range(WithKey(peers[a], u)) = Range(peers[a]) \cup {u}
      /\ WithKey(peers[a], u) # <<>>
  BY <1>1, WithKeyProperties
<1>3. /\ peers'[a] = WithKey(peers[a], u)
      /\ \A b \in AdvIds \ {a} : peers'[b] = peers[b]
      /\ everPeer'[a] = everPeer[a] \cup {u}
      /\ \A b \in AdvIds \ {a} : everPeer'[b] = everPeer[b]
      /\ peers' \in [AdvIds -> Seq(Users)]
      /\ everPeer' \in [AdvIds -> SUBSET Users]
  BY <1>2 DEF AddUser, IInv, TypeOK
<1> QED  BY <1>1, <1>2, <1>3 DEF IInv, Distinct, HostHistory

LEMMA NewPeerInv ==
  ASSUME IInv, NEW r \in Requests, NewPeer(r)
  PROVE  IInv'
<1> DEFINE a == req[r].target
           u == req[r].user
<1>1. /\ req[r] \in Request /\ WellFormed(req[r])
      /\ req[r].pc = "newPeer" /\ a \in AdvIds /\ u \in Users
  BY DEF IInv, TypeOK, NewPeer, At, WellFormed
<1>2. UNCHANGED <<title, store, created, hostId, lockedBy, sequential>>
  BY DEF NewPeer
<1>3. req' = [req EXCEPT ![r] = NoRequest]
  BY DEF NewPeer, Respond
<1>4. NoRequest.pc = "idle" /\ NoRequest.target = None /\ WellFormed(NoRequest)
  BY NoRequestWellFormed DEF NoRequest
<1>5. /\ req' \in [Requests -> Request]
      /\ \A v \in Requests : WellFormed(req'[v])
      /\ req'[r] = NoRequest
      /\ \A v \in Requests \ {r} : req'[v] = req[v]
      /\ \A v \in Requests : req'[v].target \in created' \cup {None}
  BY <1>2, <1>3, <1>4, MoveOn
<1>6. /\ peers' \in [AdvIds -> Seq(Users)]
      /\ \A b \in AdvIds : IsInjective(peers'[b])
      /\ Listed(a) => peers'[a] # <<>>
      /\ Listed(a) => u \in everPeer'[a]
      /\ \A b \in AdvIds : b # a \/ ~Listed(a) => peers'[b] = peers[b]
      /\ everPeer' \in [AdvIds -> SUBSET Users]
      /\ \A b \in AdvIds : everPeer[b] \subseteq everPeer'[b]
      /\ \A b \in AdvIds : Range(peers'[b]) \subseteq everPeer'[b]
  <2>1. CASE Listed(a)
    <3>1. AddUser(a, u)
      BY <2>1 DEF NewPeer
    <3> HIDE DEF a, u
    <3> QED  BY <1>1, <2>1, <3>1, AddUserProperties
  <2>2. CASE ~Listed(a)
    BY <2>2 DEF NewPeer, IInv, TypeOK, Distinct, HostHistory
  <2> QED  BY <2>1, <2>2
<1> HIDE DEF a, u
<1>7. TypeOK'
  BY <1>2, <1>5, <1>6 DEF IInv, TypeOK
<1>8. Distinct' /\ CreatedInv'
  BY <1>2, <1>5, <1>6 DEF IInv, Distinct, CreatedInv
<1>9. LockInv' /\ InsideIsListed'
  <2>1. \A v \in Requests, b \in AdvIds : Inside(v, b)' <=> Inside(v, b)
    BY <1>1, <1>4, <1>5 DEF Inside, At
  <2> QED  BY <1>2, <2>1 DEF IInv, LockInv, InsideIsListed, Listed
<1>10. NoGhostPeers'
  BY <1>2, <1>6 DEF IInv, NoGhostPeers, Listed
<1>11. NoAbandonedMatch'
  <2>1. SUFFICES ASSUME NEW b \in Range(store'), peers'[b] = <<>>
                 PROVE  \E v \in Requests :
                          \/ At(v, "newPeer")' /\ req'[v].op = "host" /\ req'[v].target = b
                          \/ At(v, "drop")' /\ req'[v].leaving = b
    BY DEF NoAbandonedMatch
  <2>2. b \in AdvIds /\ b \in Range(store)
    BY <1>2 DEF IInv, TypeOK, CreatedInv
  <2>3. b # a /\ peers[b] = <<>>
    BY <1>6, <2>1, <2>2 DEF Listed
  <2>4. PICK v \in Requests :
          \/ At(v, "newPeer") /\ req[v].op = "host" /\ req[v].target = b
          \/ At(v, "drop") /\ req[v].leaving = b
    BY <2>2, <2>3 DEF IInv, NoAbandonedMatch
  <2>5. v # r
    BY <1>1, <2>3, <2>4 DEF At, a
  <2> QED  BY <1>5, <2>4, <2>5 DEF At
<1>12. HostHistory'
  <2>1. \A v \in Requests : At(v, "setHost")' => At(v, "setHost") /\ req'[v] = req[v]
    BY <1>4, <1>5 DEF At
  <2>2. \A v \in Requests : At(v, "newPeer")' => At(v, "newPeer") /\ req'[v] = req[v]
    BY <1>4, <1>5 DEF At
  <2>3. \A v \in Requests : At(v, "setHost") => req[v].target \in AdvIds
    BY DEF IInv, TypeOK, WellFormed, At
  <2> QED  BY <1>2, <1>6, <2>1, <2>2, <2>3 DEF IInv, HostHistory
<1>13. HostWasPeer'
  <2>1. SUFFICES ASSUME NEW b \in Range(store'), hostId'[b] \notin everPeer'[b]
                 PROVE  \E v \in Requests : /\ At(v, "newPeer")' /\ req'[v].op = "host"
                                            /\ req'[v].target = b
    BY DEF HostWasPeer
  <2>2. b \in AdvIds /\ b \in Range(store) /\ hostId[b] \notin everPeer[b]
    BY <1>2, <1>6, <2>1 DEF IInv, TypeOK, CreatedInv
  <2>3. PICK v \in Requests : At(v, "newPeer") /\ req[v].op = "host" /\ req[v].target = b
    BY <2>2 DEF IInv, HostWasPeer
  <2>4. hostId[b] = req[v].user
    BY <2>2, <2>3 DEF IInv, HostHistory
  <2>5. v # r
    BY <1>2, <1>6, <2>1, <2>2, <2>3, <2>4 DEF a, u, Listed
  <2> QED  BY <1>5, <2>3, <2>5 DEF At
<1> QED  BY <1>7, <1>8, <1>9, <1>10, <1>11, <1>12, <1>13 DEF IInv

LEMMA BeginPeerAddInv ==
  ASSUME IInv, NEW r \in Requests, BeginPeerAdd(r)
  PROVE  IInv'
<1> DEFINE a == req[r].target
<1>1. /\ req[r] \in Request /\ WellFormed(req[r])
      /\ req[r].pc = "peerAdd" /\ a \in AdvIds /\ lockedBy[a] = None
      /\ a \in created \cup {None}
  BY DEF IInv, TypeOK, CreatedInv, BeginPeerAdd, At, WellFormed, Unlocked
<1>2. UNCHANGED <<title, store, created, peers, hostId, everPeer>>
  BY DEF BeginPeerAdd
<1>3. ASSUME Respond(r), UNCHANGED <<sequential, lockedBy>>
      PROVE  IInv'
  BY <1>1, <1>2, <1>3, RespondStep DEF advVars
<1>4. ASSUME Listed(a), Enter(r, a),
             NEW us \in {<<w>> : w \in Users} \cup (Users \X Users),
             req' = [req EXCEPT ![r].todo = us, ![r].pc = "adding"],
             sequential' = sequential \ Range(us)
      PROVE  IInv'
  <2> DEFINE q == [req[r] EXCEPT !.todo = us, !.pc = "adding"]
  <2>1. us \in Seq(Users) /\ us # <<>>
    <3>1. CASE us \in Users \X Users
      <4>1. PICK w \in Users, x \in Users : us = <<w, x>>
        BY <3>1
      <4> QED  BY <4>1
    <3>2. CASE us \in {<<w>> : w \in Users}
      <4>1. PICK w \in Users : us = <<w>>
        BY <3>2
      <4> QED  BY <4>1
    <3> QED  BY <3>1, <3>2
  <2>2. q \in Request /\ q.pc = "adding" /\ q.target = a /\ q.todo = us
    BY <1>1, <2>1 DEF Request, Steps
  <2>3. WellFormed(q)
    BY <1>1, <2>1, <2>2 DEF WellFormed, Request
  <2>4. req' = [req EXCEPT ![r] = q]
    BY <1>1, <1>4 DEF IInv, TypeOK
  <2> HIDE DEF q, a
  <2>5. /\ req' \in [Requests -> Request]
        /\ \A v \in Requests : WellFormed(req'[v])
        /\ req'[r] = q
        /\ \A v \in Requests \ {r} : req'[v] = req[v]
        /\ \A v \in Requests : req'[v].target \in created' \cup {None}
    BY <1>1, <1>2, <2>2, <2>3, <2>4, MoveOn
  <2>6. /\ lockedBy' \in [AdvIds -> Requests \cup {None}]
        /\ lockedBy'[a] = r
        /\ \A b \in AdvIds \ {a} : lockedBy'[b] = lockedBy[b]
    BY <1>1, <1>4 DEF Enter, IInv, TypeOK
  <2>7. TypeOK'
    BY <1>2, <1>4, <2>5, <2>6 DEF IInv, TypeOK
  <2>8. Distinct' /\ CreatedInv'
    BY <1>2, <2>5 DEF IInv, Distinct, CreatedInv
  <2>9. LockInv' /\ InsideIsListed'
    <3>1. \A v \in Requests \ {r}, b \in AdvIds : Inside(v, b)' <=> Inside(v, b)
      BY <2>5 DEF Inside, At
    <3>2. \A b \in AdvIds : ~Inside(r, b)
      BY <1>1 DEF Inside, At
    <3>3. \A b \in AdvIds : Inside(r, b)' <=> b = a
      BY <2>2, <2>5 DEF Inside, At
    <3>4. LockInv'
      BY <1>1, <2>6, <3>1, <3>2, <3>3, NoneAssumption DEF IInv, LockInv
    <3>5. InsideIsListed'
      BY <1>2, <1>4, <3>1, <3>3 DEF IInv, InsideIsListed, Listed
    <3> QED  BY <3>4, <3>5
  <2>10. NoGhostPeers'
    BY <1>2 DEF IInv, NoGhostPeers, Listed
  <2>11. \A v \in Requests : At(v, "newPeer") \/ At(v, "drop") => req'[v] = req[v]
    BY <1>1, <2>5 DEF At
  <2>12. NoAbandonedMatch' /\ HostWasPeer'
    BY <1>2, <2>11 DEF IInv, NoAbandonedMatch, HostWasPeer, At
  <2>13. HostHistory'
    BY <1>2, <2>2, <2>5 DEF IInv, HostHistory, At
  <2> QED  BY <2>7, <2>8, <2>9, <2>10, <2>12, <2>13 DEF IInv
<1> QED  BY <1>3, <1>4 DEF BeginPeerAdd

LEMMA AddPeerInv ==
  ASSUME IInv, NEW r \in Requests, AddPeer(r)
  PROVE  IInv'
<1> DEFINE a == req[r].target
           u == Head(req[r].todo)
<1>1. /\ req[r] \in Request /\ WellFormed(req[r])
      /\ req[r].pc = "adding" /\ a \in AdvIds
      /\ a \in created \cup {None}
      /\ req[r].todo \in Seq(Users) /\ req[r].todo # <<>>
  BY DEF IInv, TypeOK, CreatedInv, AddPeer, At, WellFormed, Request
<1>2. u \in Users /\ Tail(req[r].todo) \in Seq(Users)
  BY <1>1, HeadTailProperties
<1>3. Inside(r, a)
  BY <1>1 DEF Inside, At
<1>4. Listed(a) /\ lockedBy[a] = r
  BY <1>1, <1>3 DEF IInv, LockInv, InsideIsListed
<1>5. UNCHANGED <<title, store, created, hostId, sequential>>
  BY DEF AddPeer
<1>6. AddUser(a, u)
  BY <1>4 DEF AddPeer
<1>7. /\ peers' \in [AdvIds -> Seq(Users)]
      /\ \A b \in AdvIds : IsInjective(peers'[b])
      /\ peers'[a] # <<>>
      /\ \A b \in AdvIds \ {a} : peers'[b] = peers[b]
      /\ everPeer' \in [AdvIds -> SUBSET Users]
      /\ \A b \in AdvIds : everPeer[b] \subseteq everPeer'[b]
      /\ \A b \in AdvIds : Range(peers'[b]) \subseteq everPeer'[b]
  BY <1>1, <1>2, <1>6, AddUserProperties
\* Either there is another user to add, or the section ends.
<1> DEFINE Becomes(q) == /\ WellFormed(q)
                         /\ req' = [req EXCEPT ![r] = q]
                         /\ q.target \in {a, None}
                         /\ \/ q.pc = "adding" /\ q.target = a /\ UNCHANGED lockedBy
                            \/ q.pc = "idle" /\ Exit(a)
<1>8. \E q : Becomes(q)
  <2>1. ASSUME Tail(req[r].todo) # <<>>, UNCHANGED lockedBy,
               req' = [req EXCEPT ![r].todo = Tail(@)]
        PROVE  \E q : Becomes(q)
    <3> DEFINE q == [req[r] EXCEPT !.todo = Tail(req[r].todo)]
    <3>1. /\ q \in Request /\ q.pc = "adding" /\ q.target = a
          /\ q.todo = Tail(req[r].todo)
      BY <1>1, <1>2 DEF Request, Steps
    <3>2. WellFormed(q)
      BY <1>1, <2>1, <3>1 DEF WellFormed, Request
    <3>3. req' = [req EXCEPT ![r] = q]
      BY <1>1, <2>1 DEF IInv, TypeOK
    <3> HIDE DEF q
    <3> QED  BY <2>1, <3>1, <3>2, <3>3
  <2>2. ASSUME Exit(a), Respond(r)
        PROVE  \E q : Becomes(q)
    <3>1. NoRequest.pc = "idle" /\ NoRequest.target = None
      BY DEF NoRequest
    <3>2. req' = [req EXCEPT ![r] = NoRequest]
      BY <2>2 DEF Respond
    <3> QED  BY <2>2, <3>1, <3>2, NoRequestWellFormed
  <2> QED  BY <2>1, <2>2 DEF AddPeer
<1>9. PICK q : /\ WellFormed(q)
               /\ req' = [req EXCEPT ![r] = q]
               /\ q.target \in {a, None}
               /\ \/ q.pc = "adding" /\ q.target = a /\ UNCHANGED lockedBy
                  \/ q.pc = "idle" /\ Exit(a)
  BY <1>8
<1> HIDE DEF a, u
<1>10. /\ req' \in [Requests -> Request]
       /\ \A v \in Requests : WellFormed(req'[v])
       /\ req'[r] = q
       /\ \A v \in Requests \ {r} : req'[v] = req[v]
       /\ \A v \in Requests : req'[v].target \in created' \cup {None}
  <2>1. q.target \in created' \cup {None} /\ created \subseteq created'
    BY <1>1, <1>5, <1>9
  <2>2. WellFormed(q) /\ req' = [req EXCEPT ![r] = q]
    BY <1>9
  <2> HIDE DEF Becomes
  <2> QED  BY <2>1, <2>2, MoveOn
<1>11. /\ lockedBy' \in [AdvIds -> Requests \cup {None}]
       /\ lockedBy'[a] = IF q.pc = "adding" THEN r ELSE None
       /\ \A b \in AdvIds \ {a} : lockedBy'[b] = lockedBy[b]
  BY <1>1, <1>4, <1>9 DEF Exit, IInv, TypeOK
<1>12. TypeOK'
  BY <1>5, <1>7, <1>10, <1>11 DEF IInv, TypeOK
<1>13. Distinct' /\ CreatedInv'
  BY <1>5, <1>7, <1>10 DEF IInv, Distinct, CreatedInv
<1>14. LockInv' /\ InsideIsListed'
  <2>1. \A v \in Requests \ {r}, b \in AdvIds : Inside(v, b)' <=> Inside(v, b)
    BY <1>10 DEF Inside, At
  <2>2. \A b \in AdvIds : Inside(r, b) <=> b = a
    BY <1>1 DEF Inside, At, a
  <2>3. \A b \in AdvIds : Inside(r, b)' <=> (b = a /\ q.pc = "adding")
    BY <1>9, <1>10 DEF Inside, At
  <2>4. LockInv'
    BY <1>1, <1>4, <1>11, <2>1, <2>2, <2>3, NoneAssumption DEF IInv, LockInv
  <2>5. InsideIsListed'
    BY <1>4, <1>5, <2>1, <2>3 DEF IInv, InsideIsListed, Listed
  <2> QED  BY <2>4, <2>5
<1>15. NoGhostPeers'
  BY <1>4, <1>5, <1>7 DEF IInv, NoGhostPeers, Listed
<1>16. \A v \in Requests : At(v, "newPeer") \/ At(v, "drop") => req'[v] = req[v]
  BY <1>1, <1>10 DEF At
<1>17. NoAbandonedMatch'
  <2>1. \A b \in Range(store') : peers'[b] = <<>> => b \in Range(store) /\ peers[b] = <<>>
    BY <1>5, <1>7 DEF IInv, CreatedInv, TypeOK
  <2> QED  BY <1>16, <2>1 DEF IInv, NoAbandonedMatch, At
<1>18. HostHistory'
  <2>1. \A v \in Requests : At(v, "setHost")' => At(v, "setHost") /\ req'[v] = req[v]
    BY <1>9, <1>10 DEF At
  <2>2. \A v \in Requests : At(v, "newPeer")' => At(v, "newPeer") /\ req'[v] = req[v]
    BY <1>9, <1>10 DEF At
  <2>3. \A v \in Requests : At(v, "setHost") => req[v].target \in AdvIds
    BY DEF IInv, TypeOK, WellFormed, At
  <2> QED  BY <1>5, <1>7, <2>1, <2>2, <2>3 DEF IInv, HostHistory
<1>19. HostWasPeer'
  <2>1. \A b \in Range(store') : b \in AdvIds /\ b \in Range(store)
    BY <1>5 DEF IInv, CreatedInv, TypeOK
  <2> QED  BY <1>5, <1>7, <1>16, <2>1 DEF IInv, HostWasPeer, At
<1> QED  BY <1>12, <1>13, <1>14, <1>15, <1>17, <1>18, <1>19 DEF IInv

LEMMA SetHostInv ==
  ASSUME IInv, NEW r \in Requests, SetHost(r)
  PROVE  IInv'
<1> DEFINE a == req[r].target
<1>1. /\ req[r].pc = "setHost" /\ a \in AdvIds /\ req[r].user \in Users
      /\ req[r].user \in everPeer[a]
  BY DEF IInv, TypeOK, HostHistory, SetHost, At, WellFormed
<1>2. UNCHANGED <<title, store, created, peers, lockedBy, everPeer, sequential>>
  BY DEF SetHost, history
<1>3. NoRequest.pc = "idle" /\ NoRequest.target = None /\ WellFormed(NoRequest)
  BY NoRequestWellFormed DEF NoRequest
<1>4. req' = [req EXCEPT ![r] = NoRequest]
  BY DEF SetHost, Respond
<1>5. /\ req' \in [Requests -> Request]
      /\ \A v \in Requests : WellFormed(req'[v])
      /\ req'[r] = NoRequest
      /\ \A v \in Requests \ {r} : req'[v] = req[v]
      /\ \A v \in Requests : req'[v].target \in created' \cup {None}
  BY <1>2, <1>3, <1>4, MoveOn
<1>6. /\ hostId' \in [AdvIds -> Users \cup {None}]
      /\ hostId'[a] = req[r].user
      /\ \A b \in AdvIds \ {a} : hostId'[b] = hostId[b]
  BY <1>1 DEF SetHost, IInv, TypeOK
<1> HIDE DEF a
<1>7. TypeOK'
  BY <1>2, <1>5, <1>6 DEF IInv, TypeOK
<1>8. Distinct' /\ CreatedInv'
  BY <1>2, <1>5 DEF IInv, Distinct, CreatedInv
<1>9. \A u \in Requests, b \in AdvIds : Inside(u, b)' <=> Inside(u, b)
  BY <1>1, <1>3, <1>5 DEF Inside, At
<1>10. LockInv' /\ InsideIsListed'
  BY <1>2, <1>9 DEF IInv, LockInv, InsideIsListed, Listed
<1>11. NoGhostPeers'
  BY <1>2 DEF IInv, NoGhostPeers, Listed
<1>12. \A v \in Requests : At(v, "newPeer") \/ At(v, "drop") => req'[v] = req[v]
  BY <1>1, <1>5 DEF At
<1>13. NoAbandonedMatch'
  BY <1>2, <1>12 DEF IInv, NoAbandonedMatch, At
<1>14. HostHistory'
  <2>1. \A v \in Requests : At(v, "setHost")' => At(v, "setHost") /\ req'[v] = req[v]
    BY <1>3, <1>5 DEF At
  <2>2. \A v \in Requests : At(v, "newPeer")' => At(v, "newPeer") /\ req'[v] = req[v]
    BY <1>3, <1>5 DEF At
  <2> QED  BY <1>1, <1>2, <1>6, <2>1, <2>2 DEF IInv, HostHistory
<1>15. HostWasPeer'
  <2>1. \A b \in Range(store') : b \in AdvIds /\ b \in Range(store)
    BY <1>2 DEF IInv, CreatedInv, TypeOK
  <2> QED  BY <1>1, <1>2, <1>6, <1>12, <2>1 DEF IInv, HostWasPeer, At
<1> QED  BY <1>7, <1>8, <1>10, <1>11, <1>13, <1>14, <1>15 DEF IInv

-----------------------------------------------------------------------------
LEMMA NextInv == IInv /\ [Next]_vars => IInv'
<1> SUFFICES ASSUME IInv, [Next]_vars PROVE IInv'
  OBVIOUS
<1>1. CASE UNCHANGED vars
  BY <1>1 DEF vars, advVars, history, IInv, TypeOK, Distinct, CreatedInv, LockInv,
              InsideIsListed, Inside, NoGhostPeers, NoAbandonedMatch, HostHistory,
              HostWasPeer, Listed, At
<1>2. ASSUME NEW r \in Requests, NEW o \in Ops, NEW u \in Users,
             NEW a \in AdvIds \cup {None}, Begin(r, o, u, a)
      PROVE  IInv'
  BY <1>2, BeginInv
<1>3. ASSUME NEW r \in Requests,
             Scan(r) \/ RemovePeer(r) \/ DropIfEmpty(r)
      PROVE  IInv'
  BY <1>3, ScanInv, RemovePeerInv, DropIfEmptyInv
<1>4. ASSUME NEW r \in Requests,
             StoreAdvertisement(r) \/ Lookup(r) \/ NewPeer(r)
      PROVE  IInv'
  BY <1>4, StoreAdvertisementInv, LookupInv, NewPeerInv
<1>5. ASSUME NEW r \in Requests, BeginPeerAdd(r) \/ AddPeer(r)
      PROVE  IInv'
  BY <1>5, BeginPeerAddInv, AddPeerInv
<1>6. ASSUME NEW r \in Requests, CheckFirst(r) \/ SetHost(r)
      PROVE  IInv'
  BY <1>6, CheckFirstInv, SetHostInv
<1> QED  BY <1>1, <1>2, <1>3, <1>4, <1>5, <1>6 DEF Next

LEMMA Invariance == Spec => []IInv
<1>1. Init => IInv
  BY InitInv
<1>2. IInv /\ [Next]_vars => IInv'
  BY NextInv
<1> QED  BY <1>1, <1>2, PTL DEF Spec

\* The store and the requests keep their types; no handler works on no advertisement.
THEOREM TypeCorrect == Spec => []TypeOK
BY Invariance, PTL DEF IInv

\* Nobody is put into, or left in, a match that is no longer listed.
THEOREM NoGhosts == Spec => []NoGhostPeers
BY Invariance, PTL DEF IInv

\* No match without peers stays listed.
THEOREM NoneAbandoned == Spec => []NoAbandonedMatch
BY Invariance, PTL DEF IInv

\* The host of a listed match has been one of its peers, or is about to be.
THEOREM HostCorrect == Spec => []HostWasPeer
BY Invariance, PTL DEF IInv

\* PeerAdd finds its match listed until it has added everybody.
THEOREM PeerAddCorrect == Spec => []PeerAddNeverRollsBack
<1>1. IInv => PeerAddNeverRollsBack
  <2> SUFFICES ASSUME IInv, NEW r \in Requests, At(r, "adding")
               PROVE  Listed(req[r].target)
    BY DEF PeerAddNeverRollsBack
  <2>1. req[r].target \in AdvIds
    BY DEF IInv, TypeOK, WellFormed, At
  <2> QED  BY <2>1 DEF IInv, InsideIsListed, Inside
<1> QED  BY <1>1, Invariance, PTL

-----------------------------------------------------------------------------
\* One match per user, outside AoE4.  What request q has found out about its user u, when
\* the peers are p: u is in no match but those it has still to look at, then in none but
\* the one it is leaving, and in none at all when it stores a match or looks one up.
Knows(p, q, u) ==
  q.user = u =>
    /\ q.pc = "find" => \A a \in AdvIds : u \in Range(p[a]) => a \in Range(q.scan)
    /\ q.pc = "remove" /\ q.op \in {"host", "join"}
         => \A a \in AdvIds : u \in Range(p[a]) => a = q.leaving
    /\ q.pc \in {"store", "lookup", "newPeer"}
         \/ (q.pc = "drop" /\ q.op \in {"host", "join"})
         => \A a \in AdvIds : u \notin Range(p[a])

\* What holds for a user whose requests come one after the other: only its one request
\* adds it to a match, and that request knows when it may.
OnlyRequest(u) ==
  \A r, s \in Requests :
    ~At(r, "idle") /\ req[r].user = u /\ ~At(s, "idle") /\ req[s].user = u => r = s

Alone(u) ==
  /\ OnlyRequest(u)
  /\ \A r \in Requests : At(r, "adding") => u \notin Range(req[r].todo)
  /\ \A a, b \in AdvIds : IsPeer(u, a) /\ IsPeer(u, b) => a = b
  /\ \A r \in Requests : Knows(peers, req[r], u)

SequentialInv == LeavesPrevious => \A u \in sequential : Alone(u)

\* A step that adds u to no match, and leaves request r in a state q that knows enough.
LEMMA AloneStep ==
  ASSUME TypeOK, NEW r \in Requests, NEW q, NEW u, Alone(u),
         req' = [req EXCEPT ![r] = q],
         \A a \in AdvIds : u \in Range(peers'[a]) => u \in Range(peers[a]),
         \/ q.pc = "idle" \/ q.user # u \/ ~Busy(u)
         \/ q.user = req[r].user /\ req[r].pc # "idle",
         q.pc = "adding" => u \notin Range(q.todo),
         Knows(peers', q, u)
  PROVE  Alone(u)'
<1>1. req'[r] = q /\ \A s \in Requests \ {r} : req'[s] = req[s]
  BY DEF TypeOK
<1>2. OnlyRequest(u)'
  <2>1. CASE q.pc = "idle" \/ q.user # u
    BY <1>1, <2>1 DEF Alone, OnlyRequest, At
  <2>2. CASE ~Busy(u)
    BY <1>1, <2>2 DEF OnlyRequest, Busy, At
  <2>3. CASE q.user = req[r].user /\ req[r].pc # "idle"
    BY <1>1, <2>3 DEF Alone, OnlyRequest, At
  <2> QED  BY <2>1, <2>2, <2>3
<1>3. \A s \in Requests : At(s, "adding")' => u \notin Range(req'[s].todo)
  BY <1>1 DEF Alone, At
<1>4. \A a, b \in AdvIds : IsPeer(u, a)' /\ IsPeer(u, b)' => a = b
  BY DEF Alone, IsPeer
<1>5. \A s \in Requests : Knows(peers', req'[s], u)
  <2>1. ASSUME NEW s \in Requests \ {r} PROVE Knows(peers', req[s], u)
    BY <2>1 DEF Alone, Knows
  <2> QED  BY <1>1, <2>1
<1> QED  BY <1>2, <1>3, <1>4, <1>5 DEF Alone

\* A request that only goes on to a step at which it need know nothing.
LEMMA IgnorantStep ==
  ASSUME TypeOK, NEW r \in Requests, NEW q, NEW u, Alone(u), UNCHANGED peers,
         req' = [req EXCEPT ![r] = q],
         q.pc \in {"idle", "setHost"},
         q.pc = "idle" \/ (q.user = req[r].user /\ req[r].pc # "idle")
  PROVE  Alone(u)'
BY AloneStep DEF Knows

LEMMA BeginAlone ==
  ASSUME IInv, NEW r \in Requests, NEW o \in Ops, NEW v \in Users,
         NEW a \in AdvIds \cup {None}, Begin(r, o, v, a),
         NEW u \in Users, Alone(u), u # v \/ ~Busy(u), LeavesPrevious
  PROVE  Alone(u)'
<1> DEFINE q == [pc |-> FirstStep(o), op |-> o, user |-> v, target |-> a,
                 leaving |-> Leaving(o, a),
                 scan |-> IF FirstStep(o) = "find" THEN store ELSE <<>>, todo |-> <<>>]
<1>1. req' = [req EXCEPT ![r] = q] /\ peers' = peers
  BY DEF Begin, advVars
<1>2. \A b \in AdvIds : u \in Range(peers[b]) => b \in Range(store)
  BY EmptyRange DEF IInv, NoGhostPeers, Listed, TypeOK
<1>3. /\ q.pc \in {"find", "remove", "peerAdd", "checkFirst"}
      /\ q.pc = "remove" => q.op = "leave"
      /\ q.pc = "find" => q.scan = store
      /\ q.user = v
  BY DEF Ops, FirstStep
<1> HIDE DEF q
<1>4. Knows(peers', q, u)
  BY <1>1, <1>2, <1>3 DEF Knows
<1> QED  BY <1>1, <1>3, <1>4, AloneStep DEF IInv

\* A request that is done with the match its user was in, if there was one.
LEMMA GoOnAlone ==
  ASSUME IInv, NEW r \in Requests, GoOn(r), req[r].pc \in {"find", "remove", "drop"},
         NEW u, Alone(u), UNCHANGED peers,
         req[r].user = u /\ req[r].op \in {"host", "join"}
           => \A a \in AdvIds : u \notin Range(peers[a])
  PROVE  Alone(u)'
<1>1. PICK q : /\ req' = [req EXCEPT ![r] = q]
               /\ q.pc \in {"idle", "store", "lookup"}
               /\ q.pc # "idle" => q.user = req[r].user /\ req[r].op \in {"host", "join"}
  BY GoOnStep DEF IInv
<1>2. Knows(peers', q, u)
  BY <1>1 DEF Knows
<1> QED  BY <1>1, <1>2, AloneStep DEF IInv

LEMMA ScanAlone ==
  ASSUME IInv, NEW r \in Requests, Scan(r), NEW u, Alone(u)
  PROVE  Alone(u)'
<1> DEFINE scan == req[r].scan
<1>1. /\ req[r].pc = "find" /\ req[r] \in Request /\ scan \in Seq(AdvIds)
      /\ UNCHANGED peers /\ Knows(peers, req[r], u)
  BY DEF Scan, At, IInv, TypeOK, Request, Alone, advVars
<1>2. CASE scan = <<>>
  <2>1. Range(scan) = {}
    BY <1>1, <1>2, EmptyRange
  <2> QED  BY <1>1, <1>2, <2>1, GoOnAlone DEF Scan, Knows
<1>3. CASE scan # <<>> /\ IsPeer(req[r].user, Head(scan))
  <2> DEFINE q == [req[r] EXCEPT !.leaving = Head(scan), !.scan = <<>>, !.pc = "remove"]
  <2>1. req' = [req EXCEPT ![r] = q]
    BY <1>1, <1>3 DEF Scan, Found, IInv, TypeOK
  <2>2. q.pc = "remove" /\ q.user = req[r].user /\ q.leaving = Head(scan)
    BY <1>1 DEF Request
  <2>3. Head(scan) \in AdvIds
    BY <1>1, <1>3
  <2> HIDE DEF q
  <2>4. Knows(peers', q, u)
    BY <1>1, <1>3, <2>2, <2>3 DEF Knows, Alone, IsPeer
  <2> QED  BY <1>1, <2>1, <2>2, <2>4, AloneStep DEF IInv
<1>4. CASE scan # <<>> /\ ~IsPeer(req[r].user, Head(scan))
  <2> DEFINE q == [req[r] EXCEPT !.scan = Tail(scan)]
  <2>1. req' = [req EXCEPT ![r] = q]
    BY <1>1, <1>4 DEF Scan, IInv, TypeOK
  <2>2. q.pc = "find" /\ q.user = req[r].user /\ q.scan = Tail(scan)
    BY <1>1 DEF Request
  <2>3. \A a \in Range(scan) : a = Head(scan) \/ a \in Range(Tail(scan))
    <3> HIDE DEF scan
    <3> QED  BY <1>1, <1>4, HeadTailRange
  <2> HIDE DEF q
  <2>4. Knows(peers', q, u)
    BY <1>1, <1>4, <2>2, <2>3 DEF Knows, IsPeer
  <2> QED  BY <1>1, <2>1, <2>2, <2>4, AloneStep DEF IInv
<1> QED  BY <1>2, <1>3, <1>4

LEMMA RemovePeerAlone ==
  ASSUME IInv, NEW r \in Requests, RemovePeer(r), NEW u, Alone(u)
  PROVE  Alone(u)'
<1> DEFINE a == req[r].leaving
<1>1. /\ req[r].pc = "remove" /\ req[r] \in Request /\ a \in AdvIds
      /\ peers[a] \in Seq(Users) /\ IsInjective(peers[a])
      /\ Knows(peers, req[r], u)
  BY DEF RemovePeer, At, IInv, TypeOK, WellFormed, Distinct, Alone
<1>2. CASE Listed(a) /\ IsPeer(req[r].user, a)
  <2> DEFINE q == [req[r] EXCEPT !.pc = "drop"]
  <2>1. req' = [req EXCEPT ![r] = q]
    BY <1>2 DEF RemovePeer, Goto, IInv, TypeOK
  <2>2. q.pc = "drop" /\ q.user = req[r].user /\ q.op = req[r].op
    BY <1>1 DEF Request
  <2>3. /\ Range(peers'[a]) = Range(peers[a]) \ {req[r].user}
        /\ \A b \in AdvIds \ {a} : peers'[b] = peers[b]
    BY <1>1, <1>2, WithoutKeyProperties DEF RemovePeer, IInv, TypeOK
  <2> HIDE DEF q, a
  <2>4. \A b \in AdvIds : u \in Range(peers'[b]) => u \in Range(peers[b])
    BY <2>3
  <2>5. Knows(peers', q, u)
    BY <1>1, <2>2, <2>3 DEF Knows, a
  <2> QED  BY <1>1, <2>1, <2>2, <2>4, <2>5, AloneStep DEF IInv
<1>3. CASE ~(Listed(a) /\ IsPeer(req[r].user, a))
  <2>1. GoOn(r) /\ UNCHANGED peers
    BY <1>3 DEF RemovePeer
  <2>2. req[r].user \notin Range(peers[a])
    BY <1>1, <1>3, EmptyRange DEF IInv, NoGhostPeers, IsPeer
  <2> QED  BY <1>1, <2>1, <2>2, GoOnAlone DEF Knows
<1> QED  BY <1>2, <1>3

LEMMA DropIfEmptyAlone ==
  ASSUME IInv, NEW r \in Requests, DropIfEmpty(r), NEW u, Alone(u)
  PROVE  Alone(u)'
<1>1. req[r].pc = "drop" /\ GoOn(r) /\ UNCHANGED peers /\ Knows(peers, req[r], u)
  BY DEF DropIfEmpty, At, Alone
<1> QED  BY <1>1, GoOnAlone DEF Knows

LEMMA StoreAdvertisementAlone ==
  ASSUME IInv, NEW r \in Requests, StoreAdvertisement(r), NEW u, Alone(u)
  PROVE  Alone(u)'
<1>1. /\ req[r].pc = "store" /\ req[r] \in Request /\ UNCHANGED peers
      /\ Knows(peers, req[r], u)
  BY DEF StoreAdvertisement, At, IInv, TypeOK, Alone
<1>2. PICK a \in AdvIds : req' = [req EXCEPT ![r].target = a, ![r].pc = "newPeer"]
  BY DEF StoreAdvertisement
<1> DEFINE q == [req[r] EXCEPT !.target = a, !.pc = "newPeer"]
<1>3. req' = [req EXCEPT ![r] = q]
  BY <1>2 DEF IInv, TypeOK
<1>4. q.pc = "newPeer" /\ q.user = req[r].user
  BY <1>1 DEF Request
<1> HIDE DEF q
<1>5. Knows(peers', q, u)
  BY <1>1, <1>4 DEF Knows
<1> QED  BY <1>1, <1>3, <1>4, <1>5, AloneStep DEF IInv

LEMMA LookupAlone ==
  ASSUME IInv, NEW r \in Requests, Lookup(r), NEW u, Alone(u)
  PROVE  Alone(u)'
<1>1. /\ req[r].pc = "lookup" /\ req[r] \in Request /\ UNCHANGED peers
      /\ Knows(peers, req[r], u)
  BY DEF Lookup, At, IInv, TypeOK, Alone, advVars
<1>2. CASE Goto(r, "newPeer")
  <2> DEFINE q == [req[r] EXCEPT !.pc = "newPeer"]
  <2>1. req' = [req EXCEPT ![r] = q]
    BY <1>2 DEF Goto, IInv, TypeOK
  <2>2. q.pc = "newPeer" /\ q.user = req[r].user
    BY <1>1 DEF Request
  <2> HIDE DEF q
  <2>3. Knows(peers', q, u)
    BY <1>1, <2>2 DEF Knows
  <2> QED  BY <1>1, <2>1, <2>2, <2>3, AloneStep DEF IInv
<1>3. CASE Respond(r)
  BY <1>1, <1>3, IgnorantStep DEF Respond, NoRequest, IInv
<1> QED  BY <1>2, <1>3 DEF Lookup

\* The one request of u adds it to a match when it is in none.
LEMMA NewPeerAlone ==
  ASSUME IInv, NEW r \in Requests, NewPeer(r), NEW u, Alone(u)
  PROVE  Alone(u)'
<1> DEFINE a == req[r].target
<1>1. /\ req[r].pc = "newPeer" /\ a \in AdvIds /\ req[r].user \in Users
      /\ req' = [req EXCEPT ![r] = NoRequest] /\ NoRequest.pc = "idle"
      /\ Knows(peers, req[r], u)
  BY DEF NewPeer, Respond, NoRequest, At, IInv, TypeOK, WellFormed, Alone
<1>2. CASE ~Listed(a)
  BY <1>1, <1>2, IgnorantStep DEF NewPeer, IInv
<1>3. CASE Listed(a)
  <2>1. /\ Range(peers'[a]) = Range(peers[a]) \cup {req[r].user}
        /\ \A b \in AdvIds \ {a} : peers'[b] = peers[b]
    BY <1>1, <1>3, AddUserProperties DEF NewPeer
  <2>2. CASE req[r].user # u
    <3>1. \A b \in AdvIds : u \in Range(peers'[b]) => u \in Range(peers[b])
      BY <2>1, <2>2
    <3> QED  BY <1>1, <3>1, AloneStep DEF IInv, Knows
  <2>3. CASE req[r].user = u
    <3>1. \A b \in AdvIds : u \notin Range(peers[b])
      BY <1>1, <2>3 DEF Knows
    <3>2. \A b \in AdvIds : u \in Range(peers'[b]) => b = a
      BY <2>1, <3>1
    <3>3. req'[r] = NoRequest /\ \A s \in Requests \ {r} : req'[s] = req[s]
      BY <1>1 DEF IInv, TypeOK
    <3>4. \A s \in Requests : req'[s].user = u => req'[s].pc = "idle"
      BY <1>1, <2>3, <3>3 DEF Alone, OnlyRequest, At
    <3>5. \A s \in Requests : At(s, "adding")' => u \notin Range(req'[s].todo)
      BY <1>1, <3>3 DEF Alone, At
    <3>6. \A s \in Requests : Knows(peers', req'[s], u)
      BY <3>4 DEF Knows
    <3> QED  BY <3>2, <3>4, <3>5, <3>6 DEF Alone, OnlyRequest, IsPeer, At
  <2> QED  BY <2>2, <2>3
<1> QED  BY <1>2, <1>3

LEMMA BeginPeerAddAlone ==
  ASSUME IInv, NEW r \in Requests, BeginPeerAdd(r), NEW u \in sequential', Alone(u)
  PROVE  Alone(u)'
<1>1. req[r].pc = "peerAdd" /\ req[r] \in Request /\ UNCHANGED peers
  BY DEF BeginPeerAdd, At, IInv, TypeOK
<1>2. CASE Respond(r)
  BY <1>1, <1>2, IgnorantStep DEF Respond, NoRequest, IInv
<1>3. ASSUME NEW us, req' = [req EXCEPT ![r].todo = us, ![r].pc = "adding"],
             sequential' = sequential \ Range(us)
      PROVE  Alone(u)'
  <2> DEFINE q == [req[r] EXCEPT !.todo = us, !.pc = "adding"]
  <2>1. req' = [req EXCEPT ![r] = q]
    BY <1>3 DEF IInv, TypeOK
  <2>2. q.pc = "adding" /\ q.user = req[r].user /\ q.todo = us
    BY <1>1 DEF Request
  <2> HIDE DEF q
  <2>3. Knows(peers', q, u)
    BY <2>2 DEF Knows
  <2> QED  BY <1>1, <1>3, <2>1, <2>2, <2>3, AloneStep DEF IInv
<1> QED  BY <1>2, <1>3 DEF BeginPeerAdd

LEMMA AddPeerAlone ==
  ASSUME IInv, NEW r \in Requests, AddPeer(r), NEW u, Alone(u)
  PROVE  Alone(u)'
<1> DEFINE a == req[r].target
           todo == req[r].todo
<1>1. /\ req[r].pc = "adding" /\ req[r] \in Request /\ a \in AdvIds
      /\ todo \in Seq(Users) /\ todo # <<>>
      /\ u \notin Range(todo)
  BY DEF AddPeer, At, IInv, TypeOK, WellFormed, Request, Alone
<1>2. /\ Head(todo) \in Range(todo) /\ Head(todo) \in Users
      /\ Range(Tail(todo)) \subseteq Range(todo)
  <2> HIDE DEF todo
  <2> QED  BY <1>1, HeadTailRange
<1>3. \A b \in AdvIds : u \in Range(peers'[b]) => u \in Range(peers[b])
  <2>1. CASE ~Listed(a)
    BY <2>1 DEF AddPeer
  <2>2. CASE Listed(a)
    <3>1. /\ Range(peers'[a]) = Range(peers[a]) \cup {Head(todo)}
          /\ \A b \in AdvIds \ {a} : peers'[b] = peers[b]
      <4>1. AddUser(a, Head(todo))
        BY <2>2 DEF AddPeer
      <4> QED  BY <1>1, <1>2, <4>1, AddUserProperties
    <3> QED  BY <1>1, <1>2, <3>1
  <2> QED  BY <2>1, <2>2
<1>4. CASE Respond(r)
  BY <1>3, <1>4, AloneStep DEF Respond, NoRequest, IInv, Knows
<1>5. CASE req' = [req EXCEPT ![r].todo = Tail(@)]
  <2> DEFINE q == [req[r] EXCEPT !.todo = Tail(todo)]
  <2>1. req' = [req EXCEPT ![r] = q]
    BY <1>5 DEF IInv, TypeOK
  <2>2. q.pc = "adding" /\ q.user = req[r].user /\ q.todo = Tail(todo)
    BY <1>1 DEF Request
  <2> HIDE DEF q, todo
  <2>3. Knows(peers', q, u)
    BY <2>2 DEF Knows
  <2> QED  BY <1>1, <1>2, <1>3, <2>1, <2>2, <2>3, AloneStep DEF IInv
<1> QED  BY <1>4, <1>5 DEF AddPeer

LEMMA CheckFirstAlone ==
  ASSUME IInv, NEW r \in Requests, CheckFirst(r) \/ SetHost(r), NEW u, Alone(u)
  PROVE  Alone(u)'
<1>1. req[r].pc # "idle" /\ req[r] \in Request /\ UNCHANGED peers
  BY DEF CheckFirst, SetHost, At, IInv, TypeOK, advVars
<1>2. CASE Respond(r)
  BY <1>1, <1>2, IgnorantStep DEF Respond, NoRequest, IInv
<1>3. CASE Goto(r, "setHost")
  <2> DEFINE q == [req[r] EXCEPT !.pc = "setHost"]
  <2>1. req' = [req EXCEPT ![r] = q]
    BY <1>3 DEF Goto, IInv, TypeOK
  <2>2. q.pc = "setHost" /\ q.user = req[r].user
    BY <1>1 DEF Request
  <2> HIDE DEF q
  <2> QED  BY <1>1, <2>1, <2>2, IgnorantStep DEF IInv
<1> QED  BY <1>2, <1>3 DEF CheckFirst, SetHost

LEMMA SequentialStep == IInv /\ SequentialInv /\ [Next]_vars => SequentialInv'
<1> SUFFICES ASSUME IInv, SequentialInv, [Next]_vars, LeavesPrevious', NEW u \in sequential'
             PROVE  Alone(u)'
  BY DEF SequentialInv
<1>1. UNCHANGED title /\ sequential' \subseteq sequential
  BY DEF Next, vars, history, Begin, Scan, RemovePeer, DropIfEmpty, StoreAdvertisement, Lookup,
         NewPeer, BeginPeerAdd, AddPeer, CheckFirst, SetHost
<1>2. LeavesPrevious /\ u \in sequential /\ u \in Users /\ Alone(u)
  BY <1>1 DEF LeavesPrevious, SequentialInv, IInv, TypeOK
<1>3. CASE UNCHANGED vars
  BY <1>2, <1>3 DEF vars, advVars, Alone, OnlyRequest, Knows, IsPeer, At
<1>4. ASSUME NEW r \in Requests, NEW o \in Ops, NEW v \in Users,
             NEW a \in AdvIds \cup {None}, Begin(r, o, v, a)
      PROVE  Alone(u)'
  <2>1. u # v \/ ~Busy(u)
    BY <1>4 DEF Begin
  <2> QED  BY <1>2, <1>4, <2>1, BeginAlone
<1>5. ASSUME NEW r \in Requests,
             Scan(r) \/ RemovePeer(r) \/ DropIfEmpty(r) \/ StoreAdvertisement(r)
      PROVE  Alone(u)'
  BY <1>2, <1>5, ScanAlone, RemovePeerAlone, DropIfEmptyAlone, StoreAdvertisementAlone
<1>6. ASSUME NEW r \in Requests,
             Lookup(r) \/ NewPeer(r) \/ BeginPeerAdd(r) \/ AddPeer(r)
      PROVE  Alone(u)'
  BY <1>2, <1>6, LookupAlone, NewPeerAlone, BeginPeerAddAlone, AddPeerAlone
<1>7. ASSUME NEW r \in Requests, CheckFirst(r) \/ SetHost(r)
      PROVE  Alone(u)'
  BY <1>2, <1>7, CheckFirstAlone
<1> QED  BY <1>3, <1>4, <1>5, <1>6, <1>7 DEF Next

\* "Leave the previous match": outside AoE4 a user whose requests come one after the other,
\* and whom no host adds to a match, is in one match at most.
THEOREM OneMatch == Spec => []SequentialUserInOneMatch
<1>1. Init => SequentialInv
  <2> SUFFICES ASSUME Init, NEW u \in sequential PROVE Alone(u)
    BY DEF SequentialInv
  <2>1. \A a \in AdvIds : Range(peers[a]) = {}
    BY EmptySeq, LenProperties DEF Init, Range
  <2>2. \A r \in Requests : req[r].pc = "idle"
    BY DEF Init, NoRequest
  <2> QED  BY <2>1, <2>2 DEF Alone, OnlyRequest, Knows, IsPeer, At
<1>2. SequentialInv => SequentialUserInOneMatch
  <2> SUFFICES ASSUME NEW u, Alone(u) PROVE Cardinality(MatchesOf(u)) <= 1
    BY DEF SequentialInv, SequentialUserInOneMatch
  <2>1. CASE MatchesOf(u) = {}
    BY <2>1, FS_EmptySet
  <2>2. ASSUME NEW a \in MatchesOf(u) PROVE Cardinality(MatchesOf(u)) <= 1
    <3>1. MatchesOf(u) = {a}
      BY <2>2 DEF Alone, MatchesOf
    <3> QED  BY <3>1, FS_Singleton
  <2> QED  BY <2>1, <2>2
<1> QED  BY <1>1, <1>2, SequentialStep, Invariance, PTL DEF Spec
=============================================================================
