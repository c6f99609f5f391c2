-------------------------------- MODULE Lobby --------------------------------
(***************************************************************************)
(* What the peers of a match tell each other before it starts: invitations *)
(* (routes/game/invitation/{extend,cancel,replyTo}Invitation.go and the    *)
(* invites of models/peer.go), what the host sets for the peers            *)
(* (party/peerUpdate.go) and the tags a search can ask for (advertisement/ *)
(* updateTags.go).                                                         *)
(*                                                                         *)
(* An invitation is a member of the set that its inviter's Peer has, and   *)
(* the Peer is another one after the inviter has left and come back.  A    *)
(* request loads the Peer, then changes its set in one atomic step, and    *)
(* then, if that changed the set, looks up a session and sends a message.  *)
(* Nothing orders two requests about one invitation.                       *)
(***************************************************************************)
EXTENDS ServerConstants, Naturals, FiniteSets

CONSTANTS
  Inviters,       \* the users that invite others
  LobbyRequests,  \* the requests that can be in progress at once
  Races,          \* what a peer's race, and the tags, can be set to
  MaxPeers        \* how often a user enters the match

ASSUME LobbyAssumption == Inviters \subseteq Users /\ MaxPeers \in Nat \ {0}

VARIABLES
  peer,          \* per user: which of his Peers is in the match, 0 if none
  entered,       \* per user: how many Peers he has had
  invites,       \* per user and Peer of his: the users invited
  race,          \* per user: his Peer's mutable part
  tags,
  connected,     \* the users with a session
  asked,         \* the requests in progress
  lastTold,      \* history, per inviter and invitee: the last message about the two
  raced,         \* history: the pairs about which two requests were in progress at once
  deserted       \* history: the pairs whose inviter left, or one of whom had no session

lobbyVars ==
  <<peer, entered, invites, race, tags, connected, asked, lastTold, raced, deserted>>

Pairs == {pair \in Inviters \X Users : pair[1] # pair[2]}
Inviter(pair) == pair[1]
Invitee(pair) == pair[2]

\* A request: what it does, about which pair, and the Peer it has loaded.
AskedIdle == [op |-> None, pair |-> None, peer |-> 0, changed |-> FALSE]

InvitationOps == {"extend", "cancel", "reply"}

ASSUME NoneAskedAssumption == None \notin Pairs /\ None \notin InvitationOps

LobbyInit ==
  /\ peer = [u \in Users |-> IF u = Host THEN 1 ELSE 0]
  /\ entered = peer
  /\ invites = [u \in Users |-> [p \in 1 .. MaxPeers |-> {}]]
  /\ \E r \in Races : race = [u \in Users |-> r] /\ tags = r
  /\ connected = Users
  /\ asked = [r \in LobbyRequests |-> AskedIdle]
  /\ lastTold = [pair \in Pairs |-> None]
  /\ raced = {} /\ deserted = {}

\* The handler loads the inviter's Peer: the match must have it.
LoadPeer(r, op, pair) ==
  /\ asked[r] = AskedIdle /\ peer[Inviter(pair)] # 0
  /\ asked' = [asked EXCEPT ![r] =
       [op |-> op, pair |-> pair, peer |-> peer[Inviter(pair)], changed |-> FALSE]]
  /\ raced' = IF \E q \in LobbyRequests : asked[q].pair = pair THEN raced \cup {pair} ELSE raced
  /\ UNCHANGED <<peer, entered, invites, race, tags, connected, lastTold, deserted>>

Sets(r, set) ==
  LET u == Inviter(asked[r].pair)
  IN invites' = [invites EXCEPT ![u][asked[r].peer] = set]
Has(r) == invites[Inviter(asked[r].pair)][asked[r].peer]

\* A mutant of Invited: CancelInvitation only looks whether there is an invitation.
InvitedKept(set, op, u) ==
  CASE op = "extend" -> set \cup {u} [] op = "cancel" -> set [] OTHER -> set \ {u}

\* What Invite and Uninvite make of the set of invites.
Invited(set, op, u) == IF op = "extend" THEN set \cup {u} ELSE set \ {u}

\* Invite, or Uninvite: a request that changes nothing is answered at once.
ChangeInvites(r) ==
  LET v == Invitee(asked[r].pair)
      changes == (asked[r].op = "extend") = (v \notin Has(r))
  IN /\ asked[r].op \in InvitationOps /\ ~asked[r].changed
     /\ IF changes
        THEN /\ Sets(r, Invited(Has(r), asked[r].op, v))
             /\ asked' = [asked EXCEPT ![r].changed = TRUE]
        ELSE asked' = [asked EXCEPT ![r] = AskedIdle] /\ UNCHANGED invites
     /\ UNCHANGED <<peer, entered, race, tags, connected, lastTold, raced, deserted>>

\* A reply is sent to the inviter, the rest to the invitee, if there is a session.
Tell(r) ==
  LET pair == asked[r].pair
      to == IF asked[r].op = "reply" THEN Inviter(pair) ELSE Invitee(pair)
  IN /\ asked[r].changed
     /\ lastTold' = IF to \in connected
                    THEN [lastTold EXCEPT ![pair] = asked[r].op] ELSE lastTold
     /\ asked' = [asked EXCEPT ![r] = AskedIdle]
     /\ UNCHANGED <<peer, entered, invites, race, tags, connected, raced, deserted>>

Concerning(u) == {pair \in Pairs : u \in {pair[1], pair[2]}}

\* Join and Leave (Advertisements), and the end of a session (Sessions).
EnterLobby(u) ==
  /\ peer[u] = 0 /\ entered[u] < MaxPeers
  /\ entered' = [entered EXCEPT ![u] = @ + 1]
  /\ peer' = [peer EXCEPT ![u] = entered'[u]]
  /\ UNCHANGED <<invites, race, tags, connected, asked, lastTold, raced, deserted>>

LeaveLobby(u) ==
  /\ u # Host /\ peer[u] # 0
  /\ peer' = [peer EXCEPT ![u] = 0]
  /\ deserted' = deserted \cup {pair \in Pairs : Inviter(pair) = u}
  /\ UNCHANGED <<entered, invites, race, tags, connected, asked, lastTold, raced>>

Disconnect(u) ==
  /\ u \in connected
  /\ connected' = connected \ {u}
  /\ deserted' = deserted \cup Concerning(u)
  /\ UNCHANGED <<peer, entered, invites, race, tags, asked, lastTold, raced>>

\* PeerUpdate: of the host, and only if every user it names is in the match.
PeerUpdate(users, r) ==
  /\ users # {} /\ \A u \in users : peer[u] # 0
  /\ race' = [u \in Users |-> IF u \in users THEN r ELSE race[u]]
  /\ UNCHANGED <<peer, entered, invites, tags, connected, asked, lastTold, raced, deserted>>

\* UpdateTags: of the host.
UpdateTags(r) ==
  /\ tags' = r
  /\ UNCHANGED <<peer, entered, invites, race, connected, asked, lastTold, raced, deserted>>

LobbyNext ==
  \/ \E r \in LobbyRequests :
       \/ \E op \in InvitationOps, pair \in Pairs : LoadPeer(r, op, pair)
       \/ ChangeInvites(r) \/ Tell(r)
  \/ \E u \in Users : EnterLobby(u) \/ LeaveLobby(u) \/ Disconnect(u)
  \/ \E r \in Races : UpdateTags(r) \/ \E users \in SUBSET Users : PeerUpdate(users, r)

LobbySpec == LobbyInit /\ [][LobbyNext]_lobbyVars

------------------------------------------------------------------------------
(* Properties *)

LobbyTypeOK ==
  /\ peer \in [Users -> 0 .. MaxPeers] /\ entered \in [Users -> 0 .. MaxPeers]
  /\ invites \in [Users -> [1 .. MaxPeers -> SUBSET Users]]
  /\ race \in [Users -> Races] /\ tags \in Races
  /\ connected \subseteq Users
  /\ asked \in [LobbyRequests ->
       [op : InvitationOps \cup {None}, pair : Pairs \cup {None}, peer : 0 .. MaxPeers,
        changed : BOOLEAN]]
  /\ lastTold \in [Pairs -> InvitationOps \cup {None}]
  /\ raced \subseteq Pairs /\ deserted \subseteq Pairs

Standing(pair) ==
  peer[Inviter(pair)] # 0 /\ Invitee(pair) \in invites[Inviter(pair)][peer[Inviter(pair)]]

\* When nothing is in progress, the last message about an inviter and an invitee says
\* whether there is an invitation between them, unless two requests about the two ran at
\* once, one of them lost his session, or the inviter left, of which the invitee is told
\* nothing (extendInvitation.go, cancelInvitation.go, replyToInvitation.go).
InviteeKnows ==
  \A pair \in Pairs \ (raced \cup deserted) :
    (\A r \in LobbyRequests : asked[r].pair # pair) =>
      (Standing(pair) <=> lastTold[pair] = "extend")

==============================================================================
