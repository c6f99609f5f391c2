------------------------------ MODULE Gauntlet -------------------------------
(***************************************************************************)
(* A user's gauntlet: the CloudScript functions BuildGauntletLabyrinth,    *)
(* StartGauntletMission and AwardMissionRewards, and GetUserReadOnlyData,  *)
(* by which the game polls what they change.                               *)
(*                                                                         *)
(* Each function changes PlayfabData inside WithReadWrite (UserFile has    *)
(* the file) and adds 1 to DataVersion if it changed anything.  A poll     *)
(* names the version its client has and gets the data only if the server's *)
(* is later.  Under the lock the answer takes POINTERS to the data; it is  *)
(* encoded after the lock is released, with whatever they then hold.  A    *)
(* new labyrinth brings a new progress; the old one stays as it was.       *)
(*                                                                         *)
(* Labyrinth has how the missions are chosen; here they are any of Played, *)
(* the missions that the client asks for.  The client, which is not part   *)
(* of the code, is taken to ask again from the version it was answered     *)
(* last, one poll at a time.                                               *)
(***************************************************************************)
EXTENDS ServerConstants, Naturals, Sequences, FiniteSets

CONSTANTS
  Played,       \* the missions the client starts and reports, of any labyrinth or none
  MaxVersion    \* how far DataVersion counts here

ASSUME GauntletAssumption == MaxVersion \in Nat /\ None \notin 0 .. MaxVersion

VARIABLES
  challenges,   \* the labyrinths built so far, each with its progress: the last is current
  version,      \* DataVersion
  poll,         \* the poll in progress: the version it read and what it points to
  client        \* the client's copy: the version, and the challenge

gauntletVars == <<challenges, version, poll, client>>

\* What is sent of no challenge at all: both keys are nil.
NoChallenge == [missions |-> {}, playing |-> None, completed |-> <<>>, inventory |-> <<>>]

\* A pointer is the place of its challenge, 0 if there is none.
At(place) == IF place = 0 THEN NoChallenge ELSE challenges[place]
Current == At(Len(challenges))

GauntletInit ==
  /\ challenges = <<>> /\ version = 0
  /\ poll = None
  /\ client = [version |-> None, copy |-> None]

BuildGauntletLabyrinth ==
  /\ version < MaxVersion
  /\ \E missions \in SUBSET Played :
       challenges' = Append(challenges, [NoChallenge EXCEPT !.missions = missions])
  /\ version' = version + 1
  /\ UNCHANGED <<poll, client>>

\* A mutant of StartGauntletMission: the version stays.
StartWithoutVersion(m) ==
  /\ version < MaxVersion /\ challenges # <<>> /\ Current.playing # m
  /\ challenges' = [challenges EXCEPT ![Len(challenges)].playing = m]
  /\ UNCHANGED <<version, poll, client>>

\* A mission is started whether or not the labyrinth has it or it can be reached; one that
\* is being played already changes nothing.
StartGauntletMission(m) ==
  /\ version < MaxVersion /\ challenges # <<>> /\ Current.playing # m
  /\ challenges' = [challenges EXCEPT ![Len(challenges)].playing = m]
  /\ version' = version + 1
  /\ UNCHANGED <<poll, client>>

\* A challenge after its mission m was won: the rewards are those of the mission in the
\* labyrinth, if it is in it.
Won(challenge, m) ==
  [challenge EXCEPT
     !.completed = Append(@, m),
     !.inventory = IF m \in challenge.missions THEN Append(@, m) ELSE @,
     !.playing = None]

\* A mission that was lost, or that is not being played, changes nothing: it can be
\* reported again.
AwardMissionRewards(m) ==
  /\ version < MaxVersion /\ challenges # <<>> /\ Current.playing = m
  /\ challenges' = [challenges EXCEPT ![Len(challenges)] = Won(@, m)]
  /\ version' = version + 1
  /\ UNCHANGED <<poll, client>>

\* GetUserReadOnlyData under the lock.
ReadOnlyData ==
  /\ poll = None
  /\ poll' = [version |-> version, place |-> Len(challenges),
              sent |-> client.version = None \/ client.version < version]
  /\ UNCHANGED <<challenges, version, client>>

\* Its answer, encoded and received.
RespondOK ==
  /\ poll # None
  /\ client' = [version |-> poll.version,
                copy |-> IF poll.sent THEN At(poll.place) ELSE client.copy]
  /\ poll' = None
  /\ UNCHANGED <<challenges, version>>

GauntletNext ==
  \/ BuildGauntletLabyrinth
  \/ \E m \in Played : StartGauntletMission(m) \/ AwardMissionRewards(m)
  \/ ReadOnlyData \/ RespondOK

GauntletSpec == GauntletInit /\ [][GauntletNext]_gauntletVars

------------------------------------------------------------------------------
(* Properties *)

ChallengeType ==
  [missions: SUBSET Played, playing: Played \cup {None},
   completed: Seq(Played), inventory: Seq(Played)]

GauntletTypeOK ==
  /\ challenges \in Seq(ChallengeType)
  /\ version \in 0 .. MaxVersion
  /\ poll = None \/ poll \in [version: 0 .. MaxVersion, place: 0 .. Len(challenges),
                              sent: BOOLEAN]
  /\ client.version \in (0 .. MaxVersion) \cup {None}
  /\ client.copy \in ChallengeType \cup {None}

\* A client whose version is the server's has what the server has, although the answer is
\* encoded after the lock is released (GetUserReadOnlyData.go, the DataVersion++ of each
\* function): a change that did not count would never reach it.
SameVersionSameData ==
  poll = None /\ client.version = version => client.copy = Current

==============================================================================
