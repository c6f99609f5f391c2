--------------------------- MODULE MCServerState ---------------------------
(***************************************************************************)
(* One TLC instance for the parts of the server's state that no request    *)
(* changes together: a behaviour is one of a single part, chosen at first, *)
(* and the variables of the others keep a value that Init gives them.      *)
(***************************************************************************)
EXTENDS UserFile, Items, Labyrinth, Gauntlet, Match, Lobby, Chat, Presence, Authentication,
        ServerRun

CONSTANT Parts

VARIABLE part

vars == <<part, fileVars, itemVars, loadoutVars, statVars, drawVars, labyrinthVars,
          gauntletVars, matchVars, lobbyVars, chatVars, presenceVars, authVars,
          runVars>>

itemsVars == <<itemVars, loadoutVars, statVars, drawVars>>

Init ==
  /\ part \in Parts
  /\ FileInit /\ ItemsInit /\ LabyrinthInit /\ GauntletInit /\ MatchInit /\ LobbyInit
  /\ ChatInit /\ PresenceInit /\ AuthInit /\ RunInit
  /\ part # "match" => title = CHOOSE t \in MatchTitles : TRUE
  /\ part # "lobby" => tags = CHOOSE r \in Races : TRUE
  /\ part # "authentication" => mode = CHOOSE m \in AuthModes : TRUE
  /\ part # "run" =>
       config = [hosts |-> [g \in ServedGames |-> {Unspecified}], announce |-> TRUE]

Others(p) ==
  /\ part = p /\ UNCHANGED part
  /\ p = "file" \/ UNCHANGED fileVars
  /\ p = "items" \/ UNCHANGED itemsVars
  /\ p = "labyrinth" \/ UNCHANGED labyrinthVars
  /\ p = "gauntlet" \/ UNCHANGED gauntletVars
  /\ p = "match" \/ UNCHANGED matchVars
  /\ p = "lobby" \/ UNCHANGED lobbyVars
  /\ p = "chat" \/ UNCHANGED chatVars
  /\ p = "presence" \/ UNCHANGED presenceVars
  /\ p = "authentication" \/ UNCHANGED authVars
  /\ p = "run" \/ UNCHANGED runVars

Next ==
  \/ Others("file") /\ FileNext
  \/ Others("items") /\ ItemsNext
  \/ Others("labyrinth") /\ LabyrinthNext
  \/ Others("gauntlet") /\ GauntletNext
  \/ Others("match") /\ MatchNext
  \/ Others("lobby") /\ LobbyNext
  \/ Others("chat") /\ ChatNext
  \/ Others("presence") /\ PresenceNext
  \/ Others("authentication") /\ AuthNext
  \/ Others("run") /\ RunNext

\* The fairness of the parts, each in its own behaviours: the fair actions of Items are not
\* enabled in the others'.
Fairness == ItemsFairness /\ WF_runVars(part = "run" /\ MainStep)

Spec == Init /\ [][Next]_vars /\ Fairness

\* The variables of every part keep their types.
TypeOK ==
  /\ FileTypeOK /\ ItemsTypeOK /\ LabyrinthTypeOK /\ GauntletTypeOK /\ MatchTypeOK
  /\ LobbyTypeOK /\ ChatTypeOK /\ PresenceTypeOK /\ AuthTypeOK
  /\ RunTypeOK

\* The names of a user's values that the two users of the instance of UserFile change.
FileKeys == <<"items", "auth">>
=============================================================================
