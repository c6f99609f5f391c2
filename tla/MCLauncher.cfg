CONSTANTS
  PCs <- BothPCs
  Manual = {}
  MaxRuns = 2
  MaxTroubles = 2
SPECIFICATION FairSpec
INVARIANTS
  LeftoversAreStored
  AdminAgentEnds
PROPERTIES
  GameStartsSetUp
  GameKeepsSetUp
  RevertedInTheEnd
\* Nobody need start the launcher again, nor end the game.
CHECK_DEADLOCK FALSE
