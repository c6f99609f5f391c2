CONSTANTS
  PCs <- HandMappedPC
  Manual <- HandMapped
  MaxRuns = 2
  MaxTroubles = 0
SPECIFICATION Spec
INVARIANT CleanupStopsAdminAgent
\* Nobody need start the launcher again, nor end the game.
CHECK_DEADLOCK FALSE
