CONSTANTS
  RequiredFrames = 1
  Depth = 1
  MaxDrainRounds = 1
  Published <- PublishedCommands
SPECIFICATION FairComponentSpec
INVARIANTS
  SessionsAreClean
  ResetsOncePerCommand
  VehicleFollowsCache
PROPERTIES
  UsesStage
  StopReturns
  SamplesAreLookedAt
