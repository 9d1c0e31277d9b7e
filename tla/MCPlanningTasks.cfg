CONSTANTS
  Lengths = {0, 1, 2}
  Elapsed = {1}
  ReplanSettings = {TRUE, FALSE}
  MinWait = 2
  MaxReplanWait = 3
  MaxReplanWaitRpa = 2
  AgeCap = 4
  WaitCount = 0
  SafeCount = 0
  DirectFrames <- FramesOfCommands
  StepSize = 2
  StopPoints = 3
  DefaultLength = 8
  MaxLength = 10
  MaxDriven = 3
  MaxLine = 4
  Vehicle <- EP30
  ParkingFrames <- FramesOfMaps
  ObstacleInputs <- ObstaclesOfMaps
  PathAnswers <- Maneuvers
SPECIFICATION MCSpec
INVARIANTS
  RemembersDelivered
  ReplanIsBounded
  GeometryIsRight
  RegionHoldsManeuver
  ShortestWordArrives
  DrivesStopInTime
  DirectKeepsLine
  SpliceFollowsHistory
  SamplesSurviveTheWire
PROPERTIES
  WaitsUntilClear
  ClearWayReleases
