CONSTANTS
  SearchThreadNum = 1
  PathIds = {1, 2}
  Scenes = {clear, blocked}
  NoScene = NoScene
  MaxPlanId = 2
  MaxPolls = 1
SPECIFICATION FrameSpec
INVARIANTS
  ObstacleChangeRegenerates
