CONSTANTS
  SearchThreadNum = 1
  PathIds = {1, 2, 3}
  Scenes = {clear, blocked}
  NoScene = NoScene
  MaxPlanId = 2
  MaxPolls = 1
SPECIFICATION FairFrameSpec
INVARIANTS
  DeliveredForSelectedLot
  HistoryIsUsable
  NoRunOutlivesItsFrame
PROPERTIES
  FrameEnds
  SpeculationGoesOn
