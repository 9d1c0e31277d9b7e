CONSTANTS
  SearchThreadNum = 2
  PathIds = {1, 2, 3}
  Scenes = {s1}
  NoScene = NoScene
  MaxPlanId = 2
SPECIFICATION FairSpec
INVARIANTS
  AnswerFromOwnRun
  CandidateIsForItsPath
  OneWorkerPerPath
  StaleRunIsToldToStop
PROPERTIES
  QueuedCandidateKept
  RefinesService
  PlanSettles
