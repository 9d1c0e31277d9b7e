CONSTANTS
  RequiredFrames = 2
SPECIFICATION Spec
INVARIANTS
  FinishedMissionIsHeld
