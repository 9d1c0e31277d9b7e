SPECIFICATION Spec
CONSTANTS
  Routes <- MCRoutes
  GearShiftLimit = 1
  MaxShifts = 1
  MaxTick = 2
  ColdStart = 0
  WarmStart = 1
  YawReplan = 1
  LongTime = 1
INVARIANTS
  FinishNeedsMotion
PROPERTIES
  ReachedIsHeld
  PathIsFollowed
