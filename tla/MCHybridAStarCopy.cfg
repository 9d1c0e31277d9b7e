CONSTANTS
  Problems <- MCProblems
  Scene <- MCScene
  Poses <- MCPoses
  Cells <- MCCells
  Step = 1
  MinLength = 2
  GearSwitch = 2
  Accept = 1
  MaxExplore = 2
  MaxClock = 5
SPECIFICATION Spec
INVARIANT PathIsComplete
