CONSTANTS
  RequiredFrames = 2
SPECIFICATION ReportSpec
INVARIANTS
  MemoryIsConsistent
  DirectLeavesNoTrace
  FinishIsEarned
  ReportIsTrue
