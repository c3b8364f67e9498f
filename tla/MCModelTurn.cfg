\* Two turns with tools and a message in a window of one; every path, provider and fault.
SPECIFICATION Spec
CONSTANTS
  Paths <- AllPaths
  Families <- AllFamilies
  MaxCalls = 2
  Pieces = 2
  Attempts = 2
  MaxIterations = 2
  HistoryWindow = 1
  Kept = 2
INVARIANTS CallsAssembled RefusedExactly RefusalPasses AnsweredTurnsKept
