SPECIFICATION Spec
CONSTANTS
  MaxFile = 3
  MaxRank = 3
  N = 2
  Horizon = 3
  RecaptureCooldown = TRUE
  CancellationEnabled = TRUE
  FizzleScope = "both_pawns"
  IntermezzoReading = "ii"
  KingCaptureCooldown = TRUE
  MaxPhases = 1
  InitialStates <- SharedDefence
  Considered <- Fighting
PROPERTIES
  ColourIsIrrelevant
CHECK_DEADLOCK FALSE
