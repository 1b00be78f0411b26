SPECIFICATION Spec
CONSTANTS
  MaxFile = 3
  MaxRank = 3
  N = 2
  Horizon = 3
  RecaptureCooldown = TRUE
  CancellationEnabled = TRUE
  FizzleScope = "both_pawns"
  IntermezzoReading = "ii"
  KingCaptureCooldown = TRUE
  MaxPhases = 2
  InitialStates <- ClashStart
  Considered <- Fighting
PROPERTIES
  KingCoolsForItsCapture
CHECK_DEADLOCK FALSE
