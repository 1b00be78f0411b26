SPECIFICATION Spec
CONSTANTS
  MaxFile = 4
  MaxRank = 3
  N = 2
  Horizon = 2
  RecaptureCooldown = TRUE
  CancellationEnabled = TRUE
  FizzleScope = "both_pawns"
  IntermezzoReading = "i"
  KingCaptureCooldown = TRUE
  MaxPhases = 2
  WindowPhases = 5
  MaxActions = 2
  Setups <- EverySetup
  Considered <- Typed
  Clickable <- HomeSquares
INVARIANTS
  BuilderIsCurrent
PROPERTIES
  PlaysMatch
  ThreatsShown
  Decided
CHECK_DEADLOCK FALSE
