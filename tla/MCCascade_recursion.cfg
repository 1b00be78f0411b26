SPECIFICATION Spec
CONSTANTS
  MaxFile = 3
  MaxRank = 3
  N = 3
  Horizon = 3
  RecaptureCooldown = TRUE
  CancellationEnabled = TRUE
  FizzleScope = "both_pawns"
  IntermezzoReading = "ii"
  KingCaptureCooldown = TRUE
  RecursionLimit = 6
  MaxDefences = 3
  Contexts <- RingContexts
INVARIANTS
  NoRecursionError
CHECK_DEADLOCK FALSE
