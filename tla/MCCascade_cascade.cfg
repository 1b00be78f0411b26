SPECIFICATION Spec
CONSTANTS
  MaxFile = 3
  MaxRank = 3
  N = 3
  Horizon = 3
  RecaptureCooldown = TRUE
  CancellationEnabled = TRUE
  FizzleScope = "both_pawns"
  IntermezzoReading = "ii"
  KingCaptureCooldown = TRUE
  RecursionLimit = 6
  MaxDefences = 3
  Contexts <- CascadeContexts
INVARIANTS
  FiresOnce
  DiesOnce
  FiredLeftHome
  Conserved
  ProtegeFallsFirst
  MutualDefenceIsSilent
  ComputesStageB
PROPERTIES
  Returns
CHECK_DEADLOCK FALSE
