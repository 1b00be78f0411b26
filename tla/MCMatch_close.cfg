SPECIFICATION Spec
CONSTANTS
  MaxFile = 3
  MaxRank = 3
  N = 2
  Horizon = 3
  RecaptureCooldown = TRUE
  CancellationEnabled = TRUE
  FizzleScope = "any_same_square"
  IntermezzoReading = "i"
  KingCaptureCooldown = TRUE
  MaxPhases = 2
  InitialStates <- CloseStart
  Considered <- CloseMenu
INVARIANTS
  TypeOK
  AlwaysPlayable
PROPERTIES
  CooldownIsExact
  StruckFirstIsDefused
CHECK_DEADLOCK FALSE
