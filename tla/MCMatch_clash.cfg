SPECIFICATION Spec
CONSTANTS
  MaxFile = 7
  MaxRank = 7
  N = 2
  Horizon = 3
  RecaptureCooldown = TRUE
  CancellationEnabled = TRUE
  FizzleScope = "both_pawns"
  IntermezzoReading = "ii"
  KingCaptureCooldown = TRUE
  MaxPhases = 2
  InitialStates <- ClashStarts
  Considered <- ClashMenu
INVARIANTS
  ReservationsStand
  SurvivorsDoNotMeet
  RightsKeepKingHome
PROPERTIES
  MaterialAccounted
  CooledIsInert
  ColourBlind
  ReservationsKeepTheirSquares
  HarnessIsSilent
  RecordsReplay
CHECK_DEADLOCK FALSE
