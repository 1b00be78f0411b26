SPECIFICATION Spec
CONSTANTS
  Peers <- HostAndGuest
  Settings <- MCSettings
  Decides <- MCDecides
  Legal <- MCLegal
  Terminal <- MCTerminal
  ThinkTimes = {1, 3}
  Rounds = 2
  MaxFaults = 1
INVARIANTS
  TypeOK
  Sealed
  NeverFailsAlone
  OnlyCompatiblePlay
  TimeAccounts
PROPERTIES
  Promised
  MatchEnds
CHECK_DEADLOCK FALSE
