SPECIFICATION Spec
CONSTANTS
  Peers = {host, guest}
  ThinkTimes = {0, 7}
  Delay = 1
  KeepaliveInterval = 2
  LivenessDeadline = 6
  TransportTimeout = 5
  Epsilon = 1
  Floor = 0
  Phases = 2
  MaxWatch = 25
  MayStop = FALSE
INVARIANTS
  NeverTakenForDead
CHECK_DEADLOCK FALSE
