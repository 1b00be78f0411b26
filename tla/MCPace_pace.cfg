SPECIFICATION Spec
CONSTANTS
  Peers = {host, guest}
  ThinkTimes = {5, 6, 8}
  Delay = 1
  KeepaliveInterval = 2
  LivenessDeadline = 6
  TransportTimeout = 5
  Epsilon = 1
  Floor = 0
  Phases = 2
  MaxWatch = 25
  MayStop = TRUE
INVARIANTS
  NeverTakenForDead
  NeverWronglyRejected
PROPERTIES
  SilenceIsNoticed
CHECK_DEADLOCK FALSE
