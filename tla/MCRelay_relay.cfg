SPECIFICATION Spec
CONSTANTS
  a = a
  b = b
  c = c
  Clients <- ThreeClients
  Rooms = {attic}
  NoRoom = none
  MaxBytes <- FewBytes
  Buffer = 1
INVARIANTS
  Verbatim
PROPERTIES
  Arrives
  EndsTogether
CHECK_DEADLOCK FALSE
