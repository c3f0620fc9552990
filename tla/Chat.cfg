SPECIFICATION FairSpec
CONSTANTS
  a = a
  b = b
  Clients = {a, b}
  Posix = {b}
  MaxRecent = 1
  Lines <- OneLine
  Faulty = {a}
INVARIANTS TypeOK NothingSkipped
PROPERTIES RoomSpec EveryoneHears Gone
CHECK_DEADLOCK FALSE
