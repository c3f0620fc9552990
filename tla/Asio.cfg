SPECIFICATION FairSpec
CONSTANTS
  Sessions = {"s1"}
  Deadline = 2
  MaxQueue = 2
  Endpoints = 2
  ConnectDeadline = 6
  ReadDeadline = 3
  Heartbeat = 1
  BlockingTimeout = 3
  Connections = {"c1", "c2", "c3"}
  Ports = {1, 2, 3}
  FramesPerPort = 1
  MaxFrame = 2
  MaxInFlight = 2
  MaxLost = 1
  Sent = 4
  Capacity = 3
  Room = 2
  Width = 4
  PingTimeout = 5
  Pause = 1
  MaxLate = 2
  MaxReplies = 3
  Children = {"p1", "p2"}
  EchoDeadline = 3
  LogFiles = {"log.txt", "other.txt"}
  MaxCalls = 4
INVARIANTS
  TypeOK Actors Settled Attended Handover InOrder Roles
PROPERTIES
  Pings OwnDeadline WaitsEnd Finishes Completes
CHECK_DEADLOCK FALSE
