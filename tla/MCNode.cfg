SPECIFICATION NodeSpec
CONSTANTS
  c1 = c1
  c2 = c2
  Clients = {c1, c2}
  ShmEnabled = TRUE
  s1 = s1
  Callers = {s1}
  Poses <- MCPoses
  Steps <- MCSteps
  MaxMessages = 5
INVARIANTS
  IInv
  StoppedIsQuiet
  RequestsNeedRos
  TrackIsReal
PROPERTIES
  ImplementsContract
  SeenStopCompletes
