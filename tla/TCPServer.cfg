SPECIFICATION Spec
CONSTANTS
  Api <- AllCalls
  MaxCalls = 4
  MaxConns = 2
  Talkers <- FirstTalks
INVARIANTS TypeOK SessionAgrees DepartsOnce ShutdownCovers
PROPERTIES ImplementsContract StopEnds
CHECK_DEADLOCK FALSE
