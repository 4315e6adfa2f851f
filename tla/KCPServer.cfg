SPECIFICATION Spec
CONSTANTS
  Api <- AllCalls
  MaxCalls = 4
  MaxConvs = 2
  Talkers <- FirstTalks
INVARIANTS TypeOK DepartsOnce ShutdownOrder
PROPERTIES ImplementsContract StopEnds
CHECK_DEADLOCK FALSE
