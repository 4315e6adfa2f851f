SPECIFICATION Spec
CONSTANTS
  SessionIds <- OneSession
  Api <- AllCalls
  MaxCalls = 4
INVARIANTS TypeOK RemovalOnce
PROPERTIES ImplementsContract ShutdownEnds
CHECK_DEADLOCK FALSE
