SPECIFICATION Spec
CONSTANTS
  SessionIds <- OneSession
  Api <- AllCalls
  MaxCalls = 4
  MaxRecv = 1
INVARIANTS TypeOK SocketState RemovalOnce NoDelayConverges
PROPERTIES CloserHitsOwn OrphanCause ImplementsContract ShutdownEnds
CHECK_DEADLOCK FALSE
