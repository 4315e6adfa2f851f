SPECIFICATION Spec
CONSTANTS
  Api <- RestartCalls
  MaxCalls = 4
  MaxConns = 0
  Talkers = {}
PROPERTY StopOpStops
CHECK_DEADLOCK FALSE
