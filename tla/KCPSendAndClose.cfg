SPECIFICATION Spec
CONSTANTS
  SessionIds <- OneSession
  Api <- ConnectAndSend
  MaxCalls = 2
PROPERTY SendsBeforeClose
CHECK_DEADLOCK FALSE
