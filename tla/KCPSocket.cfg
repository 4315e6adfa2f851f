SPECIFICATION Spec
CONSTANTS
  Clients = {a, b}
  Ports = {p1, p2}
  Values = {1, 2}
  MaxConnects = 2
  MaxConvs = 2
INVARIANTS TypeOK OneSocketPerAddress EndsMatch
PROPERTIES ImplementsContract ClientSettles  ListenerStops
CHECK_DEADLOCK FALSE
