SPECIFICATION LoggedInSpec
SYMMETRY Symmetry
CONSTANTS
  A = A
  B = B
  Peers <- TwoPeers
  Turn = Turn
  MaxEvents = 4
INVARIANT ClientStatusTrue
CHECK_DEADLOCK FALSE
