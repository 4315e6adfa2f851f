SPECIFICATION LoggedInSpec
SYMMETRY Symmetry
CONSTANTS
  A = A
  B = B
  Peers <- TwoPeers
  Turn = Turn
  MaxEvents = 3
INVARIANTS TypeOK NobodyUninvited ChannelBacked RolesDiffer
CHECK_DEADLOCK FALSE
