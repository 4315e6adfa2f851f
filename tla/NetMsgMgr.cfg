SPECIFICATION SafeSpec
CONSTANTS
  HeadLen = 2
  IdLen = 1
  MaxMsgLen = 2
  WriteMaxLen = 2
  Fragments = 2
  CheckTime = 1
  LoseMaxCount = 1
  MaxFrames = 3
  MaxRead = 7
  Times = {0, 1}
INVARIANTS TypeOK CaughtUp CloseJustified
