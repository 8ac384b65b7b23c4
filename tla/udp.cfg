SPECIFICATION FairSpec
CONSTANTS
  SndBufs = {3, 5}
  MaxDatagram = 3
  RecvSize = 2
  Lengths = {0, 2, 3, 5}
  MaxMessages = 2
  MaxFaults = 1
INVARIANTS ShortWordsStayWhole PiecesFit
PROPERTY StopEndsTheSessions
CHECK_DEADLOCK FALSE
