SPECIFICATION FairPoolSpec
CONSTANTS
  Workers = {w1, w2}
  Values = {x}
  Threads = {w1, w2, x}
  Size = 1
  Word = 16
  MaxSpurious = 1
  Caller = "many"
  MayStop = TRUE
  Empty = Empty
  Torn = Torn
PROPERTIES StopReturns
CHECK_DEADLOCK FALSE
