SPECIFICATION FairPoolSpec
CONSTANTS
  Workers = {w1, w2}
  Values = {x, y}
  Threads = {w1, w2, x, y}
  Size = 2
  Word = 16
  MaxSpurious = 0
  Caller = "one"
  MayStop = FALSE
  Empty = Empty
  Torn = Torn
PROPERTY EnoughParked
CHECK_DEADLOCK FALSE
