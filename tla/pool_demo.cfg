SPECIFICATION FairPoolSpec
CONSTANTS
  Workers = {w1, w2}
  Values = {x, y}
  Threads = {w1, w2, x, y}
  Size = 2
  Word = 16
  MaxSpurious = 0
  Caller = "demo"
  MayStop = TRUE
  Empty = Empty
  Torn = Torn
PROPERTIES ConstructorReturns EveryTaskRuns
CHECK_DEADLOCK FALSE
