SPECIFICATION PoolSpec
CONSTANTS
  Workers = {w1, w2}
  Values = {x, y}
  Threads = {w1, w2, x, y}
  Size = 1
  Word = 16
  MaxSpurious = 0
  Caller = "many"
  MayStop = TRUE
  Empty = Empty
  Torn = Torn
SYMMETRY Symmetric
INVARIANTS PoolTypeOK TaskAccounted RestCountsParked CalledTasksAreFresh
CHECK_DEADLOCK FALSE
