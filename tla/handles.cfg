SPECIFICATION Spec
CONSTANTS
  t1 = t1
  t2 = t2
  a = a
  b = b
  c = c
  Threads = {t1, t2}
  Objects = {a, b, c}
  ThreadOf <- SomeThreads
  TableSize = 3
  MaxSockets = 3
  MaxStrays = 1
  Requests <- SomeRequests
  MaxSets = 1
  Tick = 4000
SYMMETRY Symmetry
INVARIANTS HandleTypeOK ValidIsOwn CallsLeakOnlySpares ToldIsOwn OptionsReadBack
PROPERTY StolenOnlyByStale
CHECK_DEADLOCK FALSE
