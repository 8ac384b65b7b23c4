SPECIFICATION Spec
CONSTANTS
  Size = 2
  Threads = {t1, t2, t3}
  Values = {a, b}
  Empty = Empty
  Torn = Torn
SYMMETRY Symmetric
INVARIANT UndisturbedClaimsDeliver
PROPERTIES DeliversWhatItClaimed ImplementsDropOldestQueue
