SPECIFICATION FairLoopSpec
CONSTANTS
  Size = 2
  Threads = {t1, t2}
  Values = {a, b}
  Empty = Empty
  Torn = Torn
PROPERTIES ClaimsAreAtomic LockFree
