SPECIFICATION Spec
CONSTANTS
  Bufs = {p, q}
  Blocks = {1, 2, 3}
  Null = Null
  Nul = Nul
  Junk = Junk
  x = x
  Inputs <- MCInputs
  Counts = {1, 2}
  MaxSize = 2
  FirstCapacity = 2
SYMMETRY Symmetric
INVARIANT OwnsItsCapacity
PROPERTIES LosesOnlyWhenEmpty ImplementsByteStrings OperationsKeepTheirPromises
