SPECIFICATION Spec
CONSTANTS
  SndBuf = 2
  RcvBuf = 2
  Window = 3
  Lengths = {0, 1, 4}
  MaxBytes = 5
  Sizes = {0, 1, 4}
  Timeouts = {0, 3}
  Second = 2
  MaxFaults = 1
INVARIANT WaitsItsTimeout
CHECK_DEADLOCK FALSE
