SPECIFICATION FairSessionSpec
CONSTANTS
  SndBuf = 2
  RcvBuf = 2
  Window = 3
  Lengths = {1, 4}
  MaxBytes = 5
  Sizes = {3}
  Timeouts = {3}
  Second = 2
  MaxFaults = 1
INVARIANT ReturnsHavingClosed
PROPERTIES StopEndsBoth WritesReturn 
CHECK_DEADLOCK FALSE
