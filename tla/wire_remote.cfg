CONSTANTS
  Messages <- AllFrames
  Before = {0, 85, 192}
  After = {170, 85, 193}
  MaxBefore = 2
  MaxAfter = 3
SPECIFICATION Spec
INVARIANT AnyFrameRoundTrips
CHECK_DEADLOCK FALSE
