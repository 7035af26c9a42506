SPECIFICATION Spec
CONSTANTS
  Timeouts <- TotalLimits
  IdleTimeouts <- IdleLimits
  Capacity = 2
  BufferSize = 2
  MaxOutput = 1
  MaxTime = 4
  Faults = {"close"}
INVARIANTS HardBound
