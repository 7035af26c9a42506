SPECIFICATION FairSpec
CONSTANTS
  Timeouts <- TotalLimits
  IdleTimeouts <- IdleLimits
  Slice = 2
  KillGrace = 1
  Capacity = 1
  BufferSize = 2
  MaxOutput = 2
  MaxTime = 7
  Faults = {"pipe", "create", "close", "descendant"}
INVARIANTS TypeOK LimitsArePunctual
PROPERTIES IdleMeansSilent LimitedRunReturns KeepsPromise
