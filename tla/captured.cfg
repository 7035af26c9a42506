SPECIFICATION FairSpec
CONSTANTS
  Timeouts <- TotalLimits
  IdleTimeouts <- IdleLimits
  Capacity = 2
  BufferSize = 2
  MaxOutput = 3
  MaxTime = 3
  Faults = {"pipe", "fork", "exec", "poll", "signal", "close"}
INVARIANTS TypeOK ExitedIsComplete
PROPERTIES IdleMeansSilent LimitedRunReturns DrainedRunReturns KeepsPromise
