SPECIFICATION FairSpec
CONSTANTS
  Scripts <- Outputs
  ExitCodes = {0, 1, 139}
  Levels = {1, 2}
  Unavailable = Unavailable
  NoSample = NoSample
INVARIANTS TypeOK ResultHasThePeak UsableWasMeasured
PROPERTY RunOneReturns
