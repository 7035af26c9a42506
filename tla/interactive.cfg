SPECIFICATION FairSpec
CONSTANTS
  Grace = 2
  MaxSignals = 3
INVARIANTS TypeOK ExitedMeansReaped OwnStatusSurvives
PROPERTIES TerminateEndsTheChild SignalEndsTheCommand
