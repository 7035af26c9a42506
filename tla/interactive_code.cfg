SPECIFICATION Spec
CONSTANTS
  Grace = 2
  MaxSignals = 1
INVARIANTS WaitReturnsTheCode
