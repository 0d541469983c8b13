SPECIFICATION Spec

CONSTANTS
  Configurations <- Unlimited
  Faults = {"crash"}
  MaxSignals = 1
  None = None

PROPERTIES
  FirstReasonWins

CHECK_DEADLOCK FALSE
