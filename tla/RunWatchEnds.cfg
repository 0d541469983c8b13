SPECIFICATION Spec

CONSTANTS
  Configurations <- Unlimited
  Faults = {"watch"}
  MaxSignals = 0
  None = None

INVARIANTS
  SuccessHasResults

CHECK_DEADLOCK FALSE
