SPECIFICATION FairSpec

CONSTANTS
  Configurations <- AllConfigurations
  Faults <- FaultKinds
  MaxSignals = 0
  None = None

INVARIANTS
  TypeOK
  NotifiedOnce

PROPERTIES
  FirstReasonWins
  FailureEnds
  TimeLimitHolds

CHECK_DEADLOCK FALSE
