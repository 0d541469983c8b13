SPECIFICATION RetrySpec

CONSTANTS
  Configurations <- AllConfigurations
  Faults = {"exec", "create", "raise"}
  MaxSignals = 2
  None = None

INVARIANTS
  SuccessHasResults
  SuccessIsClean

PROPERTIES
  ResultsReported

CHECK_DEADLOCK FALSE
