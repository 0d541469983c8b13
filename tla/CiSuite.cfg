SPECIFICATION Spec

CONSTANTS
  Plan <- SmallPlan
  Configurations <- AllConfigurations
  None = None
  MaxInvocations = 3
  MaxFaults = 2

INVARIANTS
  TypeOK
  CountedJobsSucceeded
  ResultsTrue
  OneUuid

PROPERTIES
  KeepsReports
  RestartsRepeatNothing

CHECK_DEADLOCK FALSE
