CONSTANTS
  Names <- SomeNames
  SyncSpace = SyncSpace
  Foreign <- TakenName
  Configurations <- CommandLines
  Count = 2
  Deployments = 1
  Secrets = 1
  Parallel = 2
  BatchSize = 2
  MaxQueryFailures = 2
  MaxFailures = 2
  MaxRuns = 2
SPECIFICATION Spec
INVARIANTS
  TypeOK
  FilesBeforePods
  StartedComplete
  NothingLeft
PROPERTIES
  KeepsNamespaces
  Ends
CHECK_DEADLOCK FALSE
