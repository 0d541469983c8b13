CONSTANTS
  c1 = c1
  c2 = c2
  w1 = w1
  w2 = w2
  w3 = w3
  None = None
  Containers <- TwoContainers
  Workers <- SingleWorkers
  ContainerOf <- SingleContainerOf
  SyncCount <- SingleTwice
  ExpectedClients = 2
  InitialClients = 2
  Faults = {"raise", "kill", "abort", "uneven"}
SPECIFICATION FairSpec
PROPERTIES
  Completes
  FailureDecides
  UnevenDetected
CHECK_DEADLOCK FALSE
