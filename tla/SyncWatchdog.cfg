CONSTANTS
  c1 = c1
  c2 = c2
  w1 = w1
  w2 = w2
  w3 = w3
  None = None
  Containers <- TwoContainers
  Workers <- SingleWorkers
  ContainerOf <- SingleContainerOf
  SyncCount <- SingleOnce
  ExpectedClients = 2
  InitialClients = 2
  Faults = {"raise", "kill", "lose", "abort", "watchdog", "exec"}
SPECIFICATION FairSpec
INVARIANTS
  BarrierSafety
  ReadBeforeExit
PROPERTIES
  LossDecides
CHECK_DEADLOCK FALSE
