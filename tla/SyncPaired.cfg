CONSTANTS
  c1 = c1
  c2 = c2
  w1 = w1
  w2 = w2
  w3 = w3
  None = None
  Containers <- TwoContainers
  Workers <- PairedWorkers
  ContainerOf <- PairedContainerOf
  SyncCount <- PairedTwice
  ExpectedClients = 3
  InitialClients = 2
  Faults = {"raise", "kill", "reset", "abort", "nameserver", "exec", "uneven"}
SPECIFICATION Spec
INVARIANTS
  TypeOK
  PublishedComplete
PROPERTIES
  ImplementsBarrier
  RemovesOnlyRead
CHECK_DEADLOCK FALSE
