CONSTANTS
    Basename <- MCBasename
    MaxNumber = 9
    Builders <- MCBuilders
    Faults <- MCFaults
SPECIFICATION Spec
INVARIANTS
    NamesUnique
    ServicesReachPods
    PodsCanStart
    TreesIntact
    FinishedInStep
    JobsReported
    ScriptsFit
    NobodyStalls
PROPERTIES
    SoundRunsSucceed
    FaultsFail
CHECK_DEADLOCK FALSE
