SPECIFICATION Spec
CONSTANTS
    MaxTxn = 3
    MaxBarriers = 2
    TransDepth = 2
    CmdDepth = 2
    WL = 3
    BurstCycles = 2
    Addresses <- MCAddresses
    ControlAddresses <- MCControlAddresses
    Workloads <- MixedWorkloads
    BatchDriver = FALSE
    RepeatBarriers = TRUE
INVARIANTS
    TypeOK
    OutstandingExact
    EpochsInOrder
    NoDataBusCollision
    BurstsDisjoint
    ReturnHasMatch
PROPERTY
    ImplementsContract
