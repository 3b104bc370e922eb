SPECIFICATION Spec
CONSTANTS
    MaxTxn = 3
    MaxBarriers = 2
    TransDepth = 1
    CmdDepth = 1
    WL = 3
    BurstCycles = 2
    Addresses <- MCAddresses
    ControlAddresses <- MCControlAddresses
    Workloads <- ParkWorkloads
    BatchDriver = FALSE
    RepeatBarriers = FALSE
INVARIANTS
    PendingNewerThanController
