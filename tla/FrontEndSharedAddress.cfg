SPECIFICATION Spec
CONSTANTS
    MaxTxn = 2
    MaxBarriers = 1
    TransDepth = 2
    CmdDepth = 2
    WL = 3
    BurstCycles = 2
    Addresses <- MCAddresses
    ControlAddresses <- MCControlAddresses
    Workloads <- ParkWorkloads
    BatchDriver = TRUE
    RepeatBarriers = FALSE
INVARIANTS
    ReadCompletesAfterIssue
