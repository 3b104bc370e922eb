SPECIFICATION LiveSpec
CONSTANTS
    MaxTxn = 3
    MaxBarriers = 2
    TransDepth = 1
    CmdDepth = 2
    WL = 2
    BurstCycles = 1
    Addresses <- MCAddresses
    ControlAddresses <- MCControlAddresses
    Workloads <- BatchWorkloads
    BatchDriver = TRUE
    RepeatBarriers = FALSE
INVARIANTS
    DrainedMeansFinished
    ClosedEpochHasBarrier
    BarrierRespected
    SameAddressOrder
    ReadCompletesAfterIssue
    PendingNewerThanController
PROPERTIES
    RunPIMReturns
