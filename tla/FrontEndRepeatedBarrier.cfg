SPECIFICATION LiveSpec
CONSTANTS
    MaxTxn = 2
    MaxBarriers = 2
    TransDepth = 2
    CmdDepth = 1
    WL = 3
    BurstCycles = 2
    Addresses <- MCAddresses
    ControlAddresses <- MCControlAddresses
    Workloads <- ParkWorkloads
    BatchDriver = TRUE
    RepeatBarriers = TRUE
PROPERTIES
    RunPIMReturns
