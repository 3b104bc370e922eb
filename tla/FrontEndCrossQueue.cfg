SPECIFICATION LiveSpec
CONSTANTS
    MaxTxn = 5
    MaxBarriers = 2
    TransDepth = 4
    CmdDepth = 1
    WL = 1
    BurstCycles = 1
    Addresses <- MCAddresses
    ControlAddresses <- MCControlAddresses
    Workloads <- SpreadWorkloads
    BatchDriver = TRUE
    RepeatBarriers = FALSE
PROPERTIES
    RunPIMReturns
