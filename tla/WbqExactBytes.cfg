SPECIFICATION Spec
CONSTANTS
    MaxPlacements = 2
    MaxCollections = 2
    MaxRoutes = 1
    MaxTransitions = 1
    MaxClockTrees = 1
    MaxFaults = 1
    MaxRepeated = 2
CHECK_DEADLOCK FALSE
INVARIANT Phase6ExactBytes
