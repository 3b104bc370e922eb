SPECIFICATION Spec
CONSTANTS
    MaxPlacements = 2
    MaxCollections = 2
    MaxRoutes = 1
    MaxTransitions = 2
    MaxClockTrees = 2
    MaxFaults = 1
    MaxRepeated = 2
CHECK_DEADLOCK FALSE
INVARIANTS TypeOK CtsGrounded ReopenedBeforeUse StatusAgrees
