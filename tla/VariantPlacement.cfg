CONSTANTS
    Variants <- PlacementVariants
    History <- PlacementHistory
    Procs = {p}
    Totals <- MCTotals
    MaxFaults = 1
SPECIFICATION Spec
INVARIANTS SuccessorOnTrueFailure
PROPERTIES StartedRunSeals
CHECK_DEADLOCK FALSE
