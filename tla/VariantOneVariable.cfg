CONSTANTS
    Variants <- OriginVariants
    History <- OriginHistory
    Procs = {p}
    Totals <- MCTotals
    MaxFaults = 0
SPECIFICATION Spec
INVARIANTS OneVariableEco
CHECK_DEADLOCK FALSE
