CONSTANTS
    Variants <- RouteVariants
    History <- RouteHistory
    Procs = {p, q}
    Totals <- MCTotals
    MaxFaults = 1
SPECIFICATION Spec
INVARIANTS TypeOK SingleInvocation SinglePlacement PassGrounded SuccessorOnTrueFailure
PROPERTIES SignalSealsFailure VerdictStable
CHECK_DEADLOCK FALSE
SYMMETRY Symmetry
