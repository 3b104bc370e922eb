SPECIFICATION Spec
CONSTANTS
    Variants <- MCVariants
    Procs = {p1, p2}
    Contents = {0, 1}
    MaxFaults = 1
SYMMETRY Symmetry
INVARIANTS TypeOK OneInvocation CompleteChain CompleteOnPinnedTools
PROPERTIES VerdictsFinal
CHECK_DEADLOCK FALSE
