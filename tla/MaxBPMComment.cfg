SPECIFICATION Spec
CONSTANTS
    M = 3
    N = 3
INVARIANTS FindsMaximumMatching
CHECK_DEADLOCK FALSE
