SPECIFICATION CircuitSpec
CONSTANTS
    Modulus = 3
    Owner <- MCOwner
    Cval = {2}
    DotVectors <- MCDotVectors
    MaxGates = 4
    MaxOutputs = 1
INVARIANTS
    WellFormed
    LevelsTopological
    EvaluationAgrees
CHECK_DEADLOCK FALSE
