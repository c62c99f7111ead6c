SPECIFICATION MCSpec
CONSTANTS
    N_BITS = 3
    R = 8
    BETA = 1
    MaxCalls = 2
    Seed <- MCSeed
    Gs <- MCGs
    TO_R_t <- MCTO_R_t
    Setups <- MCSetups
INVARIANTS TypeOK WalksCancel DCFCorrect DistanceMasked GateCorrect FunshadeCorrect
CHECK_DEADLOCK FALSE
