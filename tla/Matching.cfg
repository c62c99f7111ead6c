SPECIFICATION Spec
CONSTANTS
    rider_count = 2
    driver_count = 1
    FlushOnSend = FALSE
    BufCap = 100
    Mode = "Matching"
    Repeat = 1
    circ <- MCEDS
    input_pid <- MCEDSPid
    Inputs <- MCTrips2
    Tapes <- MCTapes2
    Modulus = 64
    RtModulus = 16
    Threshold = 4
    Rho <- MCRho
INVARIANTS Lockstep MatchesCorrect
PROPERTIES Terminates
CHECK_DEADLOCK FALSE
