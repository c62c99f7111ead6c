SPECIFICATION Spec
CONSTANTS
    rider_count = 1
    driver_count = 1
    FlushOnSend = FALSE
    BufCap = 100
    Mode = "Matching"
    Repeat = 2
    circ <- MCEDS
    input_pid <- MCEDSPid
    Inputs <- MCTrips
    Tapes <- MCTapes
    Modulus = 64
    RtModulus = 16
    Threshold = 4
    Rho <- MCRho
PROPERTIES Terminates
CHECK_DEADLOCK FALSE
