SPECIFICATION Spec
CONSTANTS
    rider_count = 2
    driver_count = 1
    FlushOnSend = FALSE
    BufCap = 100
    Mode = "Distance"
    Repeat = 1
    circ <- MCMixed
    input_pid <- MCMixedPid
    Inputs <- MCMixedInputs
    Tapes <- MCTapes
    Modulus = 64
    RtModulus = 16
    Threshold = 4
    Rho <- MCRho
INVARIANTS TypeOK Lockstep MasksAgree WiresMasked DistancesCorrect NothingLeft
PROPERTIES Terminates
CHECK_DEADLOCK FALSE
