SPECIFICATION Spec
CONSTANTS
    rider_count = 2
    driver_count = 3
    port = 8000
    Kinds = {TRUE, FALSE}
INVARIANTS TypeOK Paired PortsFree NoneDropped
PROPERTY Completes
CHECK_DEADLOCK FALSE
