\* A proposal that cannot pass any more stays Open.
SPECIFICATION Spec
CONSTANTS
    a = a
    b = b
    c = c
    z = z
    Addr = {a, b, c, z}
    InitMsgs <- MajorityInitMsgs
    Latest <- AllLatest
    Genesis <- MCGenesis
    TimeSteps = {0, 2}
    MaxProposals = 1
    MaxU64 = 5
    MaxU128 = 10000000
    DECIMAL_FRACTIONAL = 1000
    PRECISION_FACTOR = 100
INVARIANTS
    OpenMayStillPass
CHECK_DEADLOCK FALSE
