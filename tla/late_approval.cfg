\* A proposal approved after its expiration.
SPECIFICATION FairSpec
CONSTANTS
    a = a
    b = b
    c = c
    z = z
    Addr = {a, b, c, z}
    InitMsgs <- LateInitMsgs
    Latest <- AllLatest
    Genesis <- MCGenesis
    TimeSteps = {0, 2}
    MaxProposals = 1
    MaxU64 = 5
    MaxU128 = 10000000
    DECIMAL_FRACTIONAL = 1000
    PRECISION_FACTOR = 100
PROPERTIES
    ApprovedOnTime
CHECK_DEADLOCK FALSE
