\* AbsoluteCount contracts implement KOfN, and every vote comes to an end.
SPECIFICATION FairSpec
CONSTANTS
    a = a
    b = b
    c = c
    z = z
    Addr = {a, b, c, z}
    InitMsgs <- CountInitMsgs
    Latest <- AllLatest
    Genesis <- MCGenesis
    TimeSteps = {1}
    MaxProposals = 1
    MaxU64 = 5
    MaxU128 = 10000000
    DECIMAL_FRACTIONAL = 1000
    PRECISION_FACTOR = 100
PROPERTIES
    ImplementsKOfN
    VotingEnds
CHECK_DEADLOCK FALSE
