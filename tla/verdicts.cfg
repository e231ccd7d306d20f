\* One proposal under every rule.
SPECIFICATION Spec
CONSTANTS
    a = a
    b = b
    c = c
    z = z
    Addr = {a, b, c, z}
    InitMsgs <- VerdictInitMsgs
    Latest <- AllLatest
    Genesis <- MCGenesis
    TimeSteps = {0, 2}
    MaxProposals = 1
    MaxU64 = 5
    MaxU128 = 10000000
    DECIMAL_FRACTIONAL = 1000
    PRECISION_FACTOR = 100
INVARIANTS
    PassIsSure
    RejectionIsSure
    OpenIsUndecided
    AbsoluteRejectedDidNotPass
CHECK_DEADLOCK FALSE
