\* votes_needed on weights of u64 size: a u64 of 4 bits and a u128 of 8, and
\* a precision of more digits than the wider word has to spare, as in the code.
SPECIFICATION Spec
CONSTANTS
    a = a
    b = b
    c = c
    z = z
    Addr = {a, b, c, z}
    InitMsgs <- HeavyInitMsgs
    Latest <- AllLatest
    Genesis <- MCGenesis
    TimeSteps = {0, 2}
    MaxProposals = 1
    MaxU64 = 15
    MaxU128 = 255
    DECIMAL_FRACTIONAL = 10
    PRECISION_FACTOR = 10
INVARIANTS
    MembersCanPropose
CHECK_DEADLOCK FALSE
