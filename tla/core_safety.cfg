\* Two proposals side by side.
SPECIFICATION Spec
CONSTANTS
    a = a
    b = b
    c = c
    z = z
    Addr = {a, b, c}
    InitMsgs <- CoreInitMsgs
    Latest <- CoreLatest
    Genesis <- MCGenesis
    TimeSteps = {1}
    MaxProposals = 2
    MaxU64 = 5
    MaxU128 = 10000000
    DECIMAL_FRACTIONAL = 1000
    PRECISION_FACTOR = 100
INVARIANTS
    TypeOK
    TallyMatchesBallots
    TallyWithinTotalWeight
    ExecutedExactlyOnce
    ExpiryWithinPeriod
PROPERTIES
    DecisionIsFinal
CHECK_DEADLOCK FALSE
