\* The votes of a voter given twice, listed.
SPECIFICATION Spec
CONSTANTS
    a = a
    b = b
    Addr = {a, b}
    InitMsgs <- RepeatedInitMsgs
    Latest <- QLatest
    Genesis <- QGenesis
    TimeSteps = {1}
    MaxProposals = 1
    MaxU64 = 5
    MaxU128 = 10000000
    DECIMAL_FRACTIONAL = 1000
    PRECISION_FACTOR = 100
    DEFAULT_LIMIT = 2
    MAX_LIMIT = 2
    QueryError = QueryError
    NoArg = NoArg
INVARIANTS
    ListedVotesAreTheTally
CHECK_DEADLOCK FALSE
