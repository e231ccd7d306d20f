\* What the queries answer when no address is given twice.
SPECIFICATION Spec
CONSTANTS
    a = a
    b = b
    Addr = {a, b}
    InitMsgs <- DistinctInitMsgs
    Latest <- QLatest
    Genesis <- QGenesis
    TimeSteps = {1}
    MaxProposals = 3
    MaxU64 = 3
    MaxU128 = 10000000
    DECIMAL_FRACTIONAL = 1000
    PRECISION_FACTOR = 100
    DEFAULT_LIMIT = 2
    MAX_LIMIT = 2
    QueryError = QueryError
    NoArg = NoArg
INVARIANTS
    ListedVotesAreTheTally
    ClientsCanDecide
    NewestFirst
    PagesReach
CHECK_DEADLOCK FALSE
