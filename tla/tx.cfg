\* Transactions with nested calls, failures and retries.
SPECIFICATION FairTxSpec
CONSTANTS
    a = a
    b = b
    Self = Self
    Addr = {a, b, Self}
    InitMsgs <- TxInitMsgs
    Latest <- TxLatest
    Genesis <- TxGenesis
    TimeSteps = {0}
    MaxProposals = 2
    MaxU64 = 3
    MaxU128 = 10000000
    DECIMAL_FRACTIONAL = 1000
    PRECISION_FACTOR = 100
    Messages <- TxMessages
    MaxMsgs = 2
    Retried = {1}
INVARIANTS
    MessagesAllOrNothing
PROPERTIES
    DispatchTerminates
    ImplementsOnceOrNever
    RetriesSucceed
CHECK_DEADLOCK FALSE
