\* Percentages through messages and storage.
SPECIFICATION StoreSpec
CONSTANTS
    DECIMAL_FRACTIONAL = 100
    PRECISION_FACTOR = 10
    FRACTIONAL_DIGITS = 2
    MaxU128 = 2999
    MaxWeight = 20
    Texts <- AllTexts
    Nothing = Nothing
INVARIANTS
    PercentageSurvives
    StoredTextLoads
    FromStrReturns
    VotesNeededIsTight
CHECK_DEADLOCK FALSE
