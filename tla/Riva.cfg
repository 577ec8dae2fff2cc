SPECIFICATION FairSpec
CONSTANTS
    PreLimit = 1
    IdleLimit = 2
    MaxLimit = 3
    FinLimit = 1
    RpcLimit = 3
    PreSubmit = 2
    MaxBytes = 3
    NoFile = NoFile
INVARIANTS
    CreditExact
    ResultsInOrder
    TimeoutsAreTrue
    FinalIsWhole
PROPERTIES
    SessionContractHolds
    SilentStreamEnds
    FinalizationEnds
    BoundedRpcEnds
CHECK_DEADLOCK FALSE
