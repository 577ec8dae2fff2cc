SPECIFICATION FairSpec
CONSTANTS
    EnvelopeLimit = 9
    PartLimit = 2
    HeaderLimit = 2
    FileLimit = 2
    TextLimit = 1
    MaxMessage = 3
    Lengths <- McLengths
    Undeclared = Undeclared
    RequestLimit = 3
    FinLimit = 1
    PreSubmit = 2
    MaxSamples = 3
INVARIANTS
    CreditExact
    LimitsHold
    AcceptedAsSent
    TimeoutsAreTrue
PROPERTIES
    SessionContractHolds
    RequestEnds
CHECK_DEADLOCK FALSE
