SPECIFICATION FairSpec
CONSTANTS
    Locales = {l1, l2}
    PreLimit = 1
    IdleLimit = 2
    MaxLimit = 3
    FinLimit = 1
    MaxBytes = 2
    NoFile = NoFile
INVARIANTS
    OrderlyEnd
    LocaleInForce
    TimeoutsAreTrue
    CompletedIsWhole
PROPERTIES
    SessionContractHolds
    SilentSessionEnds
    DoneEnds
    EverySessionEnds
CHECK_DEADLOCK FALSE
