SPECIFICATION Spec
CONSTANTS
    MaxHeader = 60
    Files <- McFiles
    NoFile = NoFile
INVARIANTS
    CutIndependent
    OnlyDataDecoded
    SamplesExact
CHECK_DEADLOCK FALSE
