CONSTANTS
    t1 = t1
    t2 = t2
    Tasks = {t1, t2}
    Late = Late
    None = None
    MaxCancels = 3
SPECIFICATION FairSpec
INVARIANTS
    OverlapReported
    SilentMeansClean
    TranscriptMeansReleased
PROPERTIES
    LeaseContractHolds
    OwnerOutcomeHolds
    CleanupReturns
    AbandonedIsAborted
