CONSTANTS
    s1 = s1
    s2 = s2
    Suspending = FALSE
    None = None
    MaxSessions = 2
    Sessions = {s1, s2}
SPECIFICATION FairSpec
CONSTRAINT OneBusyOnceRepublished
INVARIANTS
    CleanShutdown
    SnapshotComplete
    QuiesceWithdraws
PROPERTIES
    ShutdownEnds
    CancelledOwnersLeave
CHECK_DEADLOCK FALSE
