CONSTANTS
    s1 = s1
    s2 = s2
    s3 = s3
    s4 = s4
    Sessions = {s1, s2, s3, s4}
    MaxSessions = 2
    Suspending = TRUE
    None = None
SPECIFICATION GateSpec
INVARIANTS
    SlotsCounted
PROPERTY AdmissionHolds
