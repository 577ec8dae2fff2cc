CONSTANTS
    s1 = s1
    s2 = s2
    Suspending = FALSE
    None = None
    MaxSessions = 2
    Sessions = {s1, s2}
SPECIFICATION Spec
SYMMETRY Symmetry
INVARIANT FaultWithdrawsReadiness
CHECK_DEADLOCK FALSE
