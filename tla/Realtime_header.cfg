SPECIFICATION Spec
SYMMETRY LocaleSymmetry
CHECK_DEADLOCK FALSE
CONSTANTS
    Locales = {l1, l2}
    PreLimit = 1
    IdleLimit = 1
    MaxLimit = 2
    FinLimit = 1
    MaxBytes = 1
    NoFile = NoFile
INVARIANTS
    TruncatedHeaderRefused
