CONSTANTS
    t1 = t1
    t2 = t2
    Tasks = {t1, t2}
    Late = Late
    None = None
    MaxCancels = 2
SPECIFICATION Spec
SYMMETRY Symmetry
INVARIANT NoLostLease
