SPECIFICATION Spec
CONSTANTS
    Task = {t1, t2}
    None = None
    MaxRename = 1
    MaxCrash = 1
SYMMETRY Symmetry
CONSTRAINT OneFault
INVARIANTS
    DispatchedAtMostOnce
    OneBoundTask
