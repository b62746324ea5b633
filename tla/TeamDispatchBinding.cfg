SPECIFICATION Spec
CONSTANTS
    Task = {t1, t2}
    None = None
    MaxRename = 0
    MaxCrash = 0
INVARIANT BoundKeepsProjection
