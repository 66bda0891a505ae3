\* A reader of one key or of all keys pages while rows are added late, deleted and stamped alike.
SPECIFICATION Spec
CONSTANTS
    Rows = {r1, r2, r3}
    Keys = {k1, k2}
    Asked <- Sizes
    MaxSize = 3
    DefaultSize = 2
    MaxTime = 2
    None = None
SYMMETRY Symmetry
INVARIANTS TypeOK MissBounded RepeatsBounded
CHECK_DEADLOCK FALSE
