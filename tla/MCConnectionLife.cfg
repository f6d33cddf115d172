SPECIFICATION Spec
CONSTANTS
    Capacity = 2
    Objs = {o1, o2}
    Workers = {w1, w2}
    MaxUses = 2
    MaxSends = 1
    None = None
SYMMETRY Symmetry
INVARIANTS TypeOK BusyHasRequest FreeIsQuiet FiledIsParent
CHECK_DEADLOCK FALSE
