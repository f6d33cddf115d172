SPECIFICATION Spec
CONSTANTS
    Capacity = 3
    Threads = {t1, t2}
    SaltLimit = 4
    LastSalt = 2
SYMMETRY Symmetry
INVARIANTS
    TypeOK
    NothingLost
    NothingShared
    FiledUnderOwnId
    IsEmptyMeansNoneBusy
    LateConnectionsBounded
PROPERTY
    FreedByPresentIdOnly
    ImplementsPool
CONSTANTS
    t1 = t1
    t2 = t2
CHECK_DEADLOCK FALSE
