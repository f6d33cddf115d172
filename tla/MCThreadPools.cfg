SPECIFICATION FairSpec
CONSTANTS
    NetThreads = {n1, n2}
    GameThreads = {g1}
    Main = main
    Cons = {c1, c2}
    NoCon = none
INVARIANTS TypeOK StopsOnlyWhenEmpty LeftInOrder
PROPERTY ShutdownReturns
CHECK_DEADLOCK FALSE
