SPECIFICATION Spec
CONSTANTS
    NetThreads = {n1, n2}
    GameThreads = {g1}
    Main = main
    Cons = {c1, c2}
    NoCon = none
INVARIANT NeverWaitsOnClosedHandle
CHECK_DEADLOCK FALSE
