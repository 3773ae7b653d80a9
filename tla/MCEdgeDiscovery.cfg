\* Three outputs and an alias, over every reference graph of their paths and
\* two with a fourth.
CONSTANTS
    a1 = a1
    a2 = a2
    a3 = a3
    a4 = a4
    p1 = p1
    p2 = p2
    p3 = p3
    p4 = p4
    Attr = {a1, a2, a3, a4}
    Path = {p1, p2, p3, p4}
    NoOutput = NoOutput
    DrvOf <- AliasedDrvOf
    Stores <- EveryStore
    QueriesMayFail = TRUE
SPECIFICATION FairSpec
INVARIANTS TypeOK EdgesAreTrue EdgesAreEager EdgesAreNew EdgesAreComplete NeverStuck
PROPERTIES ImplementsReporting EventuallyExact
CHECK_DEADLOCK FALSE
