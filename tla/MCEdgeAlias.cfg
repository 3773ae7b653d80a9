\* An output and its alias, with another output below them.
CONSTANTS
    a1 = a1
    a2 = a2
    a3 = a3
    a4 = a4
    p1 = p1
    p2 = p2
    p3 = p3
    p4 = p4
    Attr = {a1, a2, a3, a4}
    Path = {p1, p2, p3, p4}
    NoOutput = NoOutput
    DrvOf <- AliasedDrvOf
    Stores <- ChainStore
    QueriesMayFail = FALSE
SPECIFICATION Spec
INVARIANTS EveryOutputHasItsEdges
CHECK_DEADLOCK FALSE
