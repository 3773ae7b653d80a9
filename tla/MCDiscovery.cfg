\* Three attributes of two derivations, any number of crashes, any failure of
\* the store, of stdout or of loading the flake, and a signal.
CONSTANTS
    n1 = n1
    n2 = n2
    n3 = n3
    d1 = d1
    d2 = d2
    d3 = d3
    None = None
    NoOutput = NoOutput
    Name = {n1, n2, n3}
    MaxAttrPathDepth = 1
    MaxWorkers = 1
    MaxStartupFailures = 3
    MaxAttempts = 2
    Lossy <- NoChange
    Flakes <- JobsAndKiller
    Faults = {"crash", "evaluator", "stdout", "signal"}
    CrashBudget = 0
    DrvPath = {d1, d2, d3}
    DrvOf <- TwoNamesForOne
    Stores <- SmallStores
    QueriesMayFail = FALSE
    StoreMayFail = TRUE
    EdgeQueriesPerPass = 1
SPECIFICATION PromptDiscovery
INVARIANTS StreamIsUsable EdgesAreExact
PROPERTIES EndsUnlessStuck
