\* Any number of crashes, at any time: the bookkeeping holds and the run ends.
CONSTANTS
    n1 = n1
    n2 = n2
    None = None
    Name = {n1, n2}
    MaxAttrPathDepth = 2
    MaxWorkers = 2
    MaxStartupFailures = 3
    MaxAttempts = 2
    Lossy <- NoChange
    Flakes <- TroubledFlakes
    Faults = {"crash"}
    CrashBudget = 0
SPECIFICATION FairSpec
INVARIANTS TypeOK ActiveCountsJobs NothingForgotten WorkersInStep NoStrandedLine VerdictsAreTrue
PROPERTIES Termination
