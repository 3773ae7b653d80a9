\* Two crashes beside every other fault of a running worker and of the loop, and a
\* signal.  An evaluation need not end.
CONSTANTS
    n1 = n1
    n2 = n2
    None = None
    Name = {n1, n2}
    MaxAttrPathDepth = 1
    MaxWorkers = 2
    MaxStartupFailures = 3
    MaxAttempts = 2
    Lossy <- NoChange
    Flakes <- KillingFlakes
    Faults = {"exception", "memory", "fork", "poll", "stdout", "signal"}
    CrashBudget = 2
SPECIFICATION PromptSpec
INVARIANTS NoOrphans OnlyKillersAreBlamed
PROPERTIES ImplementsWalk CrashesDoNotAbort InterruptAnswered
