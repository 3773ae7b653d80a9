\* A job whose name is not valid UTF-8.
CONSTANTS
    n1 = n1
    n2 = n2
    None = None
    Name = {n1, n2}
    MaxAttrPathDepth = 1
    MaxWorkers = 1
    MaxStartupFailures = 3
    MaxAttempts = 2
    Lossy <- Replaced
    Flakes <- MisnamedFlakes
    Faults = {}
    CrashBudget = 0
SPECIFICATION Spec
INVARIANTS WholeStream
