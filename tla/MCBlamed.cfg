\* Workers that die before they read what they were sent.
CONSTANTS
    n1 = n1
    n2 = n2
    None = None
    Name = {n1, n2}
    MaxAttrPathDepth = 1
    MaxWorkers = 1
    MaxStartupFailures = 3
    MaxAttempts = 2
    Lossy <- NoChange
    Flakes <- PlainFlakes
    Faults = {"crash"}
    CrashBudget = 0
SPECIFICATION Spec
PROPERTIES BlamedAsReported
