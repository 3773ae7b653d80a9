\* Three slots and four forks; two calls may fail.
CONSTANTS
    MaxWorkers = 3
    Forks = 4
    Failures = 2
    Descriptor = {3, 4, 5, 6, 7, 8, 9, 10}
    None = None
SPECIFICATION FairSpec
INVARIANTS EachHoldsItsOwn DeathShows NoOrphan
PROPERTIES ShutdownEnds
