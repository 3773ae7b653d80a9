\* Three workers, since only the third may have to wait for its time, one of them
\* lost on the way; two ticks to the millisecond.  Four attributes, for two workers
\* that start at the same time to have derived one each while another is queued.
\* The clock stops only after the last moment at which the loop may have to grow
\* the pool: twice the largest cost, and a millisecond.
CONSTANTS
    MaxWorkers = 3
    Attributes = 4
    Losses = 1
    TicksPerMs = 2
    MaxPollMs = 2
    MeasuredBy = 1
    Horizon = 4
SPECIFICATION FairSpec
INVARIANTS WaitIsRight PoolIsBacked
PROPERTIES GrowthIsEarned GrowsInTime
