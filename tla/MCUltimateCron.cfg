\* Two processes, one job in one thread, scheduled twice, and a failure.
SPECIFICATION Spec
CONSTANTS
    Run = {r1, r2}
    MaxLids = 4
    None = None
    Jobs = 1
    CleanupJob = 1
    MaxThreads = 1
    JobThread <- AnyThread
    JobTime = 2
    ThreadTime = 1
    AgainTime = 1
    Schedule = {1, 3}
    CatchUp = 0
    MaxPolls = 1
    MaxTime = 3
    MaxFails = 1
SYMMETRY Symmetry
INVARIANTS Inv LeasesExclusive
PROPERTIES StartsDue ImplementsLease
CHECK_DEADLOCK FALSE
