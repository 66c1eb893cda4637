\* One job, two processors that may outlive their leases or die, and an
\* administrator.
SPECIFICATION Spec
CONSTANTS
    Proc = {p1, p2}
    Admin = {a}
    Caller = {c}
    Queue = {mail}
    LeaseTime = 1
    ProcessingTime = 1
    ThresholdType = "days"
    ThresholdLimit = 1
    FinishedStates = {"success", "failure"}
    RetryLimits = {1}
    Delays = {0}
    BatchSizes = {1}
    MaxJobs = 1
    MaxTime = 3
    MaxFails = 1
    MaxEdits = 1
SYMMETRY Symmetry
INVARIANTS Inv LeasesExclusive NothingLost
CHECK_DEADLOCK FALSE
