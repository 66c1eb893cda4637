\* Two processors and one job, within its lease.
SPECIFICATION Spec
CONSTANTS
    Proc = {p1, p2}
    Admin = {a}
    Caller = {c}
    Queue = {mail}
    LeaseTime = 2
    ProcessingTime = 0
    ThresholdType = "none"
    ThresholdLimit = 1
    FinishedStates = {"success", "failure"}
    RetryLimits = {0}
    Delays = {0}
    BatchSizes = {1}
    MaxJobs = 1
    MaxTime = 1
    MaxFails = 0
    MaxEdits = 0
INVARIANTS ClaimedOnce
