\* The table keeps one finished job.
SPECIFICATION Spec
CONSTANTS
    Proc = {p1, p2}
    Admin = {a}
    Caller = {c}
    Queue = {mail}
    LeaseTime = 1
    ProcessingTime = 1
    ThresholdType = "items"
    ThresholdLimit = 1
    FinishedStates = {"success", "failure"}
    RetryLimits = {0}
    Delays = {0}
    BatchSizes = {2}
    MaxJobs = 2
    MaxTime = 3
    MaxFails = 0
    MaxEdits = 0
SYMMETRY Symmetry
INVARIANTS Inv
PROPERTIES KeepsRecent
