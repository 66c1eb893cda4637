\* Jobs get their results although a processor dies.
SPECIFICATION FairSpec
CONSTANTS
    Proc = {p1, p2}
    Admin = {a}
    Caller = {c}
    Queue = {mail}
    LeaseTime = 1
    ProcessingTime = 1
    ThresholdType = "none"
    ThresholdLimit = 1
    FinishedStates = {"success", "failure"}
    RetryLimits = {1}
    Delays = {0, 1}
    BatchSizes = {1}
    MaxJobs = 1
    MaxTime = 4
    MaxFails = 1
    MaxEdits = 0
PROPERTIES EventuallySettled
