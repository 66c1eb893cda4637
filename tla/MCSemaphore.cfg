\* Two requests contending for a lock, with crashes and a fault; the
\* statements of a call are executed fairly.
SPECIFICATION FairSpec
CONSTANTS
    Proc = {p1, p2}
    Name = {cron}
    Timeouts = {0, 2}
    MinTimeout = 1
    Slack = 1
    MaxTime = 6
    MaxPolls = 2
    MaxFaults = 1
INVARIANTS IInv OneLiveHolder NothingLeftBehind
PROPERTIES ImplementsLease CallsReturn
CHECK_DEADLOCK FALSE
