\* Two hooks, two queues, one item, two failures: overlapping runs neither
\* share their hooks nor lose the item, which is processed in the end.
SPECIFICATION CronFairSpec
CONSTANTS
    Consumer = {r1, r2}
    Queue = {"mail", "index"}
    BatchQueue = {}
    LeaseTimes = {1}
    Delays = {1}
    BatchAge = 0
    MaxItems = 1
    MaxTime = 3
    Queues <- MCQueues
    CronTime = 1
    LockTime = 1
    Hooks = 2
    SystemHook = 2
    MaxFails = 2
INVARIANTS CronInv HooksExclusive AtLeastOnce
PROPERTY EventuallyDone
