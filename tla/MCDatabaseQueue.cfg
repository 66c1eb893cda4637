\* Three consumers; one of them has to outlive its lease for a disturbance.
SPECIFICATION QueueSpec
CONSTANTS
    Consumer = {c1, c2, c3}
    Queue = {mail, batch}
    BatchQueue = {batch}
    LeaseTimes = {0, 2}
    Delays = {1}
    BatchAge = 2
    MaxItems = 2
    MaxTime = 4
SYMMETRY Symmetry
INVARIANTS QueueInv
