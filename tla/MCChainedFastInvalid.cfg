\* A single process that asks for an invalid item.
SPECIFICATION Spec
CONSTANTS
    Request = {r1}
    Node = {n1}
    NodeOf <- OneNode
    Cid = {c1}
    Tagged = {c1}
    AllowInvalid = {FALSE, TRUE}
    MaxWrites = 2
    MaxFaults = 0
    MaxTime = 4
INVARIANTS UpToDate
