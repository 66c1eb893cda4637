\* Two processes on one node, one item; one death, removal of the bin, restart or
\* collection.
SPECIFICATION Spec
CONSTANTS
    Request = {r1, r2}
    Node = {n1}
    NodeOf <- OneNode
    Cid = {c1}
    Tagged = {c1}
    AllowInvalid = {FALSE, TRUE}
    MaxWrites = 2
    MaxFaults = 1
    MaxTime = 2
SYMMETRY Symmetry
INVARIANTS Inv Fresh
