CONSTANTS
    Threads = {a, b, c}
    Values = {x, y, z}
    NONE = NONE
    NoOne = NoOne
    MaxQ = 4
    Ops <- AllOps
SPECIFICATION Spec
SYMMETRY Symmetric
INVARIANTS
    NoWaiterOnFull
    Conservation
CHECK_DEADLOCK FALSE
