CONSTANTS
    NumGens = 3
    CardCells = 2
    NumRoots = 2
    Kinds <- AllKinds
    MaxAlloc = 2
    MaxOps = 1
    MaxGC = 2
    MaxHeap = 4
SPECIFICATION Spec
INVARIANTS RememberedSet NoDie
PROPERTIES GcPreserves WeakExact FullGcReclaims
CHECK_DEADLOCK FALSE
