SPECIFICATION Spec
CONSTANTS
    Nursery = 12
    HEAP_BUF_SZ = 6
    SMALL_OBJ_SZW = 4
    Reserve = 9
    LowWater = 7
    FREE_REQ = 9
    StringArena = 12
    MaxDepth = 3
    MaxOuter = 1
    Saveds <- MCSaveds
    MaxInstrs = 5
    Numbers <- MCNumbers
    Lens <- MCLens
    Wide <- MCWide
    WideNumbers <- MCWideNumbers
INVARIANTS CodecExact RootsAreLive Fits
PROPERTY Implements
CHECK_DEADLOCK FALSE
