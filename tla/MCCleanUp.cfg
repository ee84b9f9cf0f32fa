CONSTANTS
    Threads = {a, b}
    Main = a
    InitOps <- SetupOps
    Names = {x, y}
    x = x
    y = y
    WhenLst <- Hooks
    ServerList = FALSE
    NoThread = NoThread
    Ops <- FlatOps
    MaxCalls = 3
SPECIFICATION FairSpec
INVARIANT
    NoStaleWrite
PROPERTY
    CallsReturn
CHECK_DEADLOCK FALSE
