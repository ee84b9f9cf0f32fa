CONSTANTS
    MAX_SYSTEM_SIG = 1
    Tasks = {1, 2}
    Steps = 2
    MaxSigs = 2
    MaxFill = 1
    MaxCalls = 1
SPECIFICATION FairSpec
INVARIANTS NoSpin OneHandler NoLostWork
CHECK_DEADLOCK FALSE
PROPERTY SignalsHandled
