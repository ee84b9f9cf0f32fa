CONSTANTS
    Root = r
    Threads = {r, a}
    dummyTid = dummy
    pollK = pollK
    pauseK = pauseK
    dispatchK = dispatchK
    shutdownK = shutdownK
    MaxHooks = 1
SPECIFICATION FairSpec
INVARIANTS
    OneContinuation
    AtomicDiscipline
    JoinersAreHeard
PROPERTIES
    SleepersWake
    NoStarvation
