CONSTANTS
    t1 = t1
    t2 = t2
    t3 = t3
    c1 = c1
    c2 = c2
    Threads = {t1, t2, t3}
    Chans = {c1, c2}
    Programs <- ChoicesAndNacks
    MaxSync = 2
    MaxNacks = 2
SPECIFICATION Spec
INVARIANTS
    MatchedCommits
    NoMissedRendezvous
    NackExact
PROPERTY
    Implements
CHECK_DEADLOCK FALSE
