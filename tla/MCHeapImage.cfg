CONSTANTS
    NumGens = 2
    PageSz = 8
    BOPageSz = 2
    NumPages = 40
    FilePageSz = 4
    CardSz = 4
    MaxGarbage = 2
    AllocSz = 8
    TableSize0 = 2
    ExportSize0 = 1
    ItemMapSize0 = 2
    Buckets0 = 2
    Symbols <- MCSymbols
    HASH_STRING <- MCHash
    OldAddr <- MCOldAddr
    NewAddr <- MCNewAddr
    CodeSizes = {1, 5}
    MaxCode = 4
    MaxObjs = 2
    MaxOps = 3
    MaxExports = 2
    MaxTorn = 2
    CODE_ALLOC_GEN = 1
    Unregistered = 3
SPECIFICATION Spec
INVARIANTS RoundTrip ImportRemembers BigObjectsTile ExportRestores TornRefused
CHECK_DEADLOCK FALSE
