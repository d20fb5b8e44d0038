SPECIFICATION Spec
CONSTANTS
    Threads = {t1, t2}
    Addrs = {a1, a2}
    Stacks = {s1, s2}
    Sizes = {1}
    MaxAllocsDef = 1
    Thresholds = {0}
    Faults = {"capture", "bookkeeping", "realloc"}
    MaxSkip = 1
    MaxOutstanding = 2
    NoThread = NoThread
    NoAddr = NoAddr
    NoStack = NoStack
    NoEntry = NoEntry
SYMMETRY Symmetry
INVARIANTS
    TypeOK
    MutexOK
    Ownership
    CountsCoverEntries
    StatusMatchesTable
    HighWaterMark
    SkipRestored
