SPECIFICATION FairSpec
CONSTANTS
    Threads = {t1}
    Addrs = {a1, a2, a3}
    Stacks = {s1, s2}
    Sizes = {1, 2}
    MaxAllocsDef = 1
    Thresholds = {}
    Faults = {}
    MaxSkip = 2
    MaxOutstanding = 3
    NoThread = NoThread
    NoAddr = NoAddr
    NoStack = NoStack
    NoEntry = NoEntry
INVARIANTS
    CountsExact
    HeldBlocksTracked
    OneEventPerNewMaximum
    SkippedAllocIgnored
    NoCallAfterTeardown
    NoStaleEntry
PROPERTIES
    ImplementsTracker
    MutexReleased
