SPECIFICATION Spec
CONSTANTS
    Threads = {t1, t2}
    Addrs = {a1, a2}
    Stacks = {s1}
    Sizes = {1}
    MaxAllocsDef = 5
    Thresholds = {}
    Faults = {}
    MaxSkip = 0
    MaxOutstanding = 2
    NoThread = NoThread
    NoAddr = NoAddr
    NoStack = NoStack
    NoEntry = NoEntry
SYMMETRY Symmetry
INVARIANTS
    HeldBlocksTracked
