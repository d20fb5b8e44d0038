SPECIFICATION Spec
CONSTANTS
    Threads = {t1, t2}
    Starters = {t1}
    Clbks = {c1, c2}
    MaxAllocsDef = 3
    Thresholds = {0}
    MaxCalls = 4
    NoThread = NoThread
    NoClbk = NoClbk
    NoBlock = NoBlock
SYMMETRY Symmetry
INVARIANTS
    EventPair
CHECK_DEADLOCK FALSE
