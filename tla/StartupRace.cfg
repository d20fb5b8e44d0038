SPECIFICATION Spec
CONSTANTS
    Threads = {t1, t2}
    Starters = {t1, t2}
    Clbks = {c1}
    MaxAllocsDef = 3
    Thresholds = {0}
    MaxCalls = 2
    NoThread = NoThread
    NoClbk = NoClbk
    NoBlock = NoBlock
INVARIANTS
    SettingsStick
CHECK_DEADLOCK FALSE
