SPECIFICATION Spec
CONSTANTS
    Threads = {t1, t2}
    Starters = {t1}
    Clbks = {c1}
    MaxAllocsDef = 3
    Thresholds = {0}
    MaxCalls = 4
    NoThread = NoThread
    NoClbk = NoClbk
    NoBlock = NoBlock
INVARIANTS
    TypeOK
    ReadyWhenHooked
    TrackedIsRemovable
    SettingsStick
    SkipsStick
    EventPair
CHECK_DEADLOCK FALSE
