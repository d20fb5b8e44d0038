CONSTANTS
    t1 = t1
    t2 = t2
    Threads = {t1, t2}
    Capacity = 1
    MaxOutput = 2
    Faults = {"pipe", "fork", "exec", "reaped", "memory"}
    Owners = {t1}
    Printers = {t2}
    Ids = {1, 2}
    Pairs = {"clib", "default"}
    Backtraces <- MC_Backtraces
    Backs = {1}
    MaxCalls = 5
    MaxOverlap = 3
    MaxMixed = 0
    Names = {"function"}
    Word = 8
    NoJob = NoJob
    NoId = NoId
SPECIFICATION Spec
INVARIANTS
    TypeOK
    OutputComplete
    DescriptorsReturned
    NothingLost
    AllocatorsMatch
    EqualStacksHashAlike
PROPERTY CallsReturn
CHECK_DEADLOCK FALSE
