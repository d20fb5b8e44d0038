SPECIFICATION FairSpec
CONSTANTS
    Threads = {"main", "worker"}
    Main = "main"
    MaxCalls = 4
    MaxFrames = 2
    Own = "app"
    Initial = {"app", "lib"}
    Plugins = {"plugin"}
    Deps <- MC_Deps
    Initialisers = {"main"}
INVARIANTS
    TypeOK
    DispatchOK
    LoadedModulesPatched
    RestoredAtExit
    DbgHelpInTurn
PROPERTIES
    ExitEnds
CHECK_DEADLOCK FALSE
