\* Two threads manage two processes; no symmetry, for TerminateReturns.
CONSTANTS
    Threads = {t1, t2}
    NoThread = NoThread
    MaxPid = 2
    MaxModules = 2
    MaxCallbacks = 1
    LateLoads = TRUE
SPECIFICATION FairSpec
INVARIANTS
    TypeOK
    ManagerSound
PROPERTIES
    TerminateReturns
CHECK_DEADLOCK FALSE
