\* A wait for a process whose main thread ends.
CONSTANTS
    Threads = {t1}
    NoThread = NoThread
    MaxPid = 1
    MaxModules = 1
    MaxCallbacks = 0
    LateLoads = TRUE
SPECIFICATION FairSpec
PROPERTIES
    WaitReturns
CHECK_DEADLOCK FALSE
