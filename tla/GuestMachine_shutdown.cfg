\* The shader cache alone: Shutdown beside two clients.
CONSTANTS
    Units = {"shaders"}
    CpWidth = 4
    CpRegs = {"rax", "rdx"}
    CpNarrow = {2}
    DbAddrs = {1, 2}
    DbMaxIds = 1
    DbStackDepth = 1
    DbMaxRuns = 1
    ShClients = {c1, c2}
    ShKeys = {k1, k2}
    ShMaxEntries = 2
    ShMaxJobs = 2
    ShMaxStarts = 2
    TpWorkers = {w1, w2}
    TpClients = {c1}
    TpTasks = {1, 2}
    TpMaxStarts = 2
SPECIFICATION FairSpec
PROPERTY ShutdownReturns
CHECK_DEADLOCK FALSE
