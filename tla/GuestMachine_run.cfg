\* Words of four bits in two registers; a run over two addresses with two cells of
\* stack; two clients of the shader cache beside its worker; one client, two workers and
\* two tasks of the pool.  Everything may stop: a run ends, an error ends the
\* interpreter, a stopped cache or pool is not used.
CONSTANTS
    Units = {"alu", "run", "shaders", "pool"}
    CpWidth = 4
    CpRegs = {"rax", "rdx"}
    CpNarrow = {2}
    DbAddrs = {1, 2}
    DbMaxIds = 1
    DbStackDepth = 2
    DbMaxRuns = 1
    ShClients = {c1, c2}
    ShKeys = {k1, k2}
    ShMaxEntries = 2
    ShMaxJobs = 2
    ShMaxStarts = 2
    TpWorkers = {w1, w2}
    TpClients = {c1}
    TpTasks = {1, 2}
    TpMaxStarts = 2
SPECIFICATION FairSpec
INVARIANTS
    MachineTypeOK
    
    WorkTracked
PROPERTIES
    ArithmeticExact
    StopTakesEffect
    WorkersServe
    WaitAllSound
CHECK_DEADLOCK FALSE
