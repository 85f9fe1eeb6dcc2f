\* One queue of two places and three messages, one opener of files under two mounts,
\* two slots of save states, two hosts that drive one program, two threads that load
\* one file, two audio ports, two command lists.  The audio system, a wait for a
\* destroyed fence, a full file table really stop.
CONSTANTS
    Services = {"shm", "mq", "locks", "files", "saves", "execution", "modules",
                "audio", "lists", "heap", "syscalls"}
    KsThreads = {t1, t2, t3}
    KsNobody = nobody
    KsNames = {n1}
    KsMaxShm = 2
    KsMessages = {1, 2, 3}
    KsPriority <- TwoPriorities
    KsCapacity = 2
    FsThreads = {opener}
    FsMounts = {app, temp}
    FsTemp = temp
    FsDirs = {d1, dt}
    FsTempDir = dt
    FsMaxFd = 1
    FsMaxLen = 1
    SsSlots = {1, 2}
    SsRegions = {1, 2}
    SsMaxSaves = 2
    SsMaxSteps = 2
    ExHosts = {hostA, hostB}
    ExGuest = guest
    ExMaxLoads = 1
    MlThreads = {loaderA, loaderB}
    MlFiles = {"x"}
    MlImports <- AllImports
    MlMaxBases = 2
    MlMaxIds = 2
    MlMaxHolds = 1
    AuHosts = {hostA, hostB}
    AuCapacity = {1, 3}
    AuNeeded = 2
    AuStamps = 2
    AuMaxPorts = 2
    GlThreads = {g1, g2}
    GlLists <- Lists
    GlCuts = {0, 3}
    GlNoThread = nothread
    GlMaxFences = 2
    GlHeapSize = 6
    GlSizes = {1, 2}
    GlAligns = {1, 4}
    SyThreads = {caller}
    SyWord = 16
    SySmall = 2
    SyReserve = 4
    SyHeap = 6
    SyRegions = {r1}
    SyMaxLen = 2
    SyWhole = TRUE
SPECIFICATION Spec
INVARIANTS
    ServicesTypeOK
    SharedObjectsServe
    WritersAreAllowed
    ExecNoLockCycle
    
    HeardAsFilled
    
    GuestMemoryKept
PROPERTIES
    MqIsMailbox
    
CHECK_DEADLOCK FALSE
