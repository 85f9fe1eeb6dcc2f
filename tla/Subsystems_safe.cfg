CONSTANTS
    Parts = {"runtime", "events", "memory", "input", "mapping", "metrics"}
    RtIds = {idA, idB, idC}
    RtMaxOrder = 4
    Publishers = {guest}
    Watchdog = watchdog
    Nobody = nobody
    EvCapacity = 2
    EvMaxEvents = 2
    EvMaxHandlers = 2
    MemThreads = {memA, memB}
    MemPages = 6
    MemUnit = 2
    MemSizes = {2, 4}
    MemMaxTable = 3
    InPads = {p1, p2, p3}
    InSlots = 4
    InMaxFrames = 2
    ImNames = {"n1", "n2"}
    ImCustom <- CustomProfiles
    ImOne = 4
    ImSmall = 2
    HgThreads = {h1, h2}
    HgBounds <- TwoBounds
    HgMaxValue = 4
    HgMaxRecords = 3
SPECIFICATION Spec
SYMMETRY SubsystemSymmetry
INVARIANTS
    SubsystemsTypeOK
    RegistryOrder
    
    TableMatchesOs
    
    HistogramExact
