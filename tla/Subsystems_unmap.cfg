CONSTANTS
    Parts = {"memory"}
    RtIds = {idA}
    RtMaxOrder = 0
    Publishers = {guest}
    Watchdog = watchdog
    Nobody = nobody
    EvCapacity = 1
    EvMaxEvents = 0
    EvMaxHandlers = 0
    MemThreads = {memA}
    MemPages = 4
    MemUnit = 2
    MemSizes = {3}
    MemMaxTable = 3
    InPads = {p1}
    InSlots = 4
    InMaxFrames = 2
    ImNames = {"n1"}
    ImCustom <- CustomProfiles
    ImOne = 4
    ImSmall = 2
    HgThreads = {h1}
    HgBounds <- TwoBounds
    HgMaxValue = 1
    HgMaxRecords = 1
SPECIFICATION Spec
INVARIANT UnmapReleases
