\* Three threads around one semaphore or event; no symmetry, for WaiterWakes.
CONSTANTS
    Threads = {t1, t2, t3}
    Objects = {o1}
    NoObj = NoObj
    Creatable = {"Semaphore", "Event"}
    IntMax = 3
    MaxHandle = 2
    SemMaxes = {1, 2}
    Counts = {1, 2}
    MaxCredit = 4
    MaxDepth = 2
SPECIFICATION FairSpec
INVARIANTS
    TypeOK
    NoLostWakeup
    PermitsConserved
PROPERTIES
    WaiterWakes
