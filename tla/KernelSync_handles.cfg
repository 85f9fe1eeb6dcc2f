\* Two threads, two objects of any kind, handles closed, duplicated and reused.
CONSTANTS
    Threads = {t1, t2}
    Objects = {o1, o2}
    NoObj = NoObj
    Creatable = {"Semaphore", "Event", "Mutex"}
    IntMax = 2
    MaxHandle = 3
    SemMaxes = {1}
    Counts = {1}
    MaxCredit = 2
    MaxDepth = 2
SPECIFICATION Spec
SYMMETRY Symmetry
INVARIANTS
    TypedAccess
PROPERTIES
    HandleStable
    
