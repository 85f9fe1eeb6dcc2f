\* Two callers with two guests, a one-shot and a periodic timer, three threads
\* at one wait queue, and three peers of two ports under one name.
\* Handles of guests are dropped after a stop or an untimed join only.
CONSTANTS
    Facilities = {"threads", "timers", "queues", "ports"}
    Callers = {c1, c2}
    Guests = {g1, g2}
    NoGuest = NoGuest
    Code = 42
    Evidence = {"stopped", "joined"}
    Timers = {once, tick}
    Periodic = {tick}
    Disciplined = TRUE
    MaxStarts = 2
    Waiters = {t1, t2, t3}
    Queues = {q1}
    NoQueue = NoQueue
    Peers = {p1, p2, p3}
    Names = {n1}
    MaxPort = 2
    MaxSent = 1
SPECIFICATION Spec
SYMMETRY Symmetry
INVARIANTS
    ObjectsTypeOK
    JoinsSound
    NeverAborts
    TimersSettle
    QueuesServe
CHECK_DEADLOCK FALSE
