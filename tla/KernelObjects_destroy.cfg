\* A queue is destroyed around its waiters.
CONSTANTS
    Facilities = {"queues"}
    Callers = {c1, c2}
    Guests = {g1}
    NoGuest = NoGuest
    Code = 42
    Evidence = {"stopped", "joined"}
    Timers = {once, tick}
    Periodic = {tick}
    Disciplined = TRUE
    MaxStarts = 2
    Waiters = {t1, t2}
    Queues = {q1}
    NoQueue = NoQueue
    Peers = {p1, p2, p3}
    Names = {n1}
    MaxPort = 1
    MaxSent = 1
SPECIFICATION FairSpec
PROPERTIES
    DestroyWakesAll
CHECK_DEADLOCK FALSE
