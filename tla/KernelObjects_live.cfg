\* One guest, two timers, two threads at one wait queue, three peers of one
\* port; no symmetry, for the temporal properties.
CONSTANTS
    Facilities = {"threads", "timers", "queues", "ports"}
    Callers = {c1, c2}
    Guests = {g1}
    NoGuest = NoGuest
    Code = 42
    Evidence = {"stopped", "joined"}
    Timers = {once, tick}
    Periodic = {tick}
    Disciplined = TRUE
    MaxStarts = 2
    Waiters = {t1, t2}
    Queues = {q1}
    NoQueue = NoQueue
    Peers = {p1, p2, p3}
    Names = {n1}
    MaxPort = 1
    MaxSent = 1
SPECIFICATION FairSpec
PROPERTIES
    CallsReturn
    ReceiverWakes
CHECK_DEADLOCK FALSE
