---------------------------- MODULE AtomicObjects ----------------------------
(***************************************************************************)
(* What the kernel's blocking objects are to the programs that use them:   *)
(* semaphores, events and mutexes each of whose operations happens at one  *)
(* moment, on one object of its own kind.  A wait that gives up and a lock *)
(* that is not had change nothing, so they are no operations here.         *)
(***************************************************************************)
EXTENDS Naturals

CONSTANTS Threads, Objects, SemMaxes, Counts

VARIABLE object    \* what each object is and its state

Semaphore(max, value)            == [kind |-> "Semaphore", max |-> max, value |-> value]
Event(auto, set)                 == [kind |-> "Event", auto |-> auto, set |-> set]
Mutex(recursive, owner, depth)   == [kind |-> "Mutex", recursive |-> recursive, owner |-> owner, depth |-> depth]

Is(o, k) == object[o].kind = k

\* Nothing has been created yet: unused storage is an event nobody sets.
Init == object = [o \in Objects |-> Event(FALSE, FALSE)]

Becomes(o, x) == object' = [object EXCEPT ![o] = x]

Create(o) ==
    \/ \E max \in SemMaxes : \E initial \in 0 .. max : Becomes(o, Semaphore(max, initial))
    \/ \E auto, set \in BOOLEAN : Becomes(o, Event(auto, set))
    \/ \E recursive \in BOOLEAN : Becomes(o, Mutex(recursive, {}, 0))

Wait(o) ==
    /\ Is(o, "Semaphore") /\ object[o].value > 0
    /\ Becomes(o, [object[o] EXCEPT !.value = @ - 1])

Signal(o, n) ==
    /\ Is(o, "Semaphore")
    /\ LET value == object[o].value + n
       IN Becomes(o, [object[o] EXCEPT !.value = IF value > object[o].max THEN object[o].max ELSE value])

\* An event that resets itself lets one wait through, any other stays set.
Await(o) ==
    /\ Is(o, "Event") /\ object[o].set
    /\ Becomes(o, [object[o] EXCEPT !.set = ~object[o].auto])

Set(o, set) == Is(o, "Event") /\ Becomes(o, [object[o] EXCEPT !.set = set])

Lock(t, o) ==
    /\ Is(o, "Mutex")
    /\ object[o].owner = {} \/ (object[o].owner = {t} /\ object[o].recursive)
    /\ Becomes(o, Mutex(object[o].recursive, {t}, object[o].depth + 1))

Unlock(t, o) ==
    /\ Is(o, "Mutex") /\ object[o].owner = {t}
    /\ Becomes(o, Mutex(object[o].recursive, IF object[o].depth = 1 THEN {} ELSE {t}, object[o].depth - 1))

Next ==
    \E o \in Objects :
        \/ Create(o) \/ Wait(o) \/ Await(o)
        \/ \E n \in Counts : Signal(o, n)
        \/ \E set \in BOOLEAN : Set(o, set)
        \/ \E t \in Threads : Lock(t, o) \/ Unlock(t, o)

Spec == Init /\ [][Next]_object
=============================================================================
