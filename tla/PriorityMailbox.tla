--------------------------- MODULE PriorityMailbox ---------------------------
(***************************************************************************)
(* What a message queue of the kernel services promises: a box of bounded  *)
(* size from which a taker always gets a message no waiting one outranks.  *)
(* Messages of one priority may come in any order, and closing the queue   *)
(* loses what is in it.                                                    *)
(***************************************************************************)
EXTENDS Naturals, FiniteSets

CONSTANTS Messages, Capacity, Priority

VARIABLES box,     \* the messages waiting
          taken    \* the messages handed out

Init == box = {} /\ taken = {}

Put(m) ==
    /\ m \notin box \cup taken
    /\ Cardinality(box) < Capacity
    /\ box' = box \cup {m}
    /\ UNCHANGED taken

Take(m) ==
    /\ m \in box
    /\ \A other \in box : Priority[other] <= Priority[m]
    /\ box' = box \ {m}
    /\ taken' = taken \cup {m}

Lose == box' = {} /\ UNCHANGED taken

Next == Lose \/ \E m \in Messages : Put(m) \/ Take(m)

Spec == Init /\ [][Next]_<<box, taken>>
=============================================================================
