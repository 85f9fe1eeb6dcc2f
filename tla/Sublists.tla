------------------------------ MODULE Sublists ------------------------------
(***************************************************************************)
(* What loops build from sequences: the part of one that a loop picks out, *)
(* and the concatenation of several, in their order.                       *)
(***************************************************************************)
EXTENDS Integers, Sequences

\* The elements of seq that are in S, in their order.
Among(seq, S) ==
    LET among[i \in 0..Len(seq)] ==
            IF i = 0 THEN <<>>
            ELSE IF seq[i] \in S THEN Append(among[i - 1], seq[i]) ELSE among[i - 1]
    IN  among[Len(seq)]

\* One part after the other.
Joined(parts) ==
    LET joined[i \in 0..Len(parts)] == IF i = 0 THEN <<>> ELSE joined[i - 1] \o parts[i]
    IN  joined[Len(parts)]
=============================================================================
