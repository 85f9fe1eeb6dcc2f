------------------------------ MODULE KahnSort ------------------------------
(***************************************************************************)
(* Kahn's algorithm as the subsystem registry and the dynamic linker write *)
(* it, with a stack for its ready nodes.                                   *)
(***************************************************************************)
EXTENDS Integers, SequencesExt, Sublists

\* The nodes that wait for exactly these.
Waiting(deps, keys, taken, for) == Among(keys, {k \in Range(keys) : deps[k] \ taken = for})

\* One turn of the loop: the last of the stack is taken, and a node whose in-degree falls to
\* zero, the number of its dependencies not yet taken, goes on the stack.
Take(deps, keys, acc) ==
    IF acc.stack = <<>> THEN acc
    ELSE LET cur == Last(acc.stack)
         IN  [order |-> Append(acc.order, cur),
              stack |-> Front(acc.stack) \o Waiting(deps, keys, Range(acc.order), {cur})]

\* The first ready nodes are found in the order the table of in-degrees yields them, the
\* dependents of a node in the order of keys, in which the nodes were walked to fill it.
\* A node that depends on one that is missing is never taken.
Kahn(deps, table, keys) ==
    LET turn[n \in 0..Len(keys)] ==
            IF n = 0 THEN [order |-> <<>>, stack |-> Waiting(deps, table, {}, {})]
            ELSE Take(deps, keys, turn[n - 1])
    IN  turn[Len(keys)].order

\* What can be ordered: nodes that depend on each other only and without a cycle, so
\* that in any group of them one depends on none of the group.
Grounded(deps, S) ==
    /\ \A k \in S : deps[k] \subseteq S
    /\ \A group \in (SUBSET S) \ {{}} : \E k \in group : deps[k] \cap group = {}
=============================================================================
