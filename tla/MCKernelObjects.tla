--------------------------- MODULE MCKernelObjects ---------------------------
(* Instances of KernelObjects for TLC.                                     *)
EXTENDS KernelObjects, TLC

\* Callers, guests, waiters and peers are interchangeable.
Symmetry ==
    UNION {Permutations(Callers), Permutations(Guests), Permutations(Waiters),
           Permutations(Peers)}
=============================================================================
