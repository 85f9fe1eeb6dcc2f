---------------------------- MODULE MCKernelSync ----------------------------
(* Instances of KernelSync for TLC.                                        *)
EXTENDS KernelSync, TLC

Symmetry == Permutations(Threads) \cup Permutations(Objects)
=============================================================================
