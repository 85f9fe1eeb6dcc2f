----------------------------- MODULE AtomicSaves -----------------------------
(***************************************************************************)
(* What the slots of the save state manager are to the player: a slot      *)
(* holds one save, whole, or none that can be loaded; loading one puts the *)
(* machine's CPU and memory back together, at one moment; and whatever     *)
(* breaks off a save or ends the emulator costs the slot written to, never *)
(* another, and never mixes two saves.                                     *)
(***************************************************************************)
EXTENDS Naturals

CONSTANT Slots

VARIABLES slot,       \* the number of the save each slot holds, 0 for none
          number,     \* saves begun
          machine     \* the save the CPU and the memory were restored from, 0 for none

vars == <<slot, number, machine>>

From(save) == [cpu |-> save, mem |-> save]

Init == slot = [s \in Slots |-> 0] /\ number = 0 /\ machine = From(0)

Begin == number' = number + 1 /\ UNCHANGED <<slot, machine>>

\* A slot is given the newest save, or loses what it held.
Written == \E s \in Slots, save \in {number, 0} : slot' = [slot EXCEPT ![s] = save]

Write == Written /\ UNCHANGED <<number, machine>>

Restore(s) ==
    /\ slot[s] # 0
    /\ machine' = From(slot[s])
    /\ UNCHANGED <<slot, number>>

\* The machine starts anew, perhaps in the middle of a Write.
Die == machine' = From(0) /\ (Written \/ UNCHANGED slot) /\ UNCHANGED number

Next == Begin \/ Write \/ Die \/ \E s \in Slots : Restore(s)

Spec == Init /\ [][Next]_vars
=============================================================================
