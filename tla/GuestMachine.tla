---------------------------- MODULE GuestMachine ----------------------------
(***************************************************************************)
(* What executes the guest's code, and the emulator's own worker threads:  *)
(* the interpreter's arithmetic, its run loop under the debugger, the      *)
(* shader cache with its worker, and the worker pool.  The arithmetic is   *)
(* looked at apart from the run loop, on words of CpWidth bits; shader     *)
(* cache and pool share nothing with either or with each other.  As in     *)
(* KernelObjects each behaviour keeps to one unit.                         *)
(***************************************************************************)
EXTENDS CpuInterpreter, GuestDebugger, ShaderCache, TaskPool

CONSTANT Units   \* the units to look at

ASSUME UnitsAssumption == Units \subseteq {"alu", "run", "shaders", "pool"}

VARIABLE unit

machineVars == <<unit, cpVars, dbVars, shVars, tpVars>>

MachineTypeOK ==
    /\ unit \in Units
    /\ CpTypeOK
    /\ DbTypeOK
    /\ ShTypeOK
    /\ TpTypeOK

\* The address the run starts at matters to the run loop only.
Init ==
    /\ unit \in Units
    /\ CpInit
    /\ DbInit
    /\ unit # "run" => dbRip = CHOOSE a \in DbAddrs : TRUE
    /\ ShInit
    /\ TpInit

StepAlu ==
    /\ unit = "alu"
    /\ CpNext
    /\ UNCHANGED <<unit, dbVars, shVars, tpVars>>

StepRun ==
    /\ unit = "run"
    /\ DbNext
    /\ UNCHANGED <<unit, cpVars, shVars, tpVars>>

StepShaders ==
    /\ unit = "shaders"
    /\ ShNext
    /\ UNCHANGED <<unit, cpVars, dbVars, tpVars>>

StepPool ==
    /\ unit = "pool"
    /\ TpNext
    /\ UNCHANGED <<unit, cpVars, dbVars, shVars>>

Next == StepAlu \/ StepRun \/ StepShaders \/ StepPool

Spec == Init /\ [][Next]_machineVars

\* A unit out of focus has no call under way, so nothing is owed to it.
FairSpec == Spec /\ DbFairness /\ ShFairness /\ TpFairness

-----------------------------------------------------------------------------
\* The flags of an arithmetic instruction order its operands, and a signed product is
\* exact to its last bit (CMP and SUB with UpdateFlagsArith, MUL and IMUL with Mul128S).
ArithmeticExact == ComparesOrder /\ SignedProductExact

\* The tracked frames follow the guest's stack, the pending jobs the shader queue and its
\* worker, activeTasks the pool's workers, and Shutdown leaves no task behind (CALL, RET and
\* their faults; QueueCompile, the worker, FlushQueue; ThreadPool's workers and Stop).
WorkTracked == CallStackTracks /\ PendingExact /\ ActiveExact /\ PoolDrains

\* What was handed to a worker is worked off: a flush of the shader queue returns, and a
\* task of the pool is run (FlushQueue, Submit and the two worker loops).
WorkersServe == FlushReturns /\ TasksRun
=============================================================================
