----------------------------- MODULE Subsystems -----------------------------
(***************************************************************************)
(* The subsystem registry and subsystems around it: event bus, memory      *)
(* manager, input, the frontend's input profiles, and the metrics' histo-  *)
(* grams.  The registry starts and stops others through callbacks but      *)
(* shares no lock or field with them, and they call neither it nor each    *)
(* other; as in KernelObjects each behaviour keeps to one of them.         *)
(***************************************************************************)
EXTENDS RuntimeManager, RuntimeEvents, MemoryRegions, Input, InputMapping, Histogram

CONSTANT Parts   \* the parts to look at

ASSUME PartsAssumption ==
    Parts \subseteq {"runtime", "events", "memory", "input", "mapping", "metrics"}

VARIABLE part

subsystemVars == <<part, rtVars, evVars, memVars, inVars, imVars, hgVars>>

SubsystemsTypeOK ==
    /\ part \in Parts
    /\ RuntimeTypeOK
    /\ EventsTypeOK
    /\ MemoryTypeOK
    /\ InTypeOK
    /\ ImTypeOK
    /\ HgTypeOK

Init ==
    /\ part \in Parts
    /\ RuntimeInit
    /\ EventsBusInit
    /\ MemoryInit
    /\ InInit
    /\ ImInit
    /\ HgInit

StepRuntime ==
    /\ part = "runtime"
    /\ RuntimeNext
    /\ UNCHANGED <<part, evVars, memVars, inVars, imVars, hgVars>>

StepEvents ==
    /\ part = "events"
    /\ EventsNext
    /\ UNCHANGED <<part, rtVars, memVars, inVars, imVars, hgVars>>

StepMemory ==
    /\ part = "memory"
    /\ MemoryNext
    /\ UNCHANGED <<part, rtVars, evVars, inVars, imVars, hgVars>>

StepInput ==
    /\ part = "input"
    /\ InNext
    /\ UNCHANGED <<part, rtVars, evVars, memVars, imVars, hgVars>>

StepMapping ==
    /\ part = "mapping"
    /\ ImNext
    /\ UNCHANGED <<part, rtVars, evVars, memVars, inVars, hgVars>>

StepMetrics ==
    /\ part = "metrics"
    /\ HgNext
    /\ UNCHANGED <<part, rtVars, evVars, memVars, inVars, imVars>>

Next ==
    \/ StepRuntime \/ StepEvents \/ StepMemory
    \/ StepInput \/ StepMapping \/ StepMetrics

Spec == Init /\ [][Next]_subsystemVars

-----------------------------------------------------------------------------
\* The registry never runs a subsystem before what it depends on, completes its
\* start-up unless a required one fails, and stops everything it started
\* (InitAll, ShutdownAll, InitOne and ShutdownOne).
RegistryOrder == DepsRunning /\ InitAllComplete /\ TeardownComplete

\* A handler is called only while it is subscribed, the trace ring and its counters
\* agree, a stopped watchdog leaves no thread behind, and no two threads of the bus
\* wait for each other's mutex (Publish, Unsubscribe, the debugger, the watchdog).
EventsSound == CalledIsRegistered /\ RingAgrees /\ WatchdogQuiet /\ NoLockCycle

\* The slots hold as many references as SDL counts, and a profile survives its file and keeps
\* an axis in range (OpenController, CloseController, hot-plug events; WriteProfileIni,
\* ReadProfileIni, TranslateAxis).
InputSound == PadRefsExact /\ ProfilesSound
=============================================================================
