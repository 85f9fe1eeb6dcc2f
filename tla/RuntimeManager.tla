--------------------------- MODULE RuntimeManager ---------------------------
(***************************************************************************)
(* The subsystem registry of Runtime.cpp: registration, Kahn's sort, the   *)
(* start-up of all subsystems in dependency order, the teardown in reverse *)
(* order, and the start and stop of a single subsystem.                    *)
(*                                                                         *)
(* One thread drives the registry.  It follows the comments of Runtime.h:  *)
(* it registers before InitAll, calls InitAll when nothing runs, and       *)
(* Reset after ShutdownAll; and since InitOne and ShutdownOne look at no   *)
(* dependency, it starts one subsystem only when its dependencies run and  *)
(* stops one only when nothing that runs depends on it.  A subsystem's     *)
(* callback is a step of its own, during which queries see the registry.   *)
(***************************************************************************)
EXTENDS Naturals, FiniteSets, KahnSort

CONSTANTS RtIds,       \* SubsystemId
          RtMaxOrder   \* bound: InitOne is not called on a longer initOrder

ASSUME RuntimeAssumption == IsFiniteSet(RtIds) /\ RtMaxOrder \in Nat

VARIABLES rtEntries,   \* RuntimeState::entries
          rtOrder,     \* RuntimeState::initOrder
          rtCall       \* the call under way

rtVars == <<rtEntries, rtOrder, rtCall>>

RtUnregistered == [state |-> "Unregistered", deps |-> {}, optional |-> FALSE]

RtIdle == [op |-> "none", todo |-> <<>>, inside |-> FALSE, ok |-> TRUE]

Registered == {k \in RtIds : rtEntries[k].state # "Unregistered"}

RunningSubsystems == {k \in RtIds : rtEntries[k].state = "Running"}

\* The one whose init or shutdown callback is running.
Inside == IF rtCall.inside THEN {Head(rtCall.todo)} ELSE {}

Deps == [k \in RtIds |-> rtEntries[k].deps]

DepsMet(k) == rtEntries[k].deps \subseteq RunningSubsystems

SubsystemState == {"Unregistered", "Registered", "Initialising", "Running", "ShuttingDown", "Stopped", "Failed"}

RuntimeTypeOK ==
    /\ rtEntries \in [RtIds -> [state : SubsystemState, deps : SUBSET RtIds, optional : BOOLEAN]]
    /\ rtOrder \in Seq(RtIds)
    /\ rtCall.op \in {"none", "InitAll", "ShutdownAll", "InitOne", "ShutdownOne"}
    /\ rtCall.todo \in Seq(RtIds)
    /\ rtCall.inside \in BOOLEAN
    /\ rtCall.inside => rtCall.todo # <<>>
    /\ rtCall.ok \in BOOLEAN

RuntimeInit ==
    /\ rtEntries = [k \in RtIds |-> RtUnregistered]
    /\ rtOrder = <<>>
    /\ rtCall = RtIdle

SetState(k, s) == rtEntries' = [rtEntries EXCEPT ![k].state = s]

\* The sort of the entries, in the orders the two hash maps yield them.
TopoSort(table, keys) == Kahn(Deps, table, keys)

\* The default table: what RegisterDefaults gives each subsystem to depend on.
DefaultDeps ==
    [Logger |-> {}, Config |-> {"Logger"}, Memory |-> {"Logger"}, Kernel |-> {"Memory"},
     Filesystem |-> {"Logger", "Config"}, Loader |-> {"Memory", "Filesystem"}, KytyAdapter |-> {"Memory"},
     Renderer |-> {"Config"}, GPU |-> {"Renderer"}, Audio |-> {"Config"}, Input |-> {"Config"},
     Debugger |-> {"Memory", "Logger"}, UI |-> {"Logger", "Config"}]

DefaultOptional == {"Renderer", "GPU", "Audio", "UI"}

-----------------------------------------------------------------------------
Register(k, deps, optional) ==
    /\ rtCall = RtIdle
    /\ rtOrder = <<>>
    /\ rtEntries' = [rtEntries EXCEPT ![k] = [state |-> "Registered", deps |-> deps, optional |-> optional]]
    /\ UNCHANGED <<rtOrder, rtCall>>

RuntimeReset ==
    /\ rtCall = RtIdle
    /\ RunningSubsystems = {}
    /\ rtEntries' = [k \in RtIds |-> RtUnregistered]
    /\ rtOrder' = <<>>
    /\ UNCHANGED rtCall

InitAll(table, keys) ==
    /\ rtCall = RtIdle
    /\ RunningSubsystems = {}
    /\ Registered # {}
    /\ Len(rtOrder) + Cardinality(Registered) <= RtMaxOrder
    /\ rtCall' = [op |-> "InitAll", todo |-> TopoSort(table, keys), inside |-> FALSE, ok |-> TRUE]
    /\ UNCHANGED <<rtEntries, rtOrder>>

\* The next subsystem of InitAll: its dependencies are looked at and its state
\* is stored in one critical section.  An optional one whose dependencies do
\* not run is passed over, but its state says Initialising.
InitAllCheck ==
    /\ rtCall.op = "InitAll"
    /\ ~rtCall.inside
    /\ rtCall.todo # <<>>
    /\ LET k == Head(rtCall.todo)
           required == ~rtEntries[k].optional
       IN  \/ /\ DepsMet(k)
              /\ SetState(k, "Initialising")
              /\ rtCall' = [rtCall EXCEPT !.inside = TRUE]
           \/ /\ ~DepsMet(k)
              /\ SetState(k, IF required THEN "Failed" ELSE "Initialising")
              /\ rtCall' = [rtCall EXCEPT !.todo = Tail(@), !.ok = @ /\ ~required]
    /\ UNCHANGED rtOrder

\* The init callback has returned: success is recorded with the place in the order.
InitAllRecord(initOk) ==
    /\ rtCall.op = "InitAll"
    /\ rtCall.inside
    /\ LET k == Head(rtCall.todo)
       IN  /\ SetState(k, IF initOk THEN "Running" ELSE "Failed")
           /\ rtOrder' = IF initOk THEN Append(rtOrder, k) ELSE rtOrder
           /\ rtCall' = [rtCall EXCEPT !.inside = FALSE, !.todo = Tail(@),
                                       !.ok = @ /\ (initOk \/ rtEntries[k].optional)]

InitAllReturn ==
    /\ rtCall.op = "InitAll"
    /\ rtCall.todo = <<>>
    /\ rtCall' = RtIdle
    /\ UNCHANGED <<rtEntries, rtOrder>>

InitOne(k) ==
    /\ rtCall = RtIdle
    /\ k \in Registered \ RunningSubsystems
    /\ DepsMet(k)
    /\ Len(rtOrder) < RtMaxOrder
    /\ SetState(k, "Initialising")
    /\ rtCall' = [RtIdle EXCEPT !.op = "InitOne", !.todo = <<k>>, !.inside = TRUE]
    /\ UNCHANGED rtOrder

InitOneReturn(initOk) ==
    /\ rtCall.op = "InitOne"
    /\ LET k == Head(rtCall.todo)
       IN  /\ SetState(k, IF initOk THEN "Running" ELSE "Failed")
           /\ rtOrder' = IF initOk THEN Append(rtOrder, k) ELSE rtOrder
    /\ rtCall' = RtIdle

-----------------------------------------------------------------------------
\* Mutant: teardown in the order of start-up.
ShutdownAllForward ==
    /\ rtCall = RtIdle
    /\ rtOrder # <<>>
    /\ rtCall' = [RtIdle EXCEPT !.op = "ShutdownAll", !.todo = rtOrder]
    /\ UNCHANGED <<rtEntries, rtOrder>>

ShutdownAll ==
    /\ rtCall = RtIdle
    /\ rtOrder # <<>>
    /\ rtCall' = [RtIdle EXCEPT !.op = "ShutdownAll", !.todo = Reverse(rtOrder)]
    /\ UNCHANGED <<rtEntries, rtOrder>>

\* ShutdownOne leaves the subsystem's place in initOrder.
ShutdownOne(k) ==
    /\ rtCall = RtIdle
    /\ k \in RunningSubsystems
    /\ \A j \in RunningSubsystems : k \notin rtEntries[j].deps
    /\ rtCall' = [RtIdle EXCEPT !.op = "ShutdownOne", !.todo = <<k>>]
    /\ UNCHANGED <<rtEntries, rtOrder>>

ShutdownBegin ==
    /\ rtCall.op \in {"ShutdownAll", "ShutdownOne"}
    /\ ~rtCall.inside
    /\ rtCall.todo # <<>>
    /\ LET k == Head(rtCall.todo)
       IN  \/ /\ k \in RunningSubsystems
              /\ SetState(k, "ShuttingDown")
              /\ rtCall' = [rtCall EXCEPT !.inside = TRUE]
           \/ /\ k \notin RunningSubsystems
              /\ rtCall' = [rtCall EXCEPT !.todo = Tail(@)]
              /\ UNCHANGED rtEntries
    /\ UNCHANGED rtOrder

ShutdownEnd ==
    /\ rtCall.op \in {"ShutdownAll", "ShutdownOne"}
    /\ rtCall.inside
    /\ SetState(Head(rtCall.todo), "Stopped")
    /\ rtCall' = [rtCall EXCEPT !.inside = FALSE, !.todo = Tail(@)]
    /\ UNCHANGED rtOrder

ShutdownReturn ==
    /\ rtCall.op \in {"ShutdownAll", "ShutdownOne"}
    /\ rtCall.todo = <<>>
    /\ rtOrder' = IF rtCall.op = "ShutdownAll" THEN <<>> ELSE rtOrder
    /\ rtCall' = RtIdle
    /\ UNCHANGED rtEntries

RuntimeNext ==
    \/ \E k \in RtIds, deps \in SUBSET RtIds, optional \in BOOLEAN : Register(k, deps \ {k}, optional)
    \/ RuntimeReset
    \/ \E table, keys \in SetToSeqs(Registered) : InitAll(table, keys)
    \/ InitAllCheck
    \/ \E initOk \in BOOLEAN : InitAllRecord(initOk) \/ InitOneReturn(initOk)
    \/ InitAllReturn
    \/ \E k \in RtIds : InitOne(k) \/ ShutdownOne(k)
    \/ ShutdownAll
    \/ ShutdownBegin
    \/ ShutdownEnd
    \/ ShutdownReturn

RtSpec == RuntimeInit /\ [][RuntimeNext]_rtVars

-----------------------------------------------------------------------------
\* A subsystem that runs, or whose init or shutdown callback is running, has all
\* its dependencies running: start-up follows the sort, teardown its reverse
\* (with the repetitions that single starts and stops leave in initOrder).
DepsRunning == \A k \in RunningSubsystems \cup Inside : DepsMet(k)

\* When InitAll has gone through its order, nothing with running dependencies has
\* been left out, and its result says whether every required subsystem that can
\* be ordered runs.  A subsystem can be ordered if all it depends on, directly or
\* not, is registered and free of cycles: the sort drops the others silently.
Orderable == UNION {S \in SUBSET Registered : Grounded(Deps, S)}

InitAllComplete ==
    rtCall.op = "InitAll" /\ rtCall.todo = <<>> =>
        /\ rtCall.ok <=> \A k \in Orderable : rtEntries[k].optional \/ k \in RunningSubsystems
        /\ \A k \in Orderable : DepsMet(k) => rtEntries[k].state \in {"Running", "Failed"}

\* When ShutdownAll returns nothing runs, whatever was started and stopped one by
\* one before.
TeardownComplete ==
    rtCall.op = "ShutdownAll" /\ rtCall.todo = <<>> => RunningSubsystems = {}
=============================================================================
