---------------------------- MODULE RuntimeEvents ----------------------------
(***************************************************************************)
(* The event bus of RuntimeEvents.cpp: publishing into the ring and to the *)
(* handlers, subscription, the watchdog thread, and the debugger's event   *)
(* browser (Debugger.cpp), whose handler takes the debugger's mutex.       *)
(*                                                                         *)
(* Publishers are threads of the emulator; the watchdog publishes too.     *)
(* One control thread arms the watchdog and shuts the bus down.  Init and  *)
(* Reset are called while no publication is on its way to the ring, and    *)
(* handlers do not call the bus.  The timeline, a second log of the same   *)
(* events, and the contents of an event beyond its type are left out.      *)
(***************************************************************************)
EXTENDS Naturals, FiniteSets, SequencesExt

CONSTANTS Publishers,    \* threads that publish
          Watchdog,      \* the watchdog thread
          EvCapacity,    \* ringCapacity
          EvMaxEvents,   \* bound: publishers, warnings and arming stop at this event id
          EvMaxHandlers, \* bound: no subscription begins beyond this handler id
          Nobody         \* holder of a free mutex

ASSUME EventsAssumption ==
    /\ IsFiniteSet(Publishers)
    /\ EvCapacity \in Nat \ {0}
    /\ EvMaxEvents \in Nat
    /\ EvMaxHandlers \in Nat
    /\ Watchdog \notin Publishers
    /\ Nobody \notin Publishers \cup {Watchdog}

VARIABLES evRing,        \* EventState::ring, as event ids
          evTotal,       \* totalCount
          evNextId,      \* nextId
          evHandlers,    \* handlers, which stand in the order of their ids
          evNextHandler, \* nextHandlerId
          evMtx,         \* holder of handlerMtx
          evPub,         \* where each thread is in Publish
          evDog,         \* WatchdogState and its thread
          evCtl,         \* where the control thread is
          evDbg          \* Debugger State: holder of its mutex, browserAttached

evVars == <<evRing, evTotal, evNextId, evHandlers, evNextHandler, evMtx, evPub, evDog, evCtl, evDbg>>

Threads == Publishers \cup {Watchdog}

NotPublishing == [at |-> "idle", id |-> 0, type |-> "none", todo |-> {}]

Types == {"guest", "watchdog"}

\* A handler's filter; the browser subscribes without one.
Filters == {"all", "watchdog", "browser"}

Handlers == [id : 1..EvMaxHandlers + 1, filter : Filters]

EventsTypeOK ==
    /\ evRing \in Seq(1..EvMaxEvents + 2)
    /\ Len(evRing) <= EvCapacity
    /\ evTotal \in 0..EvMaxEvents + 2
    /\ evNextId \in 1..EvMaxEvents + 3
    /\ evHandlers \subseteq Handlers
    /\ evNextHandler \in 1..EvMaxHandlers + 2
    /\ evMtx \in Threads \cup {Nobody}
    /\ evPub \in [Threads -> [at : {"idle", "made", "pushed", "calling"}, id : 0..EvMaxEvents + 2,
                              type : Types \cup {"none"}, todo : SUBSET Handlers]]
    /\ evDog \in [running : BOOLEAN, age : 0..2,
                  at : {"none", "top", "asleep", "warning", "warned", "timeout", "timedout", "ended"}]
    /\ evCtl \in [op : {"none", "Configure", "Shutdown"}, at : {"idle", "join", "finish"}]
    /\ evDbg \in [held : BOOLEAN, attached : BOOLEAN]

EventsBusInit ==
    /\ evRing = <<>>
    /\ evTotal = 0
    /\ evNextId = 1
    /\ evHandlers = {}
    /\ evNextHandler = 1
    /\ evMtx = Nobody
    /\ evPub = [t \in Threads |-> NotPublishing]
    /\ evDog = [running |-> FALSE, age |-> 0, at |-> "none"]
    /\ evCtl = [op |-> "none", at |-> "idle"]
    /\ evDbg = [held |-> FALSE, attached |-> FALSE]

-----------------------------------------------------------------------------
\* The event takes its number and is counted before it is in the ring.
MakeEvent(t, type) ==
    /\ evPub[t].at = "idle"
    /\ evPub' = [evPub EXCEPT ![t] = [at |-> "made", id |-> evNextId, type |-> type, todo |-> {}]]
    /\ evNextId' = evNextId + 1
    /\ evTotal' = evTotal + 1

Publish(t) ==
    /\ evNextId <= EvMaxEvents
    /\ MakeEvent(t, "guest")
    /\ UNCHANGED <<evRing, evHandlers, evNextHandler, evMtx, evDog, evCtl, evDbg>>

\* Mutant: the oldest event is dropped only when the ring is over-full.
PublishPushLate(t) ==
    /\ evPub[t].at = "made"
    /\ evRing' = Append(IF Len(evRing) > EvCapacity THEN Tail(evRing) ELSE evRing, evPub[t].id)
    /\ evPub' = [evPub EXCEPT ![t].at = "pushed"]
    /\ UNCHANGED <<evTotal, evNextId, evHandlers, evNextHandler, evMtx, evDog, evCtl, evDbg>>

PublishPush(t) ==
    /\ evPub[t].at = "made"
    /\ evRing' = Append(IF Len(evRing) >= EvCapacity THEN Tail(evRing) ELSE evRing, evPub[t].id)
    /\ evPub' = [evPub EXCEPT ![t].at = "pushed"]
    /\ UNCHANGED <<evTotal, evNextId, evHandlers, evNextHandler, evMtx, evDog, evCtl, evDbg>>

Receives(h, type) == h.filter \in {"all", "browser", type}

\* The one that subscribed first: ids are given under handlerMtx and grow.
Earliest(handlers) == CHOOSE h \in handlers : \A g \in handlers : h.id <= g.id

\* DispatchToHandlers keeps handlerMtx while it calls the handlers one by one.
Dispatch(t) ==
    /\ evPub[t].at = "pushed"
    /\ evMtx = Nobody
    /\ evMtx' = t
    /\ evPub' = [evPub EXCEPT ![t].at = "calling",
                              ![t].todo = {h \in evHandlers : Receives(h, evPub[t].type)}]
    /\ UNCHANGED <<evRing, evTotal, evNextId, evHandlers, evNextHandler, evDog, evCtl, evDbg>>

\* A handler returns; the browser's takes the debugger's mutex to log the event.
HandlerReturns(t) ==
    /\ evPub[t].at = "calling"
    /\ evPub[t].todo # {}
    /\ Earliest(evPub[t].todo).filter = "browser" => ~evDbg.held
    /\ evPub' = [evPub EXCEPT ![t].todo = @ \ {Earliest(@)}]
    /\ UNCHANGED <<evRing, evTotal, evNextId, evHandlers, evNextHandler, evMtx, evDog, evCtl, evDbg>>

DispatchEnd(t) ==
    /\ evPub[t].at = "calling"
    /\ evPub[t].todo = {}
    /\ evPub' = [evPub EXCEPT ![t] = NotPublishing]
    /\ evMtx' = Nobody
    /\ UNCHANGED <<evRing, evTotal, evNextId, evHandlers, evNextHandler, evDog, evCtl, evDbg>>

AddHandler(filter) ==
    /\ evMtx = Nobody
    /\ evHandlers' = evHandlers \cup {[id |-> evNextHandler, filter |-> filter]}
    /\ evNextHandler' = evNextHandler + 1

Subscribe(filter) ==
    /\ evNextHandler <= EvMaxHandlers
    /\ AddHandler(filter)
    /\ UNCHANGED <<evRing, evTotal, evNextId, evMtx, evPub, evDog, evCtl, evDbg>>

\* Mutant: the handler is taken out while a dispatch is under way.
UnsubscribeUnlocked(handlerId) ==
    /\ evHandlers' = {h \in evHandlers : h.id # handlerId}
    /\ UNCHANGED <<evRing, evTotal, evNextId, evNextHandler, evMtx, evPub, evDog, evCtl, evDbg>>

Unsubscribe(handlerId) ==
    /\ evMtx = Nobody
    /\ evHandlers' = {h \in evHandlers : h.id # handlerId}
    /\ UNCHANGED <<evRing, evTotal, evNextId, evNextHandler, evMtx, evPub, evDog, evCtl, evDbg>>

\* Reset keeps the handlers.
EventsReset ==
    /\ \A t \in Threads : evPub[t].at # "made"
    /\ evMtx = Nobody
    /\ evRing' = <<>>
    /\ evTotal' = 0
    /\ evNextId' = 1
    /\ UNCHANGED <<evHandlers, evNextHandler, evMtx, evPub, evDog, evCtl, evDbg>>

EventsInit ==
    /\ evPub = [t \in Threads |-> NotPublishing]
    /\ evDog.at = "none"
    /\ evRing' = <<>>
    /\ evTotal' = 0
    /\ evNextId' = 1
    /\ evHandlers' = {}
    /\ UNCHANGED <<evNextHandler, evMtx, evPub, evDog, evCtl, evDbg>>

-----------------------------------------------------------------------------
(* The watchdog.  age is the time since the last kick: below warningUs, below *)
(* timeoutUs, or beyond it.                                                   *)

TimePasses ==
    /\ evDog.at \notin {"none", "ended"}
    /\ evDog.age < 2
    /\ evDog' = [evDog EXCEPT !.age = @ + 1]
    /\ UNCHANGED <<evRing, evTotal, evNextId, evHandlers, evNextHandler, evMtx, evPub, evCtl, evDbg>>

KickWatchdog ==
    /\ evDog.age > 0
    /\ evDog' = [evDog EXCEPT !.age = 0]
    /\ UNCHANGED <<evRing, evTotal, evNextId, evHandlers, evNextHandler, evMtx, evPub, evCtl, evDbg>>

DogLoop ==
    /\ evDog.at = "top"
    /\ evDog' = [evDog EXCEPT !.at = IF evDog.running THEN "asleep" ELSE "ended"]
    /\ UNCHANGED <<evRing, evTotal, evNextId, evHandlers, evNextHandler, evMtx, evPub, evCtl, evDbg>>

\* After its sleep the thread looks at running, then at the age.
Verdict ==
    CASE ~evDog.running                                   -> "ended"
      [] evDog.running /\ evDog.age = 2                   -> "timeout"
      [] evDog.running /\ evDog.age = 1 /\ evNextId <= EvMaxEvents -> "warning"
      [] OTHER                                            -> "top"

DogWakes ==
    /\ evDog.at = "asleep"
    /\ evDog' = [evDog EXCEPT !.at = Verdict]
    /\ UNCHANGED <<evRing, evTotal, evNextId, evHandlers, evNextHandler, evMtx, evPub, evCtl, evDbg>>

DogPublishes ==
    /\ evDog.at \in {"warning", "timeout"}
    /\ MakeEvent(Watchdog, "watchdog")
    /\ evDog' = [evDog EXCEPT !.at = IF @ = "warning" THEN "warned" ELSE "timedout"]
    /\ UNCHANGED <<evRing, evHandlers, evNextHandler, evMtx, evCtl, evDbg>>

\* A timeout ends the thread; running stays as it is.
DogPublished ==
    /\ evDog.at \in {"warned", "timedout"}
    /\ evPub[Watchdog].at = "idle"
    /\ evDog' = [evDog EXCEPT !.at = IF @ = "warned" THEN "top" ELSE "ended"]
    /\ UNCHANGED <<evRing, evTotal, evNextId, evHandlers, evNextHandler, evMtx, evPub, evCtl, evDbg>>

\* ConfigureWatchdog and Shutdown both begin with a stop of the old watchdog.
StopWatchdog(op) ==
    /\ evCtl.at = "idle"
    /\ evDog' = [evDog EXCEPT !.running = FALSE]
    /\ evCtl' = [op |-> op, at |-> IF evDog.running THEN "join" ELSE "finish"]
    /\ UNCHANGED <<evRing, evTotal, evNextId, evHandlers, evNextHandler, evMtx, evPub, evDbg>>

JoinWatchdog ==
    /\ evCtl.at = "join"
    /\ evDog.at = "ended"
    /\ evDog' = [evDog EXCEPT !.at = "none"]
    /\ evCtl' = [evCtl EXCEPT !.at = "finish"]
    /\ UNCHANGED <<evRing, evTotal, evNextId, evHandlers, evNextHandler, evMtx, evPub, evDbg>>

ConfigureWatchdog(enabled) ==
    /\ evCtl = [op |-> "Configure", at |-> "finish"]
    /\ enabled => evNextId <= EvMaxEvents
    /\ evDog' = IF enabled THEN [running |-> TRUE, age |-> 0, at |-> "top"] ELSE evDog
    /\ evCtl' = [op |-> "none", at |-> "idle"]
    /\ UNCHANGED <<evRing, evTotal, evNextId, evHandlers, evNextHandler, evMtx, evPub, evDbg>>

EventsShutdown ==
    /\ evCtl = [op |-> "Shutdown", at |-> "finish"]
    /\ evMtx = Nobody
    /\ evHandlers' = {}
    /\ evCtl' = [op |-> "none", at |-> "idle"]
    /\ UNCHANGED <<evRing, evTotal, evNextId, evNextHandler, evMtx, evPub, evDog, evDbg>>

-----------------------------------------------------------------------------
(* The event browser.  Debugger::Init forgets the attachment but not the      *)
(* handler, so it is called again only when the bus has dropped the handler.  *)

DebuggerInit ==
    /\ ~evDbg.held
    /\ evDbg.attached
    /\ \A h \in evHandlers : h.filter # "browser"
    /\ evDbg' = [evDbg EXCEPT !.attached = FALSE]
    /\ UNCHANGED <<evRing, evTotal, evNextId, evHandlers, evNextHandler, evMtx, evPub, evDog, evCtl>>

AttachEventBrowser ==
    /\ ~evDbg.held
    /\ ~evDbg.attached
    /\ evNextHandler <= EvMaxHandlers
    /\ evDbg' = [held |-> TRUE, attached |-> TRUE]
    /\ UNCHANGED <<evRing, evTotal, evNextId, evHandlers, evNextHandler, evMtx, evPub, evDog, evCtl>>

\* It subscribes with the debugger's mutex held.
AttachSubscribe ==
    /\ evDbg.held
    /\ AddHandler("browser")
    /\ evDbg' = [evDbg EXCEPT !.held = FALSE]
    /\ UNCHANGED <<evRing, evTotal, evNextId, evMtx, evPub, evDog, evCtl>>

EventsNext ==
    \/ \E t \in Publishers : Publish(t)
    \/ \E t \in Threads : PublishPush(t) \/ Dispatch(t) \/ HandlerReturns(t) \/ DispatchEnd(t)
    \/ \E filter \in Filters \ {"browser"} : Subscribe(filter)
    \/ \E handlerId \in 1..EvMaxHandlers + 1 : Unsubscribe(handlerId)
    \/ EventsReset
    \/ EventsInit
    \/ TimePasses
    \/ KickWatchdog
    \/ DogLoop
    \/ DogWakes
    \/ DogPublishes
    \/ DogPublished
    \/ \E op \in {"Configure", "Shutdown"} : StopWatchdog(op)
    \/ JoinWatchdog
    \/ \E enabled \in BOOLEAN : ConfigureWatchdog(enabled)
    \/ EventsShutdown
    \/ DebuggerInit
    \/ AttachEventBrowser
    \/ AttachSubscribe

EvSpec == EventsBusInit /\ [][EventsNext]_evVars

-----------------------------------------------------------------------------
\* A handler being called is registered: when Unsubscribe or Shutdown has returned,
\* what the handler refers to may be destroyed.
CalledIsRegistered ==
    \A t \in Threads : evPub[t].todo # {} => Earliest(evPub[t].todo) \in evHandlers

\* GetEventCount and the ring agree: with no event between its count and its push
\* the ring holds min(capacity, total) events, none of them twice.
RingAgrees ==
    (\A t \in Threads : evPub[t].at # "made") =>
        /\ Len(evRing) = IF evTotal < EvCapacity THEN evTotal ELSE EvCapacity
        /\ IsInjective(evRing)

\* When ConfigureWatchdog(disabled) or Shutdown has returned there is no watchdog
\* thread, so no watchdog event is published any more.
WatchdogQuiet == evCtl.at = "idle" /\ ~evDog.running => evDog.at = "none"

\* A dispatcher that waits for the debugger's mutex with handlerMtx held never
\* meets an attachment that waits for handlerMtx with the debugger's mutex held.
NoLockCycle ==
    \A t \in Threads :
        evMtx = t /\ evPub[t].todo # {} /\ evDbg.held => Earliest(evPub[t].todo).filter # "browser"
=============================================================================
