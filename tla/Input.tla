-------------------------------- MODULE Input --------------------------------
(***************************************************************************)
(* Input.cpp: the four pad slots under InputState::mtx, which Init, Poll   *)
(* and Shutdown change one at a time, the hot-plug events SDL queues, and  *)
(* the references SDL counts for every opened game controller.  A device   *)
(* is its SDL instance, new on every connection; pad contents, motion,     *)
(* touch, profiles and latency are left out.                               *)
(***************************************************************************)
EXTENDS Naturals, FiniteSets, Sequences, SequencesExt

CONSTANTS InPads,        \* devices, each connected at most once
          InSlots,       \* number of slots (4)
          InMaxFrames    \* bound: Init and recording calls

ASSUME InputAssumption ==
    /\ IsFiniteSet(InPads) /\ "none" \notin InPads
    /\ InSlots \in Nat \ {0}
    /\ InMaxFrames \in Nat

VARIABLES inInitialised,
          inSlots,       \* active, mode, gc, jid of every slot
          inPlugged,     \* the devices SDL sees
          inGone,        \* the devices that were unplugged
          inEvents,      \* SDL's event queue: hot-plug events
          inRefs,        \* SDL's reference counts
          inSeen,        \* the slots the callbacks were last told about, and their devices
          inCalls

inVars == <<inInitialised, inSlots, inPlugged, inGone, inEvents, inRefs, inSeen, inCalls>>

NoPad    == "none"
SlotIds  == 0 .. InSlots - 1
SlotType == [active : BOOLEAN, mode : {"Keyboard", "Pad"}, gc : InPads \cup {NoPad}, jid : InPads \cup {NoPad}]

InTypeOK ==
    /\ inInitialised \in BOOLEAN
    /\ inSlots \in [SlotIds -> SlotType]
    /\ inPlugged \subseteq InPads /\ inGone \subseteq InPads
    /\ inEvents \in Seq({"added", "removed"} \X InPads)
    /\ inRefs \in [InPads -> 0 .. InSlots]
    /\ DOMAIN inSeen \subseteq SlotIds /\ \A i \in DOMAIN inSeen : inSeen[i] \in InPads \cup {NoPad}
    /\ inCalls \in 0 .. InMaxFrames

InInit ==
    /\ inInitialised = FALSE
    /\ inSlots = [i \in SlotIds |-> [active |-> FALSE, mode |-> "Keyboard", gc |-> NoPad, jid |-> NoPad]]
    /\ inPlugged = {} /\ inGone = {}
    /\ inEvents = <<>>
    /\ inRefs = [d \in InPads |-> 0]
    /\ inSeen = <<>>
    /\ inCalls = 0

\* The slots and the references, as OpenController and CloseController change them.
SlotState == [slots |-> inSlots, refs |-> inRefs]

FreeSlots(s) == {i \in SlotIds : ~s.slots[i].active}
LowestOf(S)  == CHOOSE i \in S : \A j \in S : i <= j

\* A device that is gone, or a full table, is passed over.
OpenController(s, d) ==
    IF d \notin inPlugged \/ FreeSlots(s) = {} THEN s
    ELSE [slots |-> [s.slots EXCEPT ![LowestOf(FreeSlots(s))] = [active |-> TRUE, mode |-> "Pad", gc |-> d, jid |-> d]],
          refs  |-> [s.refs EXCEPT ![d] = @ + 1]]

\* Mutant: every slot of the device is freed, and the controller closed once.
CloseControllerAll(s, d) ==
    LET of == {i \in SlotIds : s.slots[i].active /\ s.slots[i].jid = d}
    IN  IF of = {} THEN s
        ELSE [slots |-> [i \in SlotIds |-> IF i \in of THEN [s.slots[i] EXCEPT !.active = FALSE, !.gc = NoPad]
                                           ELSE s.slots[i]],
              refs  |-> [s.refs EXCEPT ![d] = @ - 1]]

\* Only the first slot of the device is freed; jid and mode are left as they were.
CloseController(s, d) ==
    LET of == {i \in SlotIds : s.slots[i].active /\ s.slots[i].jid = d}
    IN  IF of = {} THEN s
        ELSE [slots |-> [s.slots EXCEPT ![LowestOf(of)].active = FALSE, ![LowestOf(of)].gc = NoPad],
              refs  |-> [s.refs EXCEPT ![d] = @ - 1]]

\* One event of the queue, and all of them in their order.
HandleEvent(s, e) == IF e[1] = "added" THEN OpenController(s, e[2]) ELSE CloseController(s, e[2])

Drain(s, events) ==
    LET drained[i \in 0 .. Len(events)] ==
            IF i = 0 THEN s ELSE HandleEvent(drained[i - 1], events[i])
    IN  drained[Len(events)]

Added(order) == [i \in DOMAIN order |-> <<"added", order[i]>>]
-----------------------------------------------------------------------------
(* SDL: devices come and go, and say so once the subsystem is up. *)
Plug(d) ==
    /\ d \notin inPlugged \cup inGone
    /\ inPlugged' = inPlugged \cup {d}
    /\ inEvents' = IF inInitialised THEN Append(inEvents, <<"added", d>>) ELSE inEvents
    /\ UNCHANGED <<inInitialised, inSlots, inGone, inRefs, inSeen, inCalls>>

Unplug(d) ==
    /\ d \in inPlugged
    /\ inPlugged' = inPlugged \ {d} /\ inGone' = inGone \cup {d}
    /\ inEvents' = IF inInitialised THEN Append(inEvents, <<"removed", d>>) ELSE inEvents
    /\ UNCHANGED <<inInitialised, inSlots, inRefs, inSeen, inCalls>>

\* Init opens the pads SDL lists, in some order, and SDL's start queues an event for each as well.
InitInput(order) ==
    LET keyboard == [SlotState EXCEPT !.slots[0].active = TRUE, !.slots[0].mode = "Keyboard"]
        opened   == Drain(keyboard, Added(order))
    IN  /\ ~inInitialised /\ inCalls < InMaxFrames
        /\ inCalls' = inCalls + 1
        /\ inInitialised' = TRUE
        /\ inSlots' = opened.slots /\ inRefs' = opened.refs
        /\ inEvents' = Added(order)
        /\ UNCHANGED <<inPlugged, inGone, inSeen>>

\* Every active slot is closed; jid and mode are left, and SDL's queue goes with the subsystem.
ShutdownInput ==
    LET closed == {i \in SlotIds : inSlots[i].active}
    IN  /\ inSlots' = [i \in SlotIds |-> IF i \in closed THEN [inSlots[i] EXCEPT !.active = FALSE, !.gc = NoPad]
                                         ELSE inSlots[i]]
        /\ inRefs' = [d \in InPads |-> inRefs[d] - Cardinality({i \in closed : inSlots[i].gc = d})]
        /\ inInitialised' = FALSE
        /\ inEvents' = <<>>
        /\ inSeen' = <<>>
        /\ UNCHANGED <<inPlugged, inGone, inCalls>>

\* Poll drains the queue, then reads every active slot and tells the callbacks.
Poll ==
    LET after == Drain(SlotState, inEvents)
    IN  /\ inSlots' = after.slots /\ inRefs' = after.refs
        /\ inEvents' = <<>>
        /\ inSeen' = [i \in {j \in SlotIds : after.slots[j].active} |-> after.slots[i].gc]
        /\ UNCHANGED <<inInitialised, inPlugged, inGone, inCalls>>

InNext ==
    \/ \E d \in InPads : Plug(d) \/ Unplug(d)
    \/ \E order \in {s \in UNION {[1 .. n -> inPlugged] : n \in {Cardinality(inPlugged)}} : IsInjective(s)} :
          InitInput(order)
    \/ ShutdownInput \/ Poll

InSpec == InInit /\ [][InNext]_inVars

-----------------------------------------------------------------------------
(***************************************************************************)
(* SDL's count of a controller is the number of active slots that hold it: *)
(* none is leaked, and Poll reads no controller that was closed, although  *)
(* a device may sit in two slots and leave them one at a time.             *)
(***************************************************************************)
PadRefsExact ==
    /\ \A d \in InPads : inRefs[d] = Cardinality({i \in SlotIds : inSlots[i].active /\ inSlots[i].gc = d})
    /\ \A i \in SlotIds : inSlots[i].gc # NoPad => inSlots[i].active

(***************************************************************************)
(* While the module is up slot 0 is the keyboard's, whatever comes and     *)
(* goes, and no removal takes it for the pad of an earlier session.        *)
(***************************************************************************)
KeyboardKept ==
    inInitialised => inSlots[0].active /\ inSlots[0].mode = "Keyboard" /\ inSlots[0].gc = NoPad

(***************************************************************************)
(* Once the events are drained no slot holds a device that is gone.        *)
(***************************************************************************)
NoGhostPads == inInitialised /\ inEvents = <<>> => \A i \in SlotIds : inSlots[i].gc \notin inGone
=============================================================================
