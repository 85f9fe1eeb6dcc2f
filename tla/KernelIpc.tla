------------------------------ MODULE KernelIpc ------------------------------
(***************************************************************************)
(* Named IPC ports of KernelRuntime.cpp.  A port is an IpcEntry: a message *)
(* queue under its own mutex and a condition variable; ipcMtx guards the   *)
(* two tables.  A port is named here by the handle CreateIpcPort returned  *)
(* for it; a message by its sender and its sender's count.  Only the order *)
(* and the fate of messages matter, so their bytes, and the truncation to  *)
(* the receiver's buffer, are left out.                                    *)
(***************************************************************************)
EXTENDS Integers, FiniteSets, Sequences

CONSTANTS Peers,
          Names,
          MaxPort,   \* bound: port handles 1..MaxPort
          MaxSent    \* bound: messages one thread sends

Ports    == 1 .. MaxPort
NoPort   == 0
Messages == Peers \X (1 .. MaxSent)

ASSUME IpcAssumption ==
    /\ IsFiniteSet(Peers)
    /\ MaxPort \in Nat
    /\ MaxSent \in Nat

VARIABLES
    nextIpc,
    byName,     \* ipcByName:   name -> port, NoPort when absent
    byHandle,   \* ipcByHandle: handle -> port, NoPort when absent
    portName,   \* IpcEntry::name
    portQueue,  \* IpcEntry::queue
    ipcPc, ipcAt, ipcTimed,  \* the call each thread is in, its entry, its timeout
    ipcSent,    \* history: how many messages each thread has sent
    portLog,    \* history: the messages each port accepted, in order
    portTaken   \* history: the messages received from each port, in order

ipcVars == <<nextIpc, byName, byHandle, portName, portQueue, ipcPc, ipcAt,
             ipcTimed, ipcSent, portLog, portTaken>>

portTables  == <<nextIpc, byName, byHandle, portName>>
portHistory == <<ipcSent, portLog, portTaken>>

PortsTypeOK ==
    /\ nextIpc \in 1 .. MaxPort + 1
    /\ byName \in [Names -> Ports \cup {NoPort}]
    /\ byHandle \in [Ports -> Ports \cup {NoPort}]
    /\ \A h \in Ports : byHandle[h] # NoPort => h < nextIpc
    /\ portName \in [Ports -> Names]
    /\ portQueue \in [Ports -> Seq(Messages)]
    /\ ipcPc \in [Peers -> {"idle", "push", "notify", "recv", "wait", "expired"}]
    /\ ipcAt \in [Peers -> Ports \cup {NoPort}]
    /\ ipcTimed \in [Peers -> BOOLEAN]
    /\ ipcSent \in [Peers -> 0 .. MaxSent]
    /\ portLog \in [Ports -> Seq(Messages)]
    /\ portTaken \in [Ports -> Seq(Messages)]

PortsInit ==
    /\ nextIpc = 1
    /\ byName = [n \in Names |-> NoPort]
    /\ byHandle = [h \in Ports |-> NoPort]
    /\ portName \in {[h \in Ports |-> n] : n \in Names}
    /\ portQueue = [p \in Ports |-> <<>>]
    /\ ipcPc = [t \in Peers |-> "idle"]
    /\ ipcAt = [t \in Peers |-> NoPort]
    /\ ipcTimed = [t \in Peers |-> FALSE]
    /\ ipcSent = [t \in Peers |-> 0]
    /\ portLog = [p \in Ports |-> <<>>]
    /\ portTaken = [p \in Ports |-> <<>>]

-----------------------------------------------------------------------------
(* The tables, under ipcMtx.                                               *)

\* A second port of the same name takes the name over.
CreateIpcPort(n) ==
    /\ nextIpc <= MaxPort
    /\ nextIpc' = nextIpc + 1
    /\ portName' = [portName EXCEPT ![nextIpc] = n]
    /\ byName' = [byName EXCEPT ![n] = nextIpc]
    /\ byHandle' = [byHandle EXCEPT ![nextIpc] = nextIpc]
    /\ UNCHANGED <<portQueue, ipcPc, ipcAt, ipcTimed, portHistory>>

ConnectIpcPort(n) ==
    /\ byName[n] # NoPort
    /\ nextIpc <= MaxPort
    /\ nextIpc' = nextIpc + 1
    /\ byHandle' = [byHandle EXCEPT ![nextIpc] = byName[n]]
    /\ UNCHANGED <<byName, portName, portQueue, ipcPc, ipcAt, ipcTimed,
                   portHistory>>

\* Every entry was made by CreateIpcPort with server = true, so closing any
\* handle of a port removes the name, whoever holds it now.
CloseIpcPort(h) ==
    /\ byHandle[h] # NoPort
    /\ byName' = [byName EXCEPT ![portName[byHandle[h]]] = NoPort]
    /\ byHandle' = [byHandle EXCEPT ![h] = NoPort]
    /\ UNCHANGED <<nextIpc, portName, portQueue, ipcPc, ipcAt, ipcTimed,
                   portHistory>>

\* The look-up that opens IpcSend and IpcRecv.
PortLookup(t, h, step) ==
    /\ ipcPc[t] = "idle"
    /\ byHandle[h] # NoPort
    /\ ipcPc' = [ipcPc EXCEPT ![t] = step]
    /\ ipcAt' = [ipcAt EXCEPT ![t] = byHandle[h]]
    /\ UNCHANGED <<portTables, portQueue, portHistory>>

PeerReturn(t) ==
    /\ ipcAt' = [ipcAt EXCEPT ![t] = NoPort]
    /\ ipcTimed' = [ipcTimed EXCEPT ![t] = FALSE]

-----------------------------------------------------------------------------
IpcSend(t, h) ==
    /\ ipcSent[t] < MaxSent
    /\ PortLookup(t, h, "push")
    /\ UNCHANGED ipcTimed

\* emplace_back under the entry's mutex.
SendPush(t) ==
    LET m == <<t, ipcSent[t] + 1>>
    IN /\ ipcPc[t] = "push"
       /\ portQueue' = [portQueue EXCEPT ![ipcAt[t]] = Append(@, m)]
       /\ portLog' = [portLog EXCEPT ![ipcAt[t]] = Append(@, m)]
       /\ ipcSent' = [ipcSent EXCEPT ![t] = @ + 1]
       /\ ipcPc' = [ipcPc EXCEPT ![t] = "notify"]
       /\ UNCHANGED <<portTables, ipcAt, ipcTimed, portTaken>>

Receivers(p) == {u \in Peers : ipcPc[u] = "wait" /\ ipcAt[u] = p}

\* Mutant: only the first message of a batch is announced.
SendNotifyIfEmpty(t) ==
    /\ ipcPc[t] = "notify"
    /\ \/ /\ Receivers(ipcAt[t]) = {} \/ Len(portQueue[ipcAt[t]]) > 1
          /\ ipcPc' = [ipcPc EXCEPT ![t] = "idle"]
       \/ \E u \in Receivers(ipcAt[t]) :
             /\ Len(portQueue[ipcAt[t]]) <= 1
             /\ ipcPc' = [ipcPc EXCEPT ![t] = "idle", ![u] = "recv"]
    /\ PeerReturn(t)
    /\ UNCHANGED <<portTables, portQueue, portHistory>>

\* notify_one, after the mutex is released: one waiter, if any, re-checks.
SendNotify(t) ==
    /\ ipcPc[t] = "notify"
    /\ \/ Receivers(ipcAt[t]) = {} /\ ipcPc' = [ipcPc EXCEPT ![t] = "idle"]
       \/ \E u \in Receivers(ipcAt[t]) :
             ipcPc' = [ipcPc EXCEPT ![t] = "idle", ![u] = "recv"]
    /\ PeerReturn(t)
    /\ UNCHANGED <<portTables, portQueue, portHistory>>

IpcRecv(t, h, tm) ==
    /\ PortLookup(t, h, "recv")
    /\ ipcTimed' = [ipcTimed EXCEPT ![t] = tm]

\* Mutant: the newest message is returned.
RecvTakeNewest(t) ==
    LET q == portQueue[ipcAt[t]]
    IN /\ q # <<>>
       /\ portQueue' = [portQueue EXCEPT ![ipcAt[t]] = SubSeq(q, 1, Len(q) - 1)]
       /\ portTaken' = [portTaken EXCEPT ![ipcAt[t]] = Append(@, q[Len(q)])]
       /\ ipcPc' = [ipcPc EXCEPT ![t] = "idle"]
       /\ PeerReturn(t)
       /\ UNCHANGED <<portTables, ipcSent, portLog>>

\* front and pop_front, when the predicate holds.
RecvTake(t) ==
    LET q == portQueue[ipcAt[t]]
    IN /\ q # <<>>
       /\ portQueue' = [portQueue EXCEPT ![ipcAt[t]] = Tail(q)]
       /\ portTaken' = [portTaken EXCEPT ![ipcAt[t]] = Append(@, Head(q))]
       /\ ipcPc' = [ipcPc EXCEPT ![t] = "idle"]
       /\ PeerReturn(t)
       /\ UNCHANGED <<portTables, ipcSent, portLog>>

\* The predicate is tested: take, or go back to sleep.
RecvCheck(t) ==
    /\ ipcPc[t] = "recv"
    /\ \/ RecvTake(t)
       \/ /\ portQueue[ipcAt[t]] = <<>>
          /\ ipcPc' = [ipcPc EXCEPT ![t] = "wait"]
          /\ UNCHANGED <<portTables, portQueue, ipcAt, ipcTimed, portHistory>>

RecvTimeout(t) ==
    /\ ipcPc[t] = "wait"
    /\ ipcTimed[t]
    /\ ipcPc' = [ipcPc EXCEPT ![t] = "expired"]
    /\ UNCHANGED <<portTables, portQueue, ipcAt, ipcTimed, portHistory>>

\* wait_for tests the predicate once more: take, or return -1.
RecvExpired(t) ==
    /\ ipcPc[t] = "expired"
    /\ \/ RecvTake(t)
       \/ /\ portQueue[ipcAt[t]] = <<>>
          /\ ipcPc' = [ipcPc EXCEPT ![t] = "idle"]
          /\ PeerReturn(t)
          /\ UNCHANGED <<portTables, portQueue, portHistory>>

RecvSpurious(t) ==
    /\ ipcPc[t] = "wait"
    /\ ipcPc' = [ipcPc EXCEPT ![t] = "recv"]
    /\ UNCHANGED <<portTables, portQueue, ipcAt, ipcTimed, portHistory>>

PeerStep(t) == SendPush(t) \/ SendNotify(t) \/ RecvCheck(t) \/ RecvExpired(t)

PortsNext ==
    \/ \E n \in Names : CreateIpcPort(n) \/ ConnectIpcPort(n)
    \/ \E h \in Ports :
          \/ CloseIpcPort(h)
          \/ \E t \in Peers :
                IpcSend(t, h) \/ \E tm \in BOOLEAN : IpcRecv(t, h, tm)
    \/ \E t \in Peers : PeerStep(t) \/ RecvTimeout(t) \/ RecvSpurious(t)

PortsSpec == PortsInit /\ [][PortsNext]_ipcVars

\* The host runs every thread that can run.  Deadlines and early wake-ups are
\* not relied on.
PortsFairness == \A t \in Peers : WF_ipcVars(PeerStep(t))

PortsFairSpec == PortsSpec /\ PortsFairness

-----------------------------------------------------------------------------
\* Every message a port accepted is received once and in order, or is still
\* queued: no receiver that times out, wakes early or races another one loses,
\* repeats or reorders a message.
FifoDelivery == \A p \in Ports : portTaken[p] \o portQueue[p] = portLog[p]

\* Who is about to look at the queue of p, or to make somebody look.
Awake(p) ==
    {t \in Peers : ipcAt[t] = p /\ ipcPc[t] \in {"notify", "recv", "expired"}}

\* When a receiver sleeps, every queued message has a wake-up of its own on the
\* way (a notify_one still to be called, or a receiver that is about to look),
\* so that notify_one is enough for any number of senders and receivers.
NoStrandedMessage ==
    \A p \in Ports :
        Receivers(p) # {} => Len(portQueue[p]) <= Cardinality(Awake(p))

\* A name leads to a port that some handle still reaches, and that was created
\* under that name.
NamesLive ==
    \A n \in Names : byName[n] # NoPort =>
        portName[byName[n]] = n /\ \E h \in Ports : byHandle[h] = byName[n]

\* A receiver sleeping at a port with a queued message wakes.
ReceiverWakes ==
    \A t \in Peers :
        (ipcPc[t] = "wait" /\ portQueue[ipcAt[t]] # <<>>)
            ~> (ipcPc[t] # "wait" \/ portQueue[ipcAt[t]] = <<>>)

\* Closing a client's handle leaves the server's name registered.
ClientCloseKeepsName ==
    [][\A h \in Ports :
          byHandle[h] \notin {NoPort, h} /\ CloseIpcPort(h)
              => UNCHANGED byName]_ipcVars
=============================================================================
