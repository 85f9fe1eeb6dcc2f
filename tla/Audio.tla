-------------------------------- MODULE Audio --------------------------------
(***************************************************************************)
(* Audio.cpp: the ports under AudioState::mutex, their ring buffers, and   *)
(* SDL's audio thread, which runs AudioCallback for one device buffer at a *)
(* time.  A sample is the number of the callback that asked the fill       *)
(* function for it, modulo AuStamps, 0 for silence; volumes and formats    *)
(* are left out, so mixing is looking at what was read.                    *)
(***************************************************************************)
EXTENDS Naturals, FiniteSets, Sequences, SequencesExt

CONSTANTS AuHosts,     \* threads that call the audio API
          AuCapacity,  \* ring sizes in samples, one is chosen per port
          AuNeeded,    \* samples of one device buffer
          AuStamps,    \* bound: stamps in use
          AuMaxPorts   \* bound: ports opened

ASSUME AudioAssumption ==
    /\ AuCapacity \subseteq Nat \ {0}
    /\ AuNeeded \in Nat \ {0} /\ AuMaxPorts \in Nat /\ AuStamps \in Nat \ {0}

VARIABLES auInitialised,
          auDevice,    \* "none", "playing", "closing"
          auPorts,     \* the open ports, by handle
          auNextHandle,      \* nextHandle
          auOwner,     \* the thread inside AudioState::mutex across a step
          auThread,    \* the audio thread: "idle", "called"
          auStamp,     \* the callback under way
          auHeard      \* what the last callback mixed, by port, and its stamp

auVars == <<auInitialised, auDevice, auPorts, auNextHandle, auOwner, auThread, auStamp, auHeard>>

AuHandles == 1 .. AuMaxPorts
AuFree    == "free"
Samples(n) == [1 .. n -> 0 .. AuStamps]

Rings == UNION {[data : Samples(c), readPos : 0 .. c - 1, writePos : 0 .. c - 1, used : 0 .. c] : c \in AuCapacity}

AuTypeOK ==
    /\ auInitialised \in BOOLEAN
    /\ auDevice \in {"none", "playing", "closing"}
    /\ DOMAIN auPorts \subseteq AuHandles
    /\ \A h \in DOMAIN auPorts :
          auPorts[h] \in [running : BOOLEAN, source : {"fill", "none"}, ring : Rings]
    /\ auNextHandle \in 1 .. AuMaxPorts + 1
    /\ auOwner \in AuHosts \cup {AuFree}
    /\ auThread \in {"idle", "called"}
    /\ auStamp \in 1 .. AuStamps
    /\ DOMAIN auHeard \subseteq AuHandles /\ \A h \in DOMAIN auHeard : auHeard[h] \in Samples(AuNeeded)

AuInit ==
    /\ auInitialised = FALSE /\ auDevice = "none"
    /\ auPorts = <<>> /\ auNextHandle = 1
    /\ auOwner = AuFree
    /\ auThread = "idle" /\ auStamp = 1
    /\ auHeard = <<>>

EmptyRing(c) == [data |-> [i \in 1 .. c |-> 0], readPos |-> 0, writePos |-> 0, used |-> 0]

\* Mutant: what does not fit behind writePos is dropped instead of wrapping to the front.
RingWriteFlat(r, src) ==
    LET cap == Len(r.data)
    IN  IF Len(src) > cap - r.used THEN r
        ELSE [r EXCEPT !.data = [i \in 1 .. cap |-> IF i - r.writePos \in 1 .. Len(src)
                                                    THEN src[i - r.writePos] ELSE @[i]],
                       !.writePos = (@ + Len(src)) % cap,
                       !.used = @ + Len(src)]

\* RingBuffer::Write: all of src, or nothing.
RingWrite(r, src) ==
    LET cap == Len(r.data)
        at(i) == ((i - 1 + cap - r.writePos) % cap) + 1   \* the index in src that lands on data[i]
    IN  IF Len(src) > cap - r.used THEN r
        ELSE [r EXCEPT !.data = [i \in 1 .. cap |-> IF at(i) <= Len(src) THEN src[at(i)] ELSE @[i]],
                       !.writePos = (@ + Len(src)) % cap,
                       !.used = @ + Len(src)]

\* RingBuffer::Read: at most n samples; the rest of the caller's buffer stays silent.
RingTaken(r, n) == IF n < r.used THEN n ELSE r.used
RingRead(r, n)  == [i \in 1 .. n |-> IF i <= RingTaken(r, n) THEN r.data[((r.readPos + i - 1) % Len(r.data)) + 1] ELSE 0]
RingAfter(r, n) == [r EXCEPT !.readPos = (@ + RingTaken(r, n)) % Len(r.data), !.used = @ - RingTaken(r, n)]
-----------------------------------------------------------------------------
OpenAudio ==
    /\ auOwner = AuFree
    /\ ~auInitialised
    /\ auInitialised' = TRUE /\ auDevice' = "playing"
    /\ UNCHANGED <<auPorts, auNextHandle, auOwner, auThread, auStamp, auHeard>>

\* The two halves of Shutdown: the mutex is taken, and kept while SDL closes the device.
ShutdownAudio(t) ==
    /\ auOwner = AuFree
    /\ auOwner' = t
    /\ auDevice' = IF auDevice = "none" THEN "none" ELSE "closing"
    /\ UNCHANGED <<auInitialised, auPorts, auNextHandle, auThread, auStamp, auHeard>>

\* SDL_CloseAudioDevice waits for the callback under way.
DeviceClosed(t) ==
    /\ auOwner = t
    /\ auDevice = "closing" => auThread = "idle"
    /\ auDevice' = "none"
    /\ auPorts' = <<>>
    /\ auInitialised' = FALSE
    /\ auOwner' = AuFree
    /\ UNCHANGED <<auNextHandle, auThread, auStamp, auHeard>>

OpenPort(source, c) ==
    /\ auOwner = AuFree /\ auInitialised /\ auNextHandle <= AuMaxPorts
    /\ auPorts' = [h \in DOMAIN auPorts \cup {auNextHandle} |->
                     IF h = auNextHandle THEN [running |-> FALSE, source |-> source, ring |-> EmptyRing(c)] ELSE auPorts[h]]
    /\ auNextHandle' = auNextHandle + 1
    /\ UNCHANGED <<auInitialised, auDevice, auOwner, auThread, auStamp, auHeard>>

ClosePort(h) ==
    /\ auOwner = AuFree
    /\ auPorts' = [p \in DOMAIN auPorts \ {h} |-> auPorts[p]]
    /\ UNCHANGED <<auInitialised, auDevice, auNextHandle, auOwner, auThread, auStamp, auHeard>>

\* Start and Stop.
SetRunning(h, on) ==
    /\ auOwner = AuFree
    /\ auPorts' = [auPorts EXCEPT ![h].running = on]
    /\ UNCHANGED <<auInitialised, auDevice, auNextHandle, auOwner, auThread, auStamp, auHeard>>

\* SDL calls AudioCallback, which has not taken the mutex yet.
CallbackEnter ==
    /\ auDevice = "playing" /\ auThread = "idle"
    /\ auThread' = "called"
    /\ auStamp' = (auStamp % AuStamps) + 1
    /\ UNCHANGED <<auInitialised, auDevice, auPorts, auNextHandle, auOwner, auHeard>>

\* Every running port is filled and read under the mutex.
CallbackMix ==
    LET filled(p) == IF p.source = "fill" THEN RingWrite(p.ring, [i \in 1 .. AuNeeded |-> auStamp]) ELSE p.ring
        on == {h \in DOMAIN auPorts : auPorts[h].running}
    IN  /\ auThread = "called" /\ auOwner = AuFree
        /\ auHeard' = [h \in on |-> RingRead(filled(auPorts[h]), AuNeeded)]
        /\ auPorts' = [h \in DOMAIN auPorts |-> IF h \notin on THEN auPorts[h]
                         ELSE [auPorts[h] EXCEPT !.ring = RingAfter(filled(auPorts[h]), AuNeeded)]]
        /\ auThread' = "idle"
        /\ UNCHANGED <<auInitialised, auDevice, auNextHandle, auOwner, auStamp>>

AuNext ==
    \/ OpenAudio \/ CallbackEnter \/ CallbackMix
    \/ \E t \in AuHosts : ShutdownAudio(t) \/ DeviceClosed(t)
    \/ \E s \in {"fill", "none"}, c \in AuCapacity : OpenPort(s, c)
    \/ \E h \in DOMAIN auPorts : \/ ClosePort(h)
                                 \/ \E on \in BOOLEAN : SetRunning(h, on)

AuSpec == AuInit /\ [][AuNext]_auVars
-----------------------------------------------------------------------------
(***************************************************************************)
(* A port is heard as it was filled, for this very callback, wherever its  *)
(* ring wraps: no sample of an earlier buffer is replayed or reordered.  A *)
(* ring shorter than the device's buffer refuses the fill and stays silent.*)
(***************************************************************************)
HeardAsFilled ==
    auThread = "idle" =>
      \A h \in DOMAIN auHeard \cap DOMAIN auPorts :
         LET p == auPorts[h]
         IN  /\ p.source = "fill" /\ Len(p.ring.data) >= AuNeeded => auHeard[h] = [i \in 1 .. AuNeeded |-> auStamp]
             /\ p.source = "none" \/ Len(p.ring.data) < AuNeeded => auHeard[h] = [i \in 1 .. AuNeeded |-> 0]

(***************************************************************************)
(* Shutdown does not wait, with the mutex in hand, for a callback that     *)
(* waits for the mutex.                                                    *)
(***************************************************************************)
AudioNoLockCycle == ~(auDevice = "closing" /\ auThread = "called")
=============================================================================
