----------------------------- MODULE GpuCommands -----------------------------
(***************************************************************************)
(* GPU command lists, fences and the GPU heap:                             *)
(* src/.../CommandProcessor/CommandProcessor.cpp, src/.../GPU/GPU.cpp.     *)
(*                                                                         *)
(* A buffer is a sequence of 4-byte cells: an opcode, or a piece of a      *)
(* field.  CommandList writes packets into it; Process reads them back     *)
(* field by field, one packet at a time, other threads running between     *)
(* packets.  A buffer that reaches Process through GPU::CommandBuffer may  *)
(* be cut at any cell.  Labels are measured in cells too.  Fences are      *)
(* shared entries with a mutex and a condition variable of their own; a    *)
(* wait from a command list gives up after a second, a wait with           *)
(* UINT64_MAX does not.                                                    *)
(***************************************************************************)
EXTENDS Integers, Sequences, FiniteSets, SequencesExt, Sublists

CONSTANTS GlThreads,
          GlLists,      \* the command lists the guest builds: sequences of commands
          GlCuts,       \* how many cells a raw buffer may miss at its end
          GlNoThread,
          GlMaxFences,  \* bound: fences created
          GlHeapSize,   \* cells of GPU heap
          GlSizes,      \* sizes asked for
          GlAligns      \* alignments asked for

ASSUME GlBounds ==
    /\ GlMaxFences \in Nat /\ GlHeapSize \in Nat /\ GlNoThread \notin GlThreads
    /\ GlSizes \subseteq Nat /\ GlAligns \subseteq Nat \ {0} /\ GlCuts \subseteq Nat

VARIABLES
    glWork,     \* thread -> [list, cut, buf, pos, done, pc, fence]
    glFences,   \* handle -> [live, signalled, owner, sleepers]
    glNext,     \* next fence handle
    glHeap      \* [base, used, given]: mapped or not, the bump pointer, the
                \* blocks handed out since the heap was mapped

glVars == <<glWork, glFences, glNext, glHeap>>

-----------------------------------------------------------------------------
(* Packets.  The fields of each command, by their width in cells: a u64 is *)
(* two.  A label is its length and then its cells.                         *)

Opcodes == {"Nop", "EndRenderPass", "PopDebugLabel", "End", "Bad", "SetRenderTarget", "SetDepthTarget",
            "ClearColor", "ClearDepth", "DrawDirect", "DrawIndexed", "Dispatch", "SetViewport", "SetScissor",
            "Barrier", "WaitFence", "SignalFence", "BeginRenderPass", "PushDebugLabel"}

BuiltFields(op) ==
    CASE op \in {"Nop", "EndRenderPass", "PopDebugLabel", "End", "Bad"} -> <<>>
      [] op = "SetRenderTarget" -> <<1, 2, 1, 1, 1, 1>>
      [] op = "SetDepthTarget"  -> <<2, 1, 1, 1>>
      [] op = "ClearColor"      -> <<1, 1, 1, 1, 1>>
      [] op = "ClearDepth"      -> <<1, 1>>
      [] op = "DrawDirect"      -> <<1, 1, 1, 1>>
      [] op = "DrawIndexed"     -> <<1, 1, 1, 1, 1>>
      [] op = "Dispatch"        -> <<1, 1, 1>>
      [] op = "SetViewport"     -> <<1, 1, 1, 1, 1, 1>>
      [] op = "SetScissor"      -> <<1, 1, 1, 1>>
      [] op = "Barrier"         -> <<2, 1, 1>>
      [] op \in {"WaitFence", "SignalFence", "BeginRenderPass", "PushDebugLabel"} -> <<1>>

Labelled == {"BeginRenderPass", "PushDebugLabel"}

\* CommandList's methods write an operand for every field, a label's length first.
ASSUME GlListsBuilt ==
    \A l \in GlLists : /\ l \in Seq([op : Opcodes, args : Seq(Nat)])
                       /\ \A i \in 1 .. Len(l) : Len(l[i].args) = Len(BuiltFields(l[i].op))

\* A packet: the opcode, each field's cells, the label's.  Cells of a wide
\* field hold its value; a label of n cells is n cells of text.
Packet(cmd) ==
    <<cmd.op>>
      \o Joined([i \in 1 .. Len(cmd.args) |-> [k \in 1 .. BuiltFields(cmd.op)[i] |-> cmd.args[i]]])
      \o (IF cmd.op \in Labelled THEN [k \in 1 .. cmd.args[1] |-> "text"] ELSE <<>>)

Build(list) == Joined([i \in 1 .. Len(list) |-> Packet(list[i])])

\* Mutant: the 64-bit address of a barrier is read as 32 bits.
ReadFieldsNarrow(op) == IF op = "Barrier" THEN <<1, 1, 1>> ELSE BuiltFields(op)

\* What Process reads for each opcode.
ReadFields(op) ==
    CASE op = "SetRenderTarget" -> <<1, 2, 1, 1, 1, 1>>
      [] op = "SetDepthTarget"  -> <<2, 1, 1, 1>>
      [] op \in {"ClearColor", "DrawIndexed"} -> <<1, 1, 1, 1, 1>>
      [] op \in {"SetScissor", "DrawDirect"}  -> <<1, 1, 1, 1>>
      [] op = "SetViewport"     -> <<1, 1, 1, 1, 1, 1>>
      [] op = "ClearDepth"      -> <<1, 1>>
      [] op = "Dispatch"        -> <<1, 1, 1>>
      [] op = "Barrier"         -> <<2, 1, 1>>
      [] op \in {"WaitFence", "SignalFence", "BeginRenderPass", "PushDebugLabel"} -> <<1>>
      [] OTHER -> <<>>

\* ReadVal: a field that does not fit reads as zero and is not stepped over.
ReadVal(buf, acc, width) ==
    IF acc.pos + width <= Len(buf)
    THEN [pos |-> acc.pos + width, args |-> Append(acc.args, buf[acc.pos + 1])]
    ELSE [pos |-> acc.pos, args |-> Append(acc.args, 0)]

\* One packet at pos: the command, and the position after it, a label's
\* cells skipped up to the end of the buffer.
Decode(buf, pos) ==
    LET op == buf[pos + 1]
        fields == ReadFields(op)
        reads[i \in 0 .. Len(fields)] == IF i = 0 THEN [pos |-> pos + 1, args |-> <<>>]
                                         ELSE ReadVal(buf, reads[i - 1], fields[i])
        read == reads[Len(fields)]
        rest == Len(buf) - read.pos
    IN  [cmd |-> [op |-> op, args |-> read.args],
         pos |-> IF op \in Labelled
                 THEN read.pos + (IF read.args[1] \in 0 .. rest THEN read.args[1] ELSE rest)
                 ELSE read.pos]

-----------------------------------------------------------------------------
Idle == [list |-> <<>>, cut |-> FALSE, buf |-> <<>>, pos |-> 0, done |-> <<>>, pc |-> "idle", fence |-> 0]

Handles == 1 .. GlMaxFences

GlTypeOK ==
    /\ \A t \in GlThreads :
         /\ glWork[t].list \in GlLists \union {<<>>}
         /\ glWork[t].pos \in 0 .. Len(glWork[t].buf)
         /\ glWork[t].pc \in {"idle", "packet", "find", "peek", "lock", "doze", "asleep", "set", "notify", "woken"}
         /\ glWork[t].fence \in Nat
    /\ \A h \in Handles : /\ glFences[h].live \in BOOLEAN /\ glFences[h].signalled \in BOOLEAN
                          /\ glFences[h].owner \in GlThreads \union {GlNoThread}
    /\ glNext \in 1 .. GlMaxFences + 1
    /\ glHeap.used \in 0 .. GlHeapSize

NoFence == [live |-> FALSE, signalled |-> FALSE, owner |-> GlNoThread]

GlInit ==
    /\ glWork = [t \in GlThreads |-> Idle]
    /\ glFences = [h \in Handles |-> NoFence]
    /\ glNext = 1
    /\ glHeap = [base |-> FALSE, used |-> 0, given |-> {}]

GlAt(t, pc) == glWork[t].pc = pc
GlGoto(t, pc) == glWork' = [glWork EXCEPT ![t].pc = pc]
\* What a thread does after a fence call: its list goes on with the next packet,
\* a host call has returned.
After(t) == IF glWork[t].list = <<>> THEN Idle ELSE [glWork[t] EXCEPT !.pc = "packet", !.fence = 0]

-----------------------------------------------------------------------------
(* CommandProcessor::Process.                                              *)

Process(t, list, cut) ==
    /\ GlAt(t, "idle")
    /\ glWork' = [glWork EXCEPT ![t] = [Idle EXCEPT !.list = list, !.cut = cut > 0, !.pc = "packet",
                                                    !.buf = SubSeq(Build(list), 1, Len(Build(list)) - cut)]]
    /\ UNCHANGED <<glFences, glNext>>

\* A list is over at the end of its buffer, at End, or at an opcode it does not know.
Over(t) == LET w == glWork[t]
           IN  IF w.pos = Len(w.buf) THEN TRUE ELSE w.buf[w.pos + 1] \in {"End", "Bad"}

ProcessDone(t) ==
    /\ GlAt(t, "packet") /\ Over(t)
    /\ glWork' = [glWork EXCEPT ![t] = Idle]
    /\ UNCHANGED <<glFences, glNext>>

\* One packet: fence commands go into the GPU's calls, the rest is done at once.
ProcessPacket(t) ==
    /\ GlAt(t, "packet") /\ ~Over(t)
    /\ LET d == Decode(glWork[t].buf, glWork[t].pos)
           fenced == d.cmd.op \in {"WaitFence", "SignalFence"}
       IN  glWork' = [glWork EXCEPT ![t].pos = d.pos, ![t].done = Append(@, d.cmd),
                                    ![t].fence = IF fenced THEN d.cmd.args[1] ELSE 0,
                                    ![t].pc = IF fenced THEN "find" ELSE "packet"]
    /\ UNCHANGED <<glFences, glNext>>

\* The call under way is the list's last command; a host call carries its own.
Signalling(t) == glWork[t].done # <<>> /\ Last(glWork[t].done).op = "SignalFence"
Patient(t) == glWork[t].list = <<>>

-----------------------------------------------------------------------------
(* GPU fences.                                                             *)

CreateFence ==
    /\ glNext <= GlMaxFences
    /\ glFences' = [glFences EXCEPT ![glNext] = [NoFence EXCEPT !.live = TRUE]]
    /\ glNext' = glNext + 1
    /\ UNCHANGED glWork

DestroyFence(h) ==
    /\ glFences[h].live
    /\ glFences' = [glFences EXCEPT ![h].live = FALSE]
    /\ UNCHANGED <<glWork, glNext>>

\* A host thread's own SignalFence or WaitFence(h, UINT64_MAX).
HostCall(t, op, h) ==
    /\ GlAt(t, "idle")
    /\ glWork' = [glWork EXCEPT ![t] = [Idle EXCEPT !.fence = h, !.pc = "find",
                                                    !.done = <<[op |-> op, args |-> <<h>>]>>]]
    /\ UNCHANGED <<glFences, glNext>>

Return(t) == glWork' = [glWork EXCEPT ![t] = After(t)]

\* The entry is looked up under fenceMtx and kept by a shared pointer.
FindFence(t) ==
    /\ GlAt(t, "find")
    /\ IF glWork[t].fence \in Handles /\ glFences[glWork[t].fence].live
       THEN GlGoto(t, IF Signalling(t) THEN "set" ELSE "peek")
       ELSE Return(t)
    /\ UNCHANGED <<glFences, glNext>>

Free(h) == glFences[h].owner = GlNoThread

SetSignalled(t) ==
    /\ GlAt(t, "set") /\ Free(glWork[t].fence)
    /\ glFences' = [glFences EXCEPT ![glWork[t].fence].signalled = TRUE]
    /\ GlGoto(t, "notify") /\ UNCHANGED glNext

\* notify_all, outside the mutex: every sleeper on the entry wakes.
NotifySleepers(t) ==
    /\ GlAt(t, "notify")
    /\ glWork' = [u \in GlThreads |->
                    IF u = t THEN After(t)
                    ELSE IF GlAt(u, "asleep") /\ glWork[u].fence = glWork[t].fence
                         THEN [glWork[u] EXCEPT !.pc = "woken"] ELSE glWork[u]]
    /\ UNCHANGED <<glFences, glNext>>

\* WaitFence: a look at the flag without the mutex, then the wait's own test
\* under it, and the sleep that releases it.
PeekFence(t) ==
    /\ GlAt(t, "peek")
    /\ IF glFences[glWork[t].fence].signalled THEN Return(t) ELSE GlGoto(t, "lock")
    /\ UNCHANGED <<glFences, glNext>>

TestFence(t) ==
    /\ GlAt(t, "lock") \/ GlAt(t, "woken")
    /\ Free(glWork[t].fence)
    /\ IF glFences[glWork[t].fence].signalled
       THEN Return(t) /\ UNCHANGED glFences
       ELSE GlGoto(t, "doze") /\ glFences' = [glFences EXCEPT ![glWork[t].fence].owner = t]
    /\ UNCHANGED glNext

SleepOnFence(t) ==
    /\ GlAt(t, "doze")
    /\ GlGoto(t, "asleep")
    /\ glFences' = [glFences EXCEPT ![glWork[t].fence].owner = GlNoThread]
    /\ UNCHANGED glNext

\* The wait of a command list gives up; Process goes on as if signalled.
WaitTimesOut(t) ==
    /\ GlAt(t, "asleep") /\ ~Patient(t) /\ Free(glWork[t].fence)
    /\ Return(t) /\ UNCHANGED <<glFences, glNext>>

-----------------------------------------------------------------------------
(* The heap: a bump allocator under its mutex.                             *)

RoundUp(n, align) == ((n + align - 1) \div align) * align

HeapInit == ~glHeap.base /\ glHeap' = [glHeap EXCEPT !.base = TRUE, !.given = {}]
\* Nothing happens without a base, and `used` is reset with it.
HeapShutdown == glHeap.base /\ glHeap' = [base |-> FALSE, used |-> 0, given |-> {}]

\* Whether a base is mapped is not asked.
Alloc(size, align) ==
    LET at == RoundUp(glHeap.used, align)
    IN  /\ at + size <= GlHeapSize
        /\ glHeap' = [glHeap EXCEPT !.used = at + size,
                                    !.given = @ \union {[at |-> at, size |-> size, mapped |-> glHeap.base]}]

GlHeapNext == \/ HeapInit \/ HeapShutdown
              \/ \E n \in GlSizes, a \in GlAligns : Alloc(n, a)

-----------------------------------------------------------------------------
GlStep(t) == \/ ProcessDone(t) \/ ProcessPacket(t) \/ FindFence(t) \/ SetSignalled(t) \/ NotifySleepers(t)
             \/ PeekFence(t) \/ TestFence(t) \/ SleepOnFence(t) \/ WaitTimesOut(t)

GlCalls == \/ \E t \in GlThreads, l \in GlLists, cut \in GlCuts : Process(t, l, cut)
           \/ \E t \in GlThreads, h \in Handles, op \in {"WaitFence", "SignalFence"} : HostCall(t, op, h)
           \/ CreateFence
           \/ \E h \in Handles : DestroyFence(h)

GlListsNext == GlCalls \/ \E t \in GlThreads : GlStep(t)

GlNext == \/ GlListsNext /\ UNCHANGED glHeap
          \/ GlHeapNext /\ UNCHANGED <<glWork, glFences, glNext>>

GlSpec == GlInit /\ [][GlNext]_glVars

\* A thread inside a call is scheduled, and its timed wait ends.
GlFairness == \A t \in GlThreads : WF_glVars(GlStep(t) /\ UNCHANGED glHeap)

-----------------------------------------------------------------------------
\* Process carries out the commands the builder wrote, in their order and
\* with their operands; of a buffer cut short only the last can differ, in
\* its operands (the field widths of CommandList and Process, ReadVal).
DecodesWhatWasBuilt ==
    \A t \in GlThreads : LET w == glWork[t] IN w.list # <<>> =>
        /\ Len(w.done) <= Len(w.list)
        /\ \A i \in 1 .. Len(w.done) :
             /\ w.done[i].op = w.list[i].op
             /\ (w.cut /\ i = Len(w.done)) \/ w.done[i] = w.list[i]

\* No thread sleeps on a signalled fence once the signaller has notified: it
\* is awake, or a notification is on its way (SignalFence, WaitFence).
NoSleepOnSignalled ==
    \A t \in GlThreads : (GlAt(t, "asleep") /\ glFences[glWork[t].fence].signalled) =>
        \E u \in GlThreads : GlAt(u, "notify") /\ glWork[u].fence = glWork[t].fence

\* Blocks handed out between two mappings of the heap do not overlap (GpuHeap::Alloc).
AllocsDisjoint ==
    \A b, c \in glHeap.given : b # c => b.at + b.size <= c.at \/ c.at + c.size <= b.at

\* "GpuHeap init failed — allocs will return nullptr" (GPU.cpp): without a
\* mapped heap no block is handed out.
AllocsAreMapped == \A b \in glHeap.given : b.at # 0 => b.mapped

\* A list is carried out as it was built, no wait for a fence sleeps past its signal,
\* and no two blocks of the heap overlap (Process, WaitFence, SignalFence, Alloc).
CommandsCarriedOut == DecodesWhatWasBuilt /\ NoSleepOnSignalled /\ AllocsDisjoint
=============================================================================
