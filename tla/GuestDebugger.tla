---------------------------- MODULE GuestDebugger ----------------------------
(***************************************************************************)
(* The run loop, call-stack tracking and breakpoints of the guest CPU      *)
(* (src/.../Cpu/Cpu.cpp) and the debugger that drives them                 *)
(* (src/.../Debugger/Debugger.cpp).                                        *)
(*                                                                         *)
(* One thread is inside Cpu::Run, whose flags `running` and `paused` are   *)
(* atomics read and written one at a time; other threads call Pause,       *)
(* Resume, Stop and the debugger's functions, each of which runs under the *)
(* debugger's mutex and, inside it, the CPU's.  The guest program is any   *)
(* well-nested one: it jumps anywhere, pushes and pops data, calls and     *)
(* returns (to the return address on top of its stack), and may fault,     *)
(* halt, make a system call or meet an unimplemented opcode.               *)
(***************************************************************************)
EXTENDS Integers, Sequences, FiniteSets, Sublists

CONSTANTS DbAddrs,      \* code addresses
          DbMaxIds,     \* bound: breakpoints ever created, per counter
          DbStackDepth, \* bound: cells of mapped guest stack
          DbMaxRuns     \* bound: calls to Run

ASSUME DbBounds == DbMaxIds \in Nat /\ DbStackDepth \in Nat /\ DbMaxRuns \in Nat

VARIABLES
    dbRun,        \* [running, paused, pc, result, count]: the two atomics, where
                  \* Run is, what it last returned, and the calls so far
    dbRip,
    dbStack,      \* cells of the guest stack: a return address or data
    dbFrames,     \* st.callStack: return addresses
    dbCpu,        \* Cpu: [listed: set of [id, addr], armed: addr -> id, next]
    dbDbg         \* Debugger: [bps: set of [id, addr], next, cond, paused]

dbVars == <<dbRun, dbRip, dbStack, dbFrames, dbCpu, dbDbg>>

None == 0
Data == [data |-> TRUE]
FirstConditional == 10000
Results == {"Ok", "Breakpoint", "Syscall", "Fault", "Halt"}

DbTypeOK ==
    /\ dbRun \in [running : BOOLEAN, paused : BOOLEAN, result : Results, count : 0 .. DbMaxRuns,
                  pc : {"idle", "enter", "unpause", "loop", "pause", "again", "execute", "leave"}]
    /\ dbRip \in DbAddrs
    /\ Len(dbStack) <= DbStackDepth
    /\ dbFrames \in Seq(DbAddrs)
    /\ dbCpu.listed \subseteq [id : 1 .. dbCpu.next - 1, addr : DbAddrs]
    /\ DOMAIN dbCpu.armed = DbAddrs
    /\ \A b \in dbDbg.bps : b.addr \in DbAddrs
    /\ dbDbg.paused \in BOOLEAN

DbInit ==
    /\ dbRun = [running |-> FALSE, paused |-> FALSE, pc |-> "idle", result |-> "Ok", count |-> 0]
    /\ dbRip \in DbAddrs
    /\ dbStack = <<>> /\ dbFrames = <<>>
    /\ dbCpu = [listed |-> {}, armed |-> [a \in DbAddrs |-> None], next |-> 1]
    /\ dbDbg = [bps |-> {}, next |-> 1, cond |-> FirstConditional, paused |-> FALSE]

-----------------------------------------------------------------------------
(* Cpu::Run, one action per access of an atomic.                           *)

UNCHANGED_Guest == UNCHANGED <<dbRip, dbStack, dbFrames>>
UNCHANGED_Tables == UNCHANGED <<dbCpu, dbDbg>>

At(pc) == dbRun.pc = pc
Goto(pc) == dbRun' = [dbRun EXCEPT !.pc = pc]

RunCall == At("idle") /\ dbRun.count < DbMaxRuns
           /\ dbRun' = [dbRun EXCEPT !.pc = "enter", !.count = @ + 1] /\ UNCHANGED_Guest
RunEnter == At("enter") /\ dbRun' = [dbRun EXCEPT !.running = TRUE, !.pc = "unpause"] /\ UNCHANGED_Guest
RunUnpause == At("unpause")
              /\ dbRun' = [dbRun EXCEPT !.paused = FALSE, !.result = "Ok", !.pc = "loop"]
              /\ UNCHANGED_Guest
\* Mutant: the next instruction runs without another look at the flags.
RunLoopUnchecked == At("loop") /\ Goto("execute") /\ UNCHANGED_Guest
RunLoop == At("loop") /\ Goto(IF dbRun.running THEN "pause" ELSE "leave") /\ UNCHANGED_Guest
RunPause == At("pause") /\ ~dbRun.paused /\ Goto("again") /\ UNCHANGED_Guest
RunAgain == At("again") /\ Goto(IF dbRun.running THEN "execute" ELSE "leave") /\ UNCHANGED_Guest
RunLeave == At("leave") /\ dbRun' = [dbRun EXCEPT !.running = FALSE, !.pc = "idle"] /\ UNCHANGED_Guest

Ends(result) == dbRun' = [dbRun EXCEPT !.result = result, !.pc = "leave"]
Pop(s) == SubSeq(s, 1, Len(s) - 1)
Top(s) == s[Len(s)]

\* Mutant: the frame is recorded before the stack write is known to work.
CallPushEarly(ret, target) ==
    /\ dbFrames' = Append(dbFrames, ret)
    /\ IF Len(dbStack) = DbStackDepth
       THEN Ends("Fault") /\ UNCHANGED <<dbRip, dbStack>>
       ELSE Goto("loop") /\ dbRip' = target /\ dbStack' = Append(dbStack, [ret |-> ret])

\* 0xE8, and 0xFF /2 without a frame base: a failed write of the return
\* address is a fault and records no frame.
Call(ret, target) ==
    IF Len(dbStack) = DbStackDepth
    THEN Ends("Fault") /\ UNCHANGED_Guest
    ELSE /\ Goto("loop") /\ dbRip' = target
         /\ dbStack' = Append(dbStack, [ret |-> ret]) /\ dbFrames' = Append(dbFrames, ret)

\* 0xC3: one cell; the frame goes with it.
Return ==
    IF dbStack = <<>> THEN Ends("Fault") /\ UNCHANGED_Guest
    ELSE /\ "ret" \in DOMAIN Top(dbStack)
         /\ Goto("loop") /\ dbRip' = Top(dbStack).ret /\ dbStack' = Pop(dbStack)
         /\ dbFrames' = IF dbFrames = <<>> THEN <<>> ELSE Pop(dbFrames)

\* 0xC2: the n argument cells below the return address go with it.
ReturnPopping(n) ==
    /\ Len(dbStack) > n /\ "ret" \in DOMAIN Top(dbStack)
    /\ \A i \in Len(dbStack) - n .. Len(dbStack) - 1 : dbStack[i] = Data
    /\ Goto("loop") /\ dbRip' = Top(dbStack).ret
    /\ dbStack' = SubSeq(dbStack, 1, Len(dbStack) - 1 - n)
    /\ dbFrames' = IF dbFrames = <<>> THEN <<>> ELSE Pop(dbFrames)

\* 0x50-0x57 and 0x58-0x5F.
Push == IF Len(dbStack) = DbStackDepth THEN Ends("Fault") /\ UNCHANGED_Guest
        ELSE Goto("loop") /\ dbStack' = Append(dbStack, Data) /\ UNCHANGED <<dbRip, dbFrames>>
PopData == IF dbStack = <<>> THEN Ends("Fault") /\ UNCHANGED_Guest
           ELSE /\ Top(dbStack) = Data /\ Goto("loop") /\ dbStack' = Pop(dbStack)
                /\ UNCHANGED <<dbRip, dbFrames>>

\* JMP, Jcc, any instruction that runs on, and an unimplemented one, which
\* Run skips.
Proceed(target) == Goto("loop") /\ dbRip' = target /\ UNCHANGED <<dbStack, dbFrames>>

\* SYSCALL and INT 0x80, INT 3, HLT, a null RIP or an unreadable one.
Stops(result) == Ends(result) /\ UNCHANGED_Guest

\* ExecuteOne: the breakpoint test comes first.
RunExecute ==
    /\ At("execute")
    /\ IF dbCpu.armed[dbRip] # None THEN Stops("Breakpoint")
       ELSE \/ \E t \in DbAddrs : Proceed(t)
            \/ \E r, t \in DbAddrs : Call(r, t)
            \/ Return
            \/ ReturnPopping(1)
            \/ Push
            \/ PopData
            \/ \E res \in Results \ {"Ok"} : Stops(res)

Runner == /\ \/ RunEnter \/ RunUnpause \/ RunLoop \/ RunPause \/ RunAgain \/ RunExecute \/ RunLeave
          /\ UNCHANGED_Tables

-----------------------------------------------------------------------------
(* Cpu's control and breakpoint table.                                     *)

CpuStop == dbRun' = [dbRun EXCEPT !.running = FALSE]
CpuPaused(b) == dbRun' = [dbRun EXCEPT !.paused = b]

\* The table after AddBreakpoint, RemoveBreakpoint and ClearBreakpoints:
\* an address is armed for the last breakpoint set there, and disarmed by
\* the removal of any.
CpuAdd(addr) == [listed |-> dbCpu.listed \union {[id |-> dbCpu.next, addr |-> addr]},
                 armed |-> [dbCpu.armed EXCEPT ![addr] = dbCpu.next],
                 next |-> dbCpu.next + 1]
CpuRemove(id) ==
    LET gone == {b \in dbCpu.listed : b.id = id}
    IN  [dbCpu EXCEPT !.listed = @ \ gone,
                      !.armed = [a \in DbAddrs |-> IF \E b \in gone : b.addr = a THEN None ELSE @[a]]]
\* Mutant: the addresses stay armed.
CpuClearListOnly == [dbCpu EXCEPT !.listed = {}]
CpuClear == [dbCpu EXCEPT !.listed = {}, !.armed = [a \in DbAddrs |-> None]]

-----------------------------------------------------------------------------
(* Debugger.                                                               *)

NewBreakpoint(id, addr) == dbDbg.bps \union {[id |-> id, addr |-> addr]}

\* SetBreakpoint and AddConditionalBreakpoint: the condition is dropped, and
\* the CPU numbers the breakpoint on its own.
SetBreakpoint(addr) ==
    /\ dbDbg.next <= DbMaxIds
    /\ dbDbg' = [dbDbg EXCEPT !.bps = NewBreakpoint(dbDbg.next, addr), !.next = @ + 1]
    /\ dbCpu' = CpuAdd(addr) /\ UNCHANGED dbRun
AddConditionalBreakpoint(addr) ==
    /\ dbDbg.cond < FirstConditional + DbMaxIds
    /\ dbDbg' = [dbDbg EXCEPT !.bps = NewBreakpoint(dbDbg.cond, addr), !.cond = @ + 1]
    /\ dbCpu' = CpuAdd(addr) /\ UNCHANGED dbRun

\* The debugger's number is handed to the CPU as if it were the CPU's.
RemoveBreakpoint(id) ==
    /\ \E b \in dbDbg.bps : b.id = id
    /\ dbCpu' = CpuRemove(id)
    /\ dbDbg' = [dbDbg EXCEPT !.bps = {b \in @ : b.id # id}]
    /\ UNCHANGED dbRun

ClearAllBreakpoints ==
    dbDbg' = [dbDbg EXCEPT !.bps = {}] /\ dbCpu' = CpuClear /\ UNCHANGED dbRun

\* Pause and Continue; OnBreakpointHit, which a front end calls, leaves the CPU be.
DebuggerPause == dbDbg' = [dbDbg EXCEPT !.paused = TRUE] /\ CpuPaused(TRUE) /\ UNCHANGED dbCpu
DebuggerContinue == dbDbg' = [dbDbg EXCEPT !.paused = FALSE] /\ CpuPaused(FALSE) /\ UNCHANGED dbCpu
OnBreakpointHit == dbDbg' = [dbDbg EXCEPT !.paused = TRUE] /\ UNCHANGED <<dbRun, dbCpu>>

\* Init empties the debugger's tables and leaves the CPU's as they are.
DebuggerInit ==
    /\ dbDbg' = [bps |-> {}, next |-> 1, cond |-> FirstConditional, paused |-> FALSE]
    /\ UNCHANGED <<dbRun, dbCpu>>

\* Cpu::Init between runs: the context, the call stack and both breakpoint
\* tables, but not the breakpoint counter.
CpuInit ==
    /\ At("idle")
    /\ dbRun' = [dbRun EXCEPT !.running = FALSE, !.paused = FALSE]
    /\ dbRip' \in DbAddrs /\ dbStack' = <<>> /\ dbFrames' = <<>>
    /\ dbCpu' = CpuClear
    /\ UNCHANGED dbDbg

Controls ==
    \/ (CpuStop \/ CpuPaused(TRUE) \/ CpuPaused(FALSE)) /\ UNCHANGED_Tables
    \/ dbCpu.next <= DbMaxIds /\ \E a \in DbAddrs : SetBreakpoint(a) \/ AddConditionalBreakpoint(a)
    \/ \E b \in dbDbg.bps : RemoveBreakpoint(b.id)
    \/ ClearAllBreakpoints
    \/ DebuggerPause \/ DebuggerContinue \/ OnBreakpointHit
    \/ DebuggerInit

DbNext == Runner \/ (RunCall /\ UNCHANGED_Tables) \/ (Controls /\ UNCHANGED_Guest) \/ CpuInit

\* The thread in Run is scheduled; nobody has to resume or stop it.
DbFairness == WF_dbVars(Runner)

DbSpec == DbInit /\ [][DbNext]_dbVars

-----------------------------------------------------------------------------
\* Every armed address belongs to a breakpoint the CPU still lists, so no run
\* stops at a breakpoint nothing can remove (AddBreakpoint, RemoveBreakpoint
\* and ClearBreakpoints keep two tables).
ArmedIsListed ==
    \A a \in DbAddrs : dbCpu.armed[a] # None => [id |-> dbCpu.armed[a], addr |-> a] \in dbCpu.listed

\* The tracked call stack is the return addresses on the guest stack, in
\* order, whatever faulted on the way (CALL, RET and RET imm16).
CallStackTracks ==
    LET rets == Among(dbStack, [ret : DbAddrs])
    IN  dbFrames = [i \in 1 .. Len(rets) |-> rets[i].ret]

\* A stopped run that is not held paused returns, for a guest that never
\* stops by itself too (the loop of Run).
StopTakesEffect ==
    (At("loop") /\ ~dbRun.running) ~> (At("idle") \/ dbRun.paused \/ dbRun.running)

\* "Run until Halt / Fault / Breakpoint / Syscall or Stop() is called" (Cpu.h).
StopReturns == (dbRun.pc \in {"loop", "pause", "again"} /\ ~dbRun.running) ~> At("idle")
=============================================================================
