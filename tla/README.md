# ChuckStation5: a TLA+ model of the emulator

ChuckStation5 runs guest programs on a host. A loader and a process manager put
a program into memory, an execution manager starts and stops it, an interpreter
runs its code, a kernel runtime gives it threads, timers, semaphores, events,
mutexes, wait queues and IPC ports, and a number of services (memory, files,
shared memory, message queues, GPU, audio, input, debugger, save states) sit
around them. The docs (`docs/architecture.md`) give the direction of calls:
"Subsystem dependencies flow down from Runtime / Process through Execution, Cpu,
Syscalls, Memory, GPU, and KernelRuntime". Source paths below are relative to
`src/source/chuckstation5/`.

The project has four groups of modules: the kernel runtime and the process
manager, where host threads meet; the subsystem registry, the event bus, memory
and input, which the emulator is built on; the services a guest program calls;
and the machine that executes its code. Each is checked with TLC on a small
instance. TLAPS proves, for every value of the constants, the type invariant of
each specification, every safety invariant and safety action property of the
passing runs, and three refinements of abstract specifications: the blocking
objects of the kernel, the message queue and the save slots; the liveness
properties stay with TLC.

## 1. Inventory

### KernelRuntime (`src/KernelRuntime/KernelRuntime.cpp`)

| facility | state | operations | shared with | what is hard | correct when |
|---|---|---|---|---|---|
| handle table | `KernelState::handles`, `nextHandle`, `mtx` | Alloc, Get, CloseHandle, DuplicateHandle, GetHandleType, Init, Reset | everything with a `KHandle` | a number is drawn outside the lock and published inside it; an object outlives its handle through `shared_ptr`s; Init rewinds the numbers | a live handle keeps its object; every cast names the object's type |
| semaphores, events | value / signalled flag, attributes, a mutex and a condition variable each | Create, Wait with and without timeout, Signal, Set, Clear | callers | store under the mutex, notification after it; timeouts; early wake-ups; a sum made before it is clamped | no lost wake-up, no permit granted twice, waiters wake; each call is one operation on one object |
| mutexes | two host mutexes and a recursive flag | Create, Lock, TryLock, Unlock | callers | three operations must choose the same host mutex | mutual exclusion |
| guest threads | `KThread::state`, `info.exitCode`, `osThread` | CreateThread, StartThread, StopThread, JoinThread, CloseHandle, Reset | Process (main threads) | state, exit code and `std::thread` have no lock; `std::thread` terminates the program if it dies joinable | a successful join means the guest ended; nothing reaches `std::terminate` |
| timers | `KTimer::running`, `thread` | CreateTimer, StartTimer, StopTimer, CancelTimer, CloseHandle, Reset | guest callbacks | the timer's thread against stop, restart, close and reset | silence after StopTimer; the flag never lies; StopTimer returns |
| wait queues | `P6State::wqs`, `waiters`, a bare condition variable each | CreateWaitQueue, WaitOnQueue, WakeOne, WakeAll, DestroyWaitQueue | callers | a wait without a predicate; destruction around waiters | exact counts; timed waits return; destruction wakes everybody |
| IPC ports | `ipcByName`, `ipcByHandle`, a message queue each | CreateIpcPort, ConnectIpcPort, CloseIpcPort, IpcSend, IpcRecv | callers | `notify_one` for any mix of senders and receivers; client and server share the entry | FIFO, no message stranded, names lead to live ports |
| TLS, name registry, priorities, resource limits, statistics | keyed stores | get, set, register, look up | | stale handle numbers in the name registry | left out, see section 5 |

### Process (`src/Process/Process.cpp`)

State: the table `procs` (state, modules, main thread), `nextPid`,
`currentPid`, exit callbacks, all under one mutex, with loading, unloading and
thread control done outside it. Operations: Init, Shutdown, Create, Start,
RequestExit, Wait, Terminate, LoadModule, RegisterExitCallback and queries.
It calls Loader, KernelRuntime and Cpu; Execution registers a callback.
Hard: what is read under the mutex and used after it, two calls on one process,
callbacks that run with the mutex held. Correct when every module is unloaded
once, no process runs twice, and Terminate and Wait return.

### Runtime, RuntimeEvents, Memory, Input, Metrics

| part | state | operations | shared with | what is hard | correct when |
|---|---|---|---|---|---|
| Runtime (`src/Runtime/Runtime.cpp`) | `entries`, `initOrder` | Register, InitAll, ShutdownAll, InitOne, ShutdownOne, Reset | starts and stops the other parts through callbacks | Kahn's sort over any graph; failures half way; single starts and stops that repeat a subsystem in the order | dependencies run before and as long as their dependents; the result of InitAll tells what runs; ShutdownAll leaves nothing running |
| RuntimeEvents (`src/RuntimeEvents/RuntimeEvents.cpp`) | ring, handlers, counters, watchdog thread | Publish, Subscribe, Unsubscribe, Init, Reset, Shutdown, ConfigureWatchdog, KickWatchdog | every part publishes; Debugger's event browser subscribes | counters before the ring; handlers called under a lock; the watchdog publishes while it is stopped; two mutexes in two orders | unsubscribed handlers are silent; counters and ring agree; a stopped watchdog is silent; no lock cycle |
| Memory (`src/Memory/Memory.cpp`) | `regions`, counts | Reserve, Map, Commit, Protect, Unmap, Reset | Loader, KernelServices, DynamicLinker, SaveState | the system call is outside the mutex, so an address can have two entries | the table is what the host has mapped; unmapping releases everything |
| Input (`src/Input/Input.cpp`) | slots, SDL's controllers and their reference counts, hot-plug events | Init, Poll, Shutdown, the callbacks | SDL; the frontend | an event is handled long after it was queued, by a device index that has moved on | SDL's references are as many as the slots that hold them |
| InputMapping (`src/InputMapping/InputMapping.cpp`) | active profile, profile files | save, load, delete, activate, translate | Input, the frontend | dead zones, scales and inversions through a text file and back | a saved profile loads as it was; an axis stays in range |
| Metrics (`src/Metrics/Metrics.cpp`) | a histogram: buckets, count, sum, minimum, maximum, all atomics | Record, GetSnapshot, Reset | any thread records | nothing is locked: two recorders interleave between any two atomics | extremes, count and buckets lose no value; percentiles lie in the right bucket |

### Services of a guest program

| part | state | operations and interactions | what is hard, what makes it correct |
|---|---|---|---|
| KernelServices | shared memories, message queues, read-write locks, condition variables, one mutex | create, open, close, send, receive, lock, wait; Memory under the first, KernelRuntime mutexes beside the last | pages kept for every opener; a receiver gets a message none outranks; nobody sleeps on what is there |
| Filesystem | mounts, open files, host files, temporary files | mount, unmount, open, close, write, flush, remove, rename | Open in two halves around a host call; no writing below a read-only mount |
| SaveState | the file of each slot | save, load, delete; reads and writes Cpu and Memory | the guest runs on while Save copies; a full disk or a crash leaves a prefix; a restore comes from one complete save |
| Execution | program state, exit information, two mutexes | load, start, pause, resume, exit, terminate, faults; calls Process and is called back by it | test-then-set on the state; callbacks below two mutexes; the two never wait for each other |
| Loader, ModuleRegistry, DynamicLinker | mapped images, modules with references and dependencies, a symbol cache | load, retain, unload, resolve, reset | one image belongs to two tables; look-up and caching in two steps; what is held stays registered, the cache never names another module's symbol |
| Audio | ports with ring buffers, SDL's device | open, close, start, stop, the audio callback, Shutdown | rings smaller than a device buffer, wrap-around; what is heard is what was filled |
| GPU, CommandProcessor | fences, heap, command buffers | build, process, wait, signal, allocate, shut down | packets cut short; waits against signals; each command is carried out once, in order |
| Syscalls | the table of handlers; the break and its reserved range; mappings | Dispatch, brk, mmap, munmap, mprotect; Process::Create empties and fills the table | unsigned differences of a shrinking break; reservations and commits that fail half way; memory a guest was given stays with the rights it asked for |

### The machine

| part | state | operations and interactions | what is hard, what makes it correct |
|---|---|---|---|
| Cpu, arithmetic | registers, RFLAGS | the integer instructions | boundaries of the word; comparisons order as integers do |
| Cpu, run loop; Debugger | `running`, `paused`, breakpoints in two tables, tracked calls | run, stop, pause, set, remove, clear | two atomics read one at a time; a stop takes effect; no armed breakpoint is out of reach |
| ShaderCache | entries in use order, job queue, worker, file | look up, compile, queue, flush, invalidate, Init, Shutdown | a counter outside the queue's mutex; a flush returns |
| PerfTools, worker pool | tasks, `activeTasks`, `stop`, workers | Init, Submit, WaitAll, Shutdown | a count written with and without the mutex; WaitAll returns only after the tasks submitted before it, every task is run |

`PROJECT.json` lists these and the remaining parts with their status, and under
`hazards` the lines where something can go wrong that a test would hardly reach.

## 2. Modules

| module | models | actions |
|---|---|---|
| `KernelSync` | handle table, semaphores, events, mutexes | one per API call (its look-up), one per critical section, one per `notify_all`, plus early wake-ups and deadlines |
| `AtomicObjects` | what semaphores, events and mutexes promise (abstract) | one per operation that changes an object |
| `KernelThreads` | guest threads | one per load or store of the unlocked fields |
| `KernelTimer` | timers and their threads | likewise |
| `KernelWaitQueue` | wait queues | look-up, wait, return, wake, destroy |
| `KernelIpc` | IPC ports | tables, push, notify, take, time out |
| `KernelObjects` | the last four side by side | one facility in focus per behaviour |
| `Process` | process manager | one per stretch between two lock operations |
| `Sublists` | what loops build from sequences: the part picked out, the concatenation | operators |
| `KahnSort` | the topological sort that Runtime and DynamicLinker both write | an operator |
| `RuntimeManager` | subsystem registry | one per call, and in InitAll and ShutdownAll one per critical section and callback |
| `RuntimeEvents` | event bus, watchdog, event browser | one per critical section and per handler call |
| `MemoryRegions` | region table beside the address space | two per call: the system call and the table |
| `Input` | slots, controllers, hot-plug events | one per call; Poll drains SDL's queue in one step |
| `InputMapping` | profiles and their files, translation | one per call; translations are operators |
| `Histogram` | the histogram of Metrics | one per atomic operation, one per round of a compare-and-swap loop |
| `Subsystems` | `RuntimeManager` and the ones after it, side by side | one part in focus per behaviour |
| `KernelServices` | shared memory, message queue, read-write lock, condition variable | a look-up and a step under the entry's mutex per call |
| `PriorityMailbox` | what a message queue promises (abstract) | Put, Take, Lose |
| `Filesystem` | mounts, open files, host files | one per call, three for Open |
| `SaveState` | slots, Save and Load beside the running guest | one per part of a file, the guest's step, a crash |
| `AtomicSaves` | what save slots promise (abstract) | Begin, Write, Restore, Die |
| `Execution` | the program's life cycle | one per kind of step of a call: set the state, lock, call out, report |
| `ModuleLinking` | Loader, ModuleRegistry, the linker's cache | one per critical section of a load and of a look-up |
| `Audio` | ports, rings, the audio thread | one per call, two for the callback and for Shutdown |
| `GpuCommands` | command lists, fences, heap | one per packet, the steps of a fence wait |
| `Syscalls` | the table of system calls, the break, the mappings | the look-up and the handler of a call; one per entry of the table |
| `GuestServices` | `KernelServices` and the ones after it, side by side | one service in focus per behaviour |
| `CpuInterpreter` | integer instructions | one per instruction |
| `GuestDebugger` | the run loop, call tracking, breakpoints | one per load or store of the atomics, one per debugger call |
| `ShaderCache` | cache, job queue, worker | one per critical section |
| `TaskPool` | the worker pool of PerfTools | one per critical section and per access to an atomic outside it |
| `GuestMachine` | the last four side by side | one unit in focus per behaviour |
| `KernelSyncProofs`, `KernelObjectsProofs`, `ProcessProofs`, `SubsystemsProofs`, `KernelServicesProofs`, `GuestServicesProofs`, `MachineProofs`, `KahnSortProofs` | theorems | |
| `MC...` | instances for TLC, where one needs definitions of its own | |

How the state corresponds to the code:

* **Locks.** A critical section that cannot block is one step, so its mutex
  needs no variable; it is split wherever the code releases a lock (between
  look-up and use, between store and notification). A mutex that is held across
  a call that may block is a variable: `mtx` in `Process`, `exMtx` with its
  depth and `exProcMtx` in `Execution`, `auOwner` in `Audio`, the operation in
  `ssOp`. `KernelSync!hold` is the state of the guest's mutexes, which are data of
  the model.
* **Condition variables.** Sleeping is a label (or a label with "Asleep"); a
  notification moves sleepers to the label that tests the predicate again, or
  returns where there is no predicate (`KernelWaitQueue`). A sleeper may wake
  early at any time, and a timed one may see its deadline pass.
* **Unlocked fields.** `KThread::state`, `exitCode`, `osThread`,
  `KTimer::running`, `thread`, `Cpu`'s `running` and `paused`, `pendingJobs`,
  `workerRunning`, the pool's `stop` and `activeTasks` and the fields of a
  histogram are read and written one per step.
* **shared_ptr.** An object lives while the table, a call or a lambda refers to
  it (`Unreferenced` in `KernelSync`; `Called`, `Captured`, `Last` in
  `KernelThreads`). A `std::thread` destroyed or assigned while joinable sets
  `guestAbort` or `timerAbort`, after which nothing runs. Where the code keeps a
  raw pointer to an entry that may be deleted (`KernelServices`), what it does
  then is undefined and the thread has no further step.
* **Failed look-ups** return false and change nothing, so they have no step.
* **Data.** Message bytes, names, stack sizes, priorities and log lines are left
  out; an exit code is one value other than the initial 0. A sample of `Audio` is
  the number of the callback that asked the fill function for it. `SaveState`
  keeps the version of the registers and of the pages. An image of
  `ModuleLinking` is its base. A buffer of `GpuCommands` is a sequence of 4-byte
  cells and may be cut at any. `Filesystem` keeps the length of a host file.
  `Syscalls` counts memory in pages; a task of `TaskPool` is a value.
* **Words.** `CpuInterpreter` computes modulo `2^CpWidth` for any even width, so
  wrap-around, carry and sign come out as in `uint64_t`; the bitwise instructions
  work on the set of a word's bits that are 1, and RFLAGS is the set of flags that
  are 1. `SignalSemaphore` adds two `int32_t`s before it compares with the maximum
  (`KernelRuntime.cpp:558`): `Int32` wraps at `IntMax`, as the addition of the
  processors built for does. The language leaves the overflow undefined.
* **Event handlers** are a set; the vector of the code holds them in the order of
  their ids, so the one to call next is the one with the least.
* **External code.** The host's condition variables, `std::thread`, SDL and the
  system calls are modelled from how they are used here; the map marks those
  definitions.
* **Assumptions about callers.** `std::thread` must not be used by two threads
  at once, so in `KernelThreads` and `KernelTimer` callers take turns on one
  guest or timer; its own thread runs against them. Only the owner of a mutex
  unlocks it. A semaphore starts between 0 and its maximum and is signalled with
  positive counts. A timer is stopped before it is started again or closed
  (`Disciplined`), and a guest's handle is dropped after the `Evidence` the
  configuration names. The subsystem registry is driven by one thread. Jobs are
  not queued for shaders between the flush of a Shutdown and the next Init, nor
  tasks for the pool from the start of a Shutdown to the next Init, and Init has
  a worker to start. A histogram is reset while nobody records. A
  thread releases a module only as often as it was given it.
* **Constants.** Each module names what it assumes of its constants in an `ASSUME`,
  which TLC evaluates in every run. They say what the code guarantees: there are
  finitely many threads, shared-memory users, workers, pads and subsystem ids; the
  handles, sizes and counts are natural numbers, those of semaphores within
  `IntMax`, and a block of the GPU heap has an
  alignment of at least 1; the bounds of a histogram increase; a profile of
  `ImCustom` is one a user can make; every command of a list carries an operand
  for each of its fields, as the methods of CommandList write them
  (`GlListsBuilt`); a word has an even number of bits; the break's reserve ends
  inside the word.

In `RuntimeManager` the hash map's order of iteration is any order (`InitAll`
takes any sequence of the registered ids), callbacks succeed or fail freely, and
every dependency graph over the ids is registered by some behaviour. The table of
`RegisterDefaults` is `DefaultDeps`; `MCSubsystems` evaluates that it sorts
completely. In `RuntimeEvents` the time since the last kick has three values:
below the warning, below the timeout, beyond it. `MemoryRegions` counts addresses
in host pages, of which a `PAGE_SIZE` page has `MemUnit`; the hint of Map is not
binding, so a mapping lands on any free pages.

In `Execution` a call is the list of steps it has left (`exTodo`), and every
thread's steps interleave; a callback of the process manager puts its own steps
in front, so both lock orders appear. The guest program of `GuestDebugger` jumps,
pushes, pops, calls and returns as it likes, except that it returns to addresses
calls have left. In `SaveState` a file is the number of parts written; a crash
or a full disk stops at any of them. `Syscalls` is the build for Windows, which
the source is written for; elsewhere brk and mmap answer from malloc. Only tests
call Dispatch at this commit, so its callers are threads of the model.

`KernelObjects`, `Subsystems`, `GuestServices` and `GuestMachine` put parts into
one specification that share no lock and no field, so their steps commute, and a
formula about one of them holds of the interleaving exactly if it holds where
only that one steps; every behaviour therefore keeps to one of them (`focus`,
`part`, `service`, `unit`). Where a part does work on another's state, its
module holds that state: the processes in `Execution`, the CPU and the pages in
`SaveState`, the three tables of loaded code in `ModuleLinking`, both breakpoint
tables in `GuestDebugger`, the browser's mutex in `RuntimeEvents`.

**Refinements.** `AtomicObjects` says what semaphores, events and mutexes are to
their users: objects whose operations happen at one moment each. In `KernelSync` a
call is a look-up in the handle table, a critical section after any delay (the
handle may be closed and its number given to another object meanwhile), sleeps,
a notification and a return. Under `ObjectOf`, which forgets handles, labels and
sleepers and reads a mutex's owner and depth from the threads' holds, the
critical section that changes the object is the operation and everything else is a
stutter (`ObjectsAreAtomic`).

`AtomicSaves` says what save slots are to the player: a slot holds one whole save
or none that can be loaded, and a load puts the CPU and the memory back together at
one moment. In `SaveState` the parts are copied one after the other while the guest
runs, the file is overwritten in place up to any part, and a load writes the CPU
before the pages. A slot maps to the save that its file holds if Load accepts the
file, and to none otherwise; the machine to the save it was restored from, where in
the middle of a load (`MidLoad`) the CPU counts as it did before. The first step of
Save is Begin, writing or deleting the file is Write, the step that restores the
pages is Restore, and a crash, which may come while a file is written, is Die
(`SavesAreAtomic`).

`PriorityMailbox` says what a message queue is for: a bounded box
from which a receiver takes a message none outranks. `KernelServices` inserts into
a sorted vector after a look-up, with sleepers, time-outs and a close that deletes
the queue. Its queue implements the mailbox under the mapping
`box <- messages in the vector`, `taken <- ksTaken` (`MqIsMailbox`); closing maps
to `Lose`, everything that moves no message to a stutter.

Operators named "Mutant: ..." are variants of the definition after them with a
plausible mistake in it. Nothing uses them in the specifications; each shows
that the property it is paired with in `PROJECT.json` notices that mistake.

## 3. Runs

Several small properties about one part are conjoined under one name; the
conjuncts are in brackets.

| run | instance | shows |
|---|---|---|
| `sync_waits` | 3 threads, 1 semaphore or event, maxima and counts up to 2 under an `INT32_MAX` of 3, 2 handle numbers | `NoLostWakeup`, `PermitsConserved`, and, under fairness, `WaiterWakes` |
| `sync_handles` | 2 threads, 2 objects of any kind, 3 handle numbers, Reset and Init | `TypedAccess`, `HandleStable`, `ObjectsAreAtomic` (which includes that mutexes exclude) |
| `objects_safe` | 2 callers and 2 guests; a one-shot and a periodic timer with 2 starts each; 3 threads at a wait queue; 3 peers, 2 port handles | `JoinsSound` (`JoinSound`, `UntimedJoinExitCode`), `NeverAborts`, `TimersSettle` (`StopQuiesces`, `RunningIsServed`), `QueuesServe` (`WaitersExact`, `FifoDelivery`, `NoStrandedMessage`, `NamesLive`) |
| `objects_live` | the same, smaller and without symmetry | `CallsReturn` (`JoinReturns`, `StopReturns`, `TimedWaitReturns`), `ReceiverWakes` |
| `process_safe` | 2 threads, 2 processes, 2 modules each, 1 callback | `ManagerSound` (`ModulesAccounted`, `OnlyWaitBlocks`), `TerminateReturns` |
| `subsystems` | 3 subsystem ids with every dependency graph, 4 places in the order; 1 guest that publishes beside the watchdog, 2 events and 2 handlers beyond theirs, a ring of 2; 2 threads, 6 host pages, regions of 2 and 4; 3 pads, 4 slots, 2 frames; 2 profile names, the built-in profiles and a custom one; 2 recorders, 3 buckets, 4 values, 3 records | `RegistryOrder` (`DepsRunning`, `InitAllComplete`, `TeardownComplete`), `EventsSound` (`CalledIsRegistered`, `RingAgrees`, `WatchdogQuiet`, `NoLockCycle`), `TableMatchesOs`, `InputSound` (`PadRefsExact`, `SavedIsLoaded`, `AxisInRange`), `HistogramExact` |
| `services` | 3 threads, 2 shared memories, a queue of 2 places and 3 messages of 2 priorities; 1 opener, 2 mounts, 1 handle; 2 slots, 2 regions, 2 saves, 2 guest steps; 2 hosts and the guest, 1 load; 2 loader threads, a file that imports itself, 2 bases, 2 ids; 2 hosts, rings of 1 and 3 under a device buffer of 2, 2 ports; 2 GPU threads, 2 lists, whole or cut by 3 cells, 2 fences, a heap of 6; 1 calling thread, words of 16 pages, a reserve of 4, 1 region of up to 2 | `SharedObjectsServe` (`ShmAlive`, `MqNobodyForgotten`), `MqIsMailbox`, `WritersAreAllowed`, `SavesAreAtomic` (which includes `LoadedFromOneSave`), `ExecNoLockCycle`, `ModulesConsistent` (`HeldIsRegistered`, `DepsBeforeModules`, `CacheNotMisattributed`), `HeardAsFilled`, `CommandsCarriedOut` (`DecodesWhatWasBuilt`, `NoSleepOnSignalled`, `AllocsDisjoint`), `GuestMemoryKept` (`HeapCommitted`, `MapsKept`) |
| `machine` | words of 4 bits, 2 registers, operands of 2 bits; 2 addresses, 1 breakpoint, 2 cells of stack, 1 run; 2 clients, 2 keys, 2 entries, 2 jobs, 2 starts; 2 workers, 1 client, 2 tasks, 2 Inits | `ArithmeticExact` (`ComparesOrder`, `SignedProductExact`), `ArmedIsListed`, `WorkTracked` (`CallStackTracks`, `PendingExact`, `ActiveExact`, `PoolDrains`), `WaitAllSound` and, under fairness, `StopTakesEffect`, `WorkersServe` (`FlushReturns`, `TasksRun`) |

Each specification's type invariant (`TypeOK`, `ObjectsTypeOK`,
`SubsystemsTypeOK`, `ServicesTypeOK`, `MachineTypeOK`) is checked once, in the
first run of it.

Four runs end in a counterexample; each states what a comment, a header or a
test says, and the trace is what the code does:

| run | statement | what happens |
|---|---|---|
| `queue_destroy` | destroying a wait queue wakes all waiters with an error | an untimed waiter is told that it was woken normally; a thread that is about to wait is not woken at all |
| `process_wait` | Wait returns when the process terminates | it locks `ProcState::mtx` and calls `FireExitCallbacks`, which locks it again |
| `memory_unmap` | Unmap decommits and releases a range | Map rounds the size up, Unmap does not: the last host pages stay mapped and untracked |
| `shader_shutdown` | Shutdown of the shader cache returns | it clears `workerRunning` and notifies without `jobMtx`; a worker between its test and its sleep misses both, and the join waits for ever |

**Formulas that do not hold.** The modules also state the following, which TLC
refutes and no run is spent on:

| formula | stated by | what the code does |
|---|---|---|
| `GuestDebugger!StopReturns` | `Cpu.h`: Run until Stop is called | a Stop that meets a paused run waits for Resume; one that comes before Run stores `running` is lost |
| `CpuInterpreter!AddCarries` | `Cpu.h`: CF is the carry | `Cpu.cpp:190` compares two 64-bit words, so a 64-bit addition never sets it |
| `Execution!ExitInfoKnown` | `Execution.h:165` | a program that is terminated or exits leaves no exit information |
| `Filesystem!ReadOnlyKept` | `Filesystem.h` calls `/app0/` and `/system/` read-only | Remove and Rename do not look at `readOnly` |
| `SaveState!SnapshotIsOneMoment` | `SaveState.h`: a snapshot of the full state | the guest runs while the parts are copied one after the other |
| `KernelServices!CondWaitReleasesMutex` | `KernelServices.h` pairs the two | WaitCondVar neither releases nor retakes the mutex it is given |
| `ModuleLinking!ImportsStayMapped` | `CanUnload` | Unload does not ask it: an image others were linked to is unmapped |
| `Audio!AudioNoLockCycle` | | Shutdown closes the device with the mutex held, SDL waits for the callback, the callback waits for the mutex |
| `GpuCommands!AllocsAreMapped` | the message at the heap's Init | after Shutdown the heap hands out offsets from a base it does not have |
| `Input!NoGhostPads` | | a pad that was opened twice is closed once and stays in a slot |
| `InputMapping!OneToOne` | | in a built-in profile an earlier entry hides a later one with the same source |
| `KernelIpc!ClientCloseKeepsName` | | the name goes when anybody closes, since client and server share the entry with the flag |
| `TaskPool!WaitAllReturns` | `test_perf_tools.cpp:184` calls WaitAll and goes on | a worker counts down and notifies without the mutex: a waiter between its test and its sleep misses the last notification |
| `TaskPool!PoolStops` | | Stop stores and notifies without the mutex, as the shader cache does: a worker may sleep through it and the join waits for ever |
| `Histogram!SumExact` | | the sum is loaded and stored in two steps (`Metrics.cpp:52`): one of two recorders is lost |
| `Syscalls!BreakIsMapped` | | when the reservation fails `brkBase` stays null, and a break of 16 to 64 MB is committed wherever the host likes |
| `Syscalls!BuiltinsAnswer` | | creating a process empties the table and fills it again while another process may call |
| `Syscalls!GuestMemoryKept`, without `SyWhole` | | munmap of a part of a mapping releases all of it |
| `Process!TerminateCleans` | `Process.h` | a module loaded before and attached after a Terminate stays loaded |
| `KernelSync!ObjectsAreAtomic`, without `SumsFit` | `KernelRuntime.h:82`: the maximum is `INT32_MAX` unless a caller says otherwise | the sum is made before it is clamped: a full semaphore of that maximum that is signalled goes to `INT32_MIN`, and no wait gets through for 2^31 signals |
| `KernelThreads!NeverAborts`, with timed joins as `Evidence` | | a timed join returns true without joining when the guest ends after its last look; the handle's destruction then calls `std::terminate` |

More things the models show. `Reset` detaches timer threads but not guest
threads, so resetting the kernel with a guest that ended and was not joined
destroys a joinable `std::thread`; the passing runs allow Reset only after the
evidence in `Evidence`. A timer thread that has tested `running` makes its
callback after `Reset` has returned. And `WakeOne` leaves the choice of the
thread to the host, although the header promises FIFO order
(`KernelRuntime.h:191`). InitAll passes over subsystems on a cycle and ones with
an unregistered dependency and still returns true, and leaves an optional one
whose dependency failed in the state Initialising. InitOne and ShutdownOne do
not touch dependencies or dependents, which `Runtime.h` says they do; the model
has callers who see to it themselves. `Memory::Reset` forgets regions that were
reserved and never committed without releasing them (`Memory.cpp:165`), although
`Memory.h:85` says "Release all tracked regions"; the model's callers commit
first. A Protect that meets the old entry of its base updates that one.
`Execution` calls `Debugger::Init` on every load, after which another
AttachEventBrowser subscribes a second handler while the first one is still
there, and the two orders of its mutexes can block both threads for ever; the
model's debugger is initialised again only after the bus has dropped the handler.
DIV looks at RAX alone (`Cpu.cpp:956`), and a signed division whose quotient does
not fit traps the host (`Cpu.cpp:963`), which `CpuInterpreter` shows as
`"HostTrap"`. A break never shrinks: the difference of sizes wraps and the host
refuses it, and an address below 16 MB is echoed without moving anything
(`Syscalls.cpp:99`). A save that fails or is cut off has already lost the previous
one.

**Why the bounds are enough.** Every race here is between one object and at most
three parties: the one that changes it, the one that waits, and one that closes,
steals or times out. Three threads give all three parties at once (`sync_waits`,
wait queues, ports, message queues); where an object has one call at a time and
one thread of its own, two callers suffice. Two permits and counts up to 2
separate "one waiter may go" from "all may". With an `INT32_MAX` of 3 a semaphore of
maximum 2 that is full overflows when it is signalled by 2, and one of maximum 1 never
does; in `sync_handles` no sum overflows, so `SumsFit` holds. Three handle numbers let a number
be closed, duplicated and reused while a call still holds the object. Two starts
of a timer are the first place where a restart can meet the previous thread. Two
port handles make a client and a server, or a port that takes over a name. Two
processes let one be current while the other is terminated. Three subsystem ids
have chains, forks, joins, cycles and missing dependencies; four places in the
order let a stopped one be started again. A ring of two overflows with the
events the bounds allow, and the guest, the watchdog and the control thread are
the three parties of the event bus. Six host pages hold three regions, so a base
can be reused with another size beside a third region. Three pads
beside the keyboard fill the four slots, and fewer do when one is opened twice.

A queue of two places is full, empty and in between, and three messages of two
priorities need both ways of inserting. One opener suffices for the file system,
since the mounts change under it by themselves; two mounts are a read-only one
and the one for temporary files, and either may lie on either directory. Two
saves let one interrupt the other's slot. One load, two hosts and the guest
are every lock order `Execution` has. Two threads, two bases and two ids let a
file be loaded twice at once, and its place and number be taken again. Rings of
one and three below a buffer of two are too short and wrap. The cut of three
cells ends a list inside a field, at a field and inside a label. Words of four
bits have every carry, sign and overflow case of a wider word, and the theorem
covers every even width. Two keys with up to two entries evict. One client of the pool submits two
tasks to two workers and waits for both, and workers and control thread race
against it; one thread of system calls suffices because the break has a mutex and
every handler is one step. Two recorders
lose an update if one can be lost, and three buckets have a first, an inner and
an overflow one; three records put the percentiles in different ones. Sixteen
pages to a word leave room for a break below, inside and beyond a reserve of four.

Bounds are constants named in the guards (`MaxHandle`, `MaxCredit`, `MaxDepth`,
`MaxStarts`, `MaxPort`, `MaxSent`, `MaxPid`, `MaxModules`, `MaxCallbacks`,
`RtMaxOrder`, `EvMaxEvents`, `EvMaxHandlers`, `MemMaxTable`, `InMaxFrames`,
`KsMaxShm`, `KsCapacity`, `FsMaxFd`, `FsMaxLen`, `SsMaxSaves`, `SsMaxSteps`,
`ExMaxLoads`, `MlMaxBases`, `MlMaxIds`, `MlMaxHolds`, `AuMaxPorts`, `AuStamps`,
`GlMaxFences`, `GlHeapSize`, `DbMaxIds`, `DbStackDepth`, `DbMaxRuns`,
`ShMaxEntries`, `ShMaxJobs`, `ShMaxStarts`, `TpMaxStarts`, `HgMaxRecords`,
`HgMaxValue`, `SyMaxLen`). What section 4 proves holds for every value of
them and for every number of threads, objects, slots and regions.

**Deadlock** is checked in `sync_waits`, `sync_handles` and `subsystems`. The other
configurations switch the check off: after `std::terminate`, when all bounds are
used up, when a thread waits for a message nobody sends, when Audio's Shutdown
meets the callback, after a run of the CPU has ended for good, when a worker or
a WaitAll of the pool has slept through its notification, the system may stop.

**Fairness.** The host runs every thread that can run, so the steps inside a
call that has begun are weakly fair, and so are the lambda of a guest after its
entry function has returned, a timer's thread, the thread inside `Cpu::Run`, the
shader cache's worker and its control thread, and the push of a job already
counted; a task of the pool returns in the end. In `Process`, and for the pool's
workers and clients where they wait for its mutex, they are strongly fair,
because a thread that waits for a contended mutex gets it in the end but the
mutex is not free all the time. Never
assumed: that a caller calls, that a paused run is resumed, that an entry
function returns, that a condition variable wakes early. A deadline passes in
`KernelWaitQueue`, where a property is about it, and nowhere else.

## 4. Proofs

Every theorem is about the specification the runs check, for every value of the
constants that the named assumptions allow. An invariant that a run checks is
seldom inductive. Each proof therefore names a stronger one, shows that the
initial states have it and that every action keeps it, with one step per action
and below it the conjuncts that the action can disturb, and concludes by temporal
logic. Lemmas over a component's operators come first; those that several
components need are in `KahnSortProofs` and in the sections of `GuestServicesProofs`
and `SubsystemsProofs` that come before their use.

The provers have no induction over data. Where an argument needs it, the set of
numbers for which the claim holds is shown to have no least missing one
(`CountingUp`), and a function that is defined by recursion is first shown to
exist and then to be the one that the definition chooses (`RecursionExists`,
`PicksExist`, `AmongGiven`). Cardinalities of sets of threads stand for the
counters that the code keeps.

### KernelSyncProofs

From `SyncAssumption` alone (the kinds of the constants, that the null pointer
is no object, that maxima and counts are `int32_t`s and counts positive), for any
number of threads, objects and handles:

| theorem | states | inductive invariant and argument |
|---|---|---|
| `TypeCorrect` | `[]TypeOK` | `TypeInv`: a hold count could go below zero unless a thread on its way to unlock owns the mutex (`UnlockOwned`), and a call past its look-up holds an object (`InCall`) |
| `CastsCorrect` | `[]TypedAccess` | `TypedInv`: an object a call refers to is not reused, so its kind stays what `Get` compared; `SignalKinds` ties each label to its kind |
| `WakeupsKept` | `[]NoLostWakeup` | inductive with `TypeInv`: a step that makes a predicate true is followed by its own notification, and one that notifies leaves no sleeper on the object |
| `PermitsCorrect` | `[]PermitsConserved`, overflow included: no more waits are granted than were signalled, and a semaphore whose maximum leaves room for a count (`Fits`) never goes below 0 | inductive with `TypeInv`, `TypedInv` and `AsGiven` (maxima and counts are those of the configuration): every grant retests the predicate in the critical section that takes, and a sum that wraps is smaller than the true one |
| `MutexesExclude` | `[]MutualExclusion` | inductive with `TypeInv`: an acquisition needs every other count to be 0 |
| `HandlesStable` | `HandleStable` | `HandleInv`: a number drawn and not yet published is below `nextHandle`, is in nobody else's hands and is not in the table |
| `KernelIsAtomic` | `ObjectsAreAtomic`, the refinement of `AtomicObjects`, if no sum under way passes `INT32_MAX` (`SumsFit`) | with the invariants above; one lemma per operation says which step of the objects a critical section is, and one that every other step leaves `ObjectOf` alone |
| `SumsAlwaysFit` | `[]SumsFit`, if every maximum leaves room for every count | the value is at most the maximum |

### KernelObjectsProofs and ProcessProofs

| theorem | states | inductive invariant and argument |
|---|---|---|
| `ObjectsTypeCorrect` | `[]ObjectsTypeOK` | `ThreadsInv`, `TimersInv`, `QueuesInv` and `PortsInv` together; a wait queue's count stays natural because it is the number of threads inside (`WaitersExact`) |
| `JoinsReportTheTruth` | `[]JoinsSound` | `ThreadsInv`: callers take turns on one guest (`TakeTurns`); `GuestOK` ties what the guest's unlocked fields can say to where its thread is, `CallOK` what a call has read to what still holds |
| `NobodyAborts` | `[]NeverAborts`, if no timed join counts as evidence (`NoTimedEvidence`) and timers are stopped first (`Disciplined`) | `ClosedDetached`: a guest without a handle is not joinable; `TimerFree`: where the handle may be destroyed or assigned, no thread is attached. Without the first hypothesis TLC has a counterexample (section 3) |
| `TimersSettleDown` | `[]TimersSettle` | `TimersInv`, without any discipline of the callers |
| `QueuesServeAll` | `[]QueuesServe` | `QueuesInv`; `PortsInv`: a peer past its look-up has a port that exists, what was sent and what was received differ by the queue, and a queued message has an awake receiver or a notification on its way |
| `ProcessTypeCorrect`, `EveryModuleAccounted` | `[]TypeOK`, `[]ModulesAccounted` | `ProcInv`: the modules of a process are those its entry lists and those a LoadModule or a Terminate has in hand; the sum over the calls is the cardinality of a union of disjoint sets, so a step of one call moves exactly its own share |
| `OnlyWaitsBlock`, with the line above `ManagerStaysSound` | `[]OnlyWaitBlocks`, `[]ManagerSound` | `HolderInv`, which adds that only a Wait joins and reaps and that whoever calls the callbacks has the mutex (`WaitSteps`). This is the safety half of `TerminateReturns` |
| `HungForGood` | a Wait that has called FireExitCallbacks stays there with the mutex for ever, whatever the others and Shutdown do | every step that takes or gives up the mutex needs it free or its own; with `process_wait`, which reaches such a state, this says that the hang is permanent |

### KahnSortProofs and SubsystemsProofs

`KahnOrdersAllThatCanBe` says what the sort of `Runtime` and of the linker
computes for every finite graph and both orders of the hash map: a sequence
without repetition, each node after all it depends on, of exactly the nodes that
can be ordered. Those are given without reference to the algorithm: the nodes of
the sets that depend on nothing outside themselves and have no cycle, so that in
any group of them one depends on none of the group (`Grounded`).

| theorem | states | inductive invariant and argument |
|---|---|---|
| `RegistryKeepsOrder` | `[](DepsRunning /\ InitAllComplete /\ TeardownComplete)` | `RtInv`: the place of a subsystem in the order comes after its dependencies', and what a call still has to do has nothing before it that it needs (`Followed`, `Preceded`, `OnTheWay`); uses `KahnOrdersAllThatCanBe` |
| `EventsAlwaysSound` | `[](CalledIsRegistered /\ RingAgrees /\ WatchdogQuiet /\ NoLockCycle)` | `EvInv`: the thread with the bus's mutex is the one that dispatches, to handlers that are subscribed (`BusLocked`), where the watchdog may be once it was told to stop, that no two events have one number (`NumbersDiffer`), and that the ring holds as many as were pushed or as it can (`RingFilled`) |
| `EventsStaySound` | `[]EventsSound`, the property of the run | the line above, for the registry, the bus and the others side by side |
| `HistogramsExact` | `[]HistogramExact` | `HgInv`: a bucket, the count and the two extremes are each what was recorded, less what the recorders at the steps before still owe; the compare-and-swap loops keep the extremes, and the percentile of a snapshot at rest lies in the bucket that the rank falls into |
| `InputAlwaysSound` | `[]InputSound` | `InInv`: SDL's count for a controller is the number of slots that hold it, and the keyboard's slot keeps none. `ImInv`: each file is what `WriteProfileIni` wrote of the entries saved, and reading picks out the sections in their order |
| `TableDescribesAddresses` | `[]TableMatchesOs`, if sizes are whole pages (`WholePages`) | `MemTypeInv`: the reserved bytes are the number of pairs of an entry and a page of it. `MemTables`: what the table's owners hold and what is about to arrive tile the mapped pages; a base has one entry for its owner, which is the last, and one for each Unmap still to remove its own. Without the hypothesis `memory_unmap` has a counterexample |
| `SubsystemsTyped` | `[]SubsystemsTypeOK` | the above, and that the sum of a histogram stays below the number of its stores times the largest value (`HgBounded`), though stores may be lost |
| `SubsystemsKeepPromises` | the invariants of the run that need no hypothesis, side by side | the parts share no field |

### KernelServicesProofs

| theorem | states | inductive invariant and argument |
|---|---|---|
| `KernelServicesTyped` | `[]KsTypeOK` | `KsInv` |
| `SharedObjectsAlwaysServe` | `[]SharedObjectsServe` | `ShmInv`: the reference count is the number of openers, so it reaches 0 with the last. `MqInv`: while a receiver sleeps, the queue has no more messages than receivers are awake in it, and the same for senders and free places (`EnoughAwake`) |
| `QueueIsMailbox` | `MqIsMailbox`, the refinement of `PriorityMailbox` | the vector is ordered by priority (`Ordered`) and a message a sender still carries is neither in it nor taken (`InFlightApart`), so inserting is Put, receiving is Take, closing is Lose, and everything else leaves the box as it is |

### GuestServicesProofs

| theorem | states | inductive invariant and argument |
|---|---|---|
| `WritersOnWritableMounts` | `[]WritersAreAllowed` | `FsInv`: what Open lets through is what the mount allowed when it was resolved, and a mount that allows writing has been recorded as one that did; it may change between the two halves |
| `GuestKeepsMemory` | `[]GuestMemoryKept`, if guests unmap what they mapped (`SyWhole`; without it TLC refutes the formula) | `SyInv`. The weight is on `MoveBreakKeeps`: a growing break commits exactly the pages between the sizes, a shrinking one asks for so many that no reserve holds them |
| `LoadsFromOneSave` | `[]LoadedFromOneSave` | `SsInv`: while a Load runs its file is complete and stays so; how far the Load has come tells what has been restored |
| `SlotsHoldWholeSaves` | `SavesAreAtomic`, the refinement of `AtomicSaves` | `SsInv` (how far a Load has come tells what has been restored, and its file stays complete) and `SaveNumbers`: every Save and every file that Load accepts has a number; one case per step of `SaveState` says which step of the slots it is |
| `FrameworkLocksInOrder` | `[]ExecNoLockCycle` | `ExInv`: whoever has the mutex has only the end of a scope before it, and in the steps the others have left every lock is followed by its unlock (`ScopesClosed`); a callback splices its own steps in front without breaking that; there are no more callbacks than processes |
| `CacheNamesItsModule`, `DependenciesStay`, `RegistryConsistent` | `[]CacheNotMisattributed`, `[]DepsRegistered`, `[]ModulesConsistent` | `LinkInv`: a module's name and address never change under its id, and an id a look-up found is never given again. `RegistryInv`: the count of a module is at least what threads hold (`HeldCounted`), dependencies have smaller ids, the order lists every module once; with Kahn's sort the linker's order follows |
| `PortsHeardAsFilled` | `[]HeardAsFilled` | `AuInv`: between two callbacks every ring is drained (`AllDrained`); within one, what was written from the write position on is read from there, wherever both wrap |
| `FencesWakeSleepers` | `[]NoSleepOnSignalled` | `FenceInv`: a thread that found the flag down and is about to sleep holds the fence's mutex (`DozersHold`), and handles in use are below the counter |
| `HeapBlocksDisjoint` | `[]AllocsDisjoint` | `HeapInv`: blocks end below the pointer; rounding up never goes back |
| `ListsDecodeAsBuilt` | `[]DecodesWhatWasBuilt` | `ListsInv`: the position is where a packet begins and all before it were carried out as built, or it is the end of the buffer, behind a packet that was cut short. `PacketLaidOut` says where each field of a packet lies, `FieldsRead` that reading follows, `DecodesPacket` that a step ends at the next packet |
| `CommandsAreCarriedOut` | `[]CommandsCarriedOut` | the three above |
| `ModulesTyped`, `ServicesTyped` | `[]MlTypeOK`, `[]ServicesTypeOK` | types of what a thread carries between the steps of a load or an open, and that what Reset writes out for a host file is a natural number |
| `ServicesSideBySide` | `Spec` implies the specification of each service | a step of one leaves the variables of the others alone |
| `ServicesKeepPromises` | what each promises alone, the two refinements included, holds of all together; only `GuestMemoryKept` needs `SyWhole` | from the line above |

### MachineProofs

| theorem | states | inductive invariant and argument |
|---|---|---|
| `ArmedBreakpointsListed` | `[]ArmedIsListed` | `TablesInv`: an address is armed with a number below the counter and listed with it; removing searches by number and clears the address found there |
| `WaitAllCorrect`, `NothingDropped` | `WaitAllSound`, `[]PoolDrains` | `PoolInv`: a task submitted is queued, held by a worker or done (`TasksPlaced`), `activeTasks` is the number of workers that run or have just run one (`ActiveExact`), and a worker leaves only an empty queue of a pool that stops |
| `MachineTypes` | `[]MachineTypeOK` | all invariants of this table; a word stays one under every instruction |
| `WorkIsTracked` | `[]WorkTracked` | the tracked frames are the return addresses on the stack (`Tracks`); `ShInv`: the pending jobs are those queued, those counted and not yet queued, and the one being compiled; none is left once FlushQueue has let Shutdown go on |
| `InterpreterIsExact` | `ArithmeticExact` | for any even width: the flags of a subtraction order its operands as integers, for each conditional jump, and the signed product is the product. Powers of two are a recursive function, whose values halve and double as they should |

### Only model-checked

The liveness properties (`WaiterWakes`, `CallsReturn`, `ReceiverWakes`,
`TerminateReturns`, `StopTakesEffect`, `WorkersServe`) rest on fairness and
`ENABLED`, which the prover does not handle. Every other property of a passing run
is stated by a theorem. `NobodyAborts`, `TableDescribesAddresses`,
`GuestKeepsMemory` and `KernelIsAtomic` (by `SumsAlwaysFit`) have a hypothesis on the
constants, which the instance TLC checks satisfies too; what the code does
otherwise is in section 3.

Folds of the community modules, `SelectSeq`, `Bitwise` and `RECURSIVE` operators
cannot be reasoned about here; the models build sequences with the recursive
functions of `Sublists` instead and words as sets of bits.

## 5. Not modelled

* Thread-local storage, the name registry, priorities, affinity, limits and
  statistics of KernelRuntime; spin locks, scheduler calls and statistics of
  KernelServices: keyed stores that nothing acts on.
* The registry under calls from two threads, or from inside a callback (which
  InitAll allows and the calls that hold the mutex do not); the event bus under
  calls from its handlers. The timeline, profile marks and category counters of
  RuntimeEvents; the committed bytes, the heap and the readability probes of
  Memory.
* Two host threads inside StartThread, StopThread or JoinThread of one guest at
  once: the `std::thread` object itself is then raced on.
* Guest code that calls back: StopTimer from a timer's own callback, the process
  manager from an exit callback of its own.
* Reading, seeking and directories of Filesystem; volumes, formats and positions
  of Audio; render targets and draws of GPU; pad contents, rumble, recording of
  Input; watches, memory views and the disassembler of Debugger; memory operands,
  decoding, LAHF and SAHF of Cpu; ELF parsing of Loader: data, or calls handed on.
* The linker's own relocation table: nothing in the code ever fills it.
* Reading, writing, exit, clocks and the futex and ioctl stubs of Syscalls, its
  statistics and its log; frame history, benchmarks and profiles of PerfTools;
  counters, gauges, the registry and the exports of Metrics: they answer or
  record and act on nothing that is kept.
* Kernel is a layer over the host's memory calls that only tests use; KytyAdapter
  forwards; Config is a key-value store with a parser; Logger and MemoryDiag keep
  what is reported; CrashHandler writes files from signal handlers; UI, Renderer
  and main are host windows and Vulkan.

## 6. Plan

What is left, most useful first:

1. Abstract specifications for what is left: a set of owned regions refined by
   `MemoryRegions`, and the life cycle of a program refined by `Execution`. A FIFO
   channel for `KernelIpc` would say no more than `FifoDelivery` does.
2. Negative and zero counts of `SignalSemaphore`, and initial values beyond the
   maximum, once the repository has callers that pass them.
3. Liveness of the services: a fence waiter wakes, a sender to a queue with room
   returns, a loaded program that exits is reported.
4. The event bus under calls from its handlers and the registry under concurrent
   calls, once the repository has callers that make them.
5. Larger instances of `GuestServices` with one service each: two loads, two
   files that import each other, two openers.
