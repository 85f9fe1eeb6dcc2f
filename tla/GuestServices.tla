---------------------------- MODULE GuestServices ----------------------------
(***************************************************************************)
(* The services a guest program runs on: the shared memories, message      *)
(* queues and locks of KernelServices.cpp, the file system, save states,   *)
(* the execution manager, the loader with its registry and linker, audio,  *)
(* the GPU's command lists, fences and heap, and the system calls.  Each   *)
(* has its own mutex, and no two share a field; as in KernelObjects each   *)
(* behaviour keeps to one.  Where one calls another (the execution manager *)
(* calls the process manager, save states the memory manager) the caller's *)
(* module has the callee's part.                                           *)
(***************************************************************************)
EXTENDS KernelServices, Filesystem, SaveState, Execution, ModuleLinking, Audio, GpuCommands, Syscalls

CONSTANT Services   \* the services to look at

ASSUME ServicesAssumption ==
    Services \subseteq {"shm", "mq", "locks", "files", "saves", "execution", "modules",
                        "audio", "lists", "heap", "syscalls"}

VARIABLE service

serviceVars == <<service, ksVars, fsVars, ssVars, exVars, mlVars, auVars, glVars, syVars>>

ServicesTypeOK ==
    /\ service \in Services
    /\ KsTypeOK
    /\ FsTypeOK
    /\ SsTypeOK
    /\ ExTypeOK
    /\ MlTypeOK
    /\ AuTypeOK
    /\ GlTypeOK
    /\ SyTypeOK

\* The files the host has matter to the file system only.
Init ==
    /\ service \in Services
    /\ KsInit
    /\ FsInit
    /\ service # "files" => \A d \in FsDirs : ~fsHost[d].there
    /\ SsInit
    /\ ExInit
    /\ MlInit
    /\ AuInit
    /\ GlInit
    /\ SyInit

StepKernel ==
    /\ \/ service = "shm" /\ KsShmNext
       \/ service = "mq" /\ KsMqNext
       \/ service = "locks" /\ KsLockNext
    /\ UNCHANGED <<service, fsVars, ssVars, exVars, mlVars, auVars, glVars, syVars>>

StepFiles ==
    /\ service = "files"
    /\ FsNext
    /\ UNCHANGED <<service, ksVars, ssVars, exVars, mlVars, auVars, glVars, syVars>>

StepSaves ==
    /\ service = "saves"
    /\ SsNext
    /\ UNCHANGED <<service, ksVars, fsVars, exVars, mlVars, auVars, glVars, syVars>>

StepExecution ==
    /\ service = "execution"
    /\ ExNext
    /\ UNCHANGED <<service, ksVars, fsVars, ssVars, mlVars, auVars, glVars, syVars>>

StepModules ==
    /\ service = "modules"
    /\ MlNext
    /\ UNCHANGED <<service, ksVars, fsVars, ssVars, exVars, auVars, glVars, syVars>>

StepAudio ==
    /\ service = "audio"
    /\ AuNext
    /\ UNCHANGED <<service, ksVars, fsVars, ssVars, exVars, mlVars, glVars, syVars>>

StepGpu ==
    /\ \/ service = "lists" /\ GlListsNext /\ UNCHANGED glHeap
       \/ service = "heap" /\ GlHeapNext /\ UNCHANGED <<glWork, glFences, glNext>>
    /\ UNCHANGED <<service, ksVars, fsVars, ssVars, exVars, mlVars, auVars, syVars>>

StepSyscalls ==
    /\ service = "syscalls"
    /\ SyNext
    /\ UNCHANGED <<service, ksVars, fsVars, ssVars, exVars, mlVars, auVars, glVars>>

Next ==
    \/ StepKernel \/ StepFiles \/ StepSaves
    \/ StepExecution \/ StepModules
    \/ StepAudio \/ StepGpu \/ StepSyscalls

Spec == Init /\ [][Next]_serviceVars
=============================================================================
