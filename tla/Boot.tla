-------------------------------- MODULE Boot --------------------------------
(***************************************************************************)
(* boot/bootloader.cpp, boot/Main.cpp and core/kernel.cpp: the two ways    *)
(* into the one Bootloader - init, which a boot stub outside the           *)
(* repository calls with its memory map, and main, which calls initialize  *)
(* - and the order in which KernelSystem brings up what it owns.           *)
(*                                                                         *)
(* probeHardwareInterfaces counts buses in a uint8_t up to 256, so nothing *)
(* after it runs: it ends, if at all, when detectedDevices_ has no memory  *)
(* left to grow.  The stages behind it, the boot screen's loop and         *)
(* startKernel are therefore not modelled.                                 *)
(***************************************************************************)
EXTENDS Naturals, Sequences, FiniteSets

CONSTANTS
    Buses,          \* 2^8: the values of the uint8_t bus
    BusLimit,       \* 256: the bound of its loop
    Regions,        \* the available regions of the multiboot memory map
    MaxDevices      \* devices that fit in detectedDevices_

VARIABLES
    entry,          \* "none", "init", "main", "failed" (main returned 1), "crashed"
    step,           \* how many steps of the entry's sequence are done
    currentStage,   \* "PRE_INIT", "HARDWARE_DETECTION", "KERNEL_LOAD"
    done,           \* bootState and hardwareState: what is set up or detected
    mbi,            \* the pointer is set
    added,          \* [Regions -> how often addFreeRegion was called with it]
    interrupts,     \* the CPU's interrupt flag
    bus,
    devices,        \* detectedDevices_.size()
    kernelStep,     \* how far KernelSystem is
    hasDevice       \* the machine: the buses with a device

vars == <<entry, step, currentStage, done, mbi, added, interrupts, bus, devices, kernelStep, hasDevice>>

hardwareVars == <<currentStage, bus, devices, hasDevice>>

\* KernelSystem::start: initialize (the first six), startSystemServices, and the end.
KernelSequence == <<
    "memoryManager", "interruptManager", "scheduler", "driverManager", "vfs", "initialized",
    "security", "network", "audio", "graphics", "startAll", "enableInterrupts", "schedulerStart">>

\* Bootloader::init
BootSequence == <<"cli", "gdt", "idt", "memory", "paging", "protectedMode", "mbi", "kernel", "sti">>

Init ==
    /\ entry = "none" /\ step = 0 /\ currentStage = "PRE_INIT" /\ done = {}
    /\ mbi = FALSE /\ added = [r \in Regions |-> 0]
    /\ interrupts = FALSE /\ bus = 0 /\ devices = 0 /\ kernelStep = 0
    /\ hasDevice \in SUBSET (0 .. Buses - 1)

-----------------------------------------------------------------------------
\* Bootloader::init

EnterInit ==
    /\ entry = "none" /\ "kernel" \notin done
    /\ entry' = "init" /\ step' = 0
    /\ UNCHANGED <<done, mbi, added, interrupts, kernelStep, hardwareVars>>

\* detectMemory and detectMemoryCapacity, over the memory map if there is one
Counted(listed) == [r \in Regions |-> IF r \in listed THEN added[r] + 1 ELSE added[r]]

\* Without MULTIBOOT_INFO_MEMORY detectMemory logs an error, and init goes on.
BootMemory ==
    \E known \in BOOLEAN, listed \in {{}, Regions} :
        /\ done' = done \cup {"memory"} \cup (IF known THEN {"memoryDetected"} ELSE {})
        /\ added' = IF known THEN Counted(listed) ELSE added

\* Mutant: interrupts come on with the rest of the interrupt set-up.
BootStepEarly ==
    LET s == BootSequence[step + 1] IN
    /\ entry = "init" /\ s # "kernel" /\ step' = step + 1
    /\ IF s = "memory" THEN BootMemory ELSE done' = done \cup {s} /\ UNCHANGED added
    /\ interrupts' = (s = "sti" \/ (s \notin {"cli", "protectedMode"} /\ interrupts) \/ s = "gdt")
    /\ mbi' = (s = "mbi" \/ mbi)
    /\ entry' = IF s = "sti" THEN "none" ELSE entry
    /\ UNCHANGED <<kernelStep, hardwareVars>>

BootStep ==
    LET s == BootSequence[step + 1] IN
    /\ entry = "init" /\ s # "kernel" /\ step' = step + 1
    /\ IF s = "memory" THEN BootMemory ELSE done' = done \cup {s} /\ UNCHANGED added
    /\ interrupts' = (s = "sti" \/ (s \notin {"cli", "protectedMode"} /\ interrupts))
    /\ mbi' = (s = "mbi" \/ mbi)
    /\ entry' = IF s = "sti" THEN "none" ELSE entry
    /\ UNCHANGED <<kernelStep, hardwareVars>>

\* KernelSystem: creating the interrupt manager sets up its IDT and enables interrupts.
KernelStep ==
    LET s == KernelSequence[kernelStep + 1] IN
    /\ entry = "init" /\ BootSequence[step + 1] = "kernel"
    /\ kernelStep' = kernelStep + 1
    /\ step' = IF kernelStep' = Len(KernelSequence) THEN step + 1 ELSE step
    /\ done' = done \cup {s} \cup (IF kernelStep' = Len(KernelSequence) THEN {"kernel"} ELSE {})
    /\ interrupts' = (interrupts \/ s \in {"interruptManager", "enableInterrupts"})
    /\ UNCHANGED <<entry, mbi, added, hardwareVars>>

-----------------------------------------------------------------------------
\* main

\* The boot screen's constructor throws when its font or shader does not load.
BootScreenThrows == entry' = "crashed" /\ UNCHANGED hardwareVars

\* initialize returns false when there is no /boot.
Initialize ==
    \/ entry' = "failed" /\ UNCHANGED hardwareVars
    \/ /\ entry' = "main"
       /\ currentStage' = "HARDWARE_DETECTION"
       /\ UNCHANGED <<bus, devices, hasDevice>>

EnterMain ==
    /\ entry = "none"
    /\ step' = 0
    /\ BootScreenThrows \/ Initialize
    /\ UNCHANGED <<done, mbi, added, interrupts, kernelStep>>

\* A CPU without long mode is an error that is logged and nothing else.
DetectCPU ==
    /\ entry = "main" /\ step = 0 /\ step' = 1
    /\ \E known \in BOOLEAN : done' = done \cup (IF known THEN {"cpuDetected"} ELSE {})
    /\ UNCHANGED <<entry, mbi, added, interrupts, kernelStep, hardwareVars>>

\* The memory map is read through mbi, which only init sets, and its regions are
\* added as if init had not added them.
DetectMemoryCapacity ==
    /\ entry = "main" /\ step = 1 /\ step' = 2
    /\ entry' = IF mbi THEN entry ELSE "crashed"
    /\ \E listed \in {{}, Regions} : added' = IF mbi THEN Counted(listed) ELSE added
    /\ UNCHANGED <<done, mbi, interrupts, kernelStep, hardwareVars>>

NextBus == (bus + 1) % Buses

\* One bus: 32 devices of 8 functions; push_back throws when there is no memory, and
\* detectHardware reports the exception and returns false.
ProbeBus ==
    /\ entry = "main" /\ step = 2 /\ bus < BusLimit
    /\ IF bus \in hasDevice /\ devices = MaxDevices
         THEN entry' = "failed" /\ UNCHANGED <<bus, devices>>
         ELSE /\ devices' = IF bus \in hasDevice THEN devices + 1 ELSE devices
              /\ bus' = NextBus
              /\ UNCHANGED entry
    /\ UNCHANGED <<step, currentStage, done, mbi, added, interrupts, kernelStep, hasDevice>>

\* The end of the loop, where initializeInterruptControllers and KERNEL_LOAD would follow.
Probed == entry = "main" /\ step = 2 /\ bus = BusLimit

Next == EnterInit \/ BootStep \/ KernelStep \/ EnterMain \/ DetectCPU \/ DetectMemoryCapacity \/ ProbeBus

\* A CPU in the loop goes on with it.
Spec == Init /\ [][Next]_vars /\ WF_vars(ProbeBus)

-----------------------------------------------------------------------------
\* Properties

TypeOK ==
    /\ entry \in {"none", "init", "main", "failed", "crashed"}
    /\ bus \in 0 .. BusLimit /\ devices \in 0 .. MaxDevices
    /\ currentStage \in {"PRE_INIT", "HARDWARE_DETECTION"}
    /\ added \in [Regions -> 0 .. 2] /\ kernelStep \in 0 .. Len(KernelSequence)

\* Interrupts never come on before there is an IDT and memory for the handlers, along
\* init or main, one after the other or after a main that failed (init 7-20).
BootOrder == interrupts => {"idt", "memory", "paging"} \subseteq done

\* The probe looks at every bus and comes to its end, unless it fails: detectHardware
\* then goes on with what comes after it (353-385).
ProbeEnds == (entry = "main" /\ step = 2) ~> (entry = "failed" \/ Probed)
=============================================================================
