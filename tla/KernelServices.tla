--------------------------- MODULE KernelServices ---------------------------
(***************************************************************************)
(* The services a kernel program starts, side by side: boot and            *)
(* KernelSystem, schedulers and processes, system calls, security,         *)
(* network, metrics, power, audio and COM, interrupts and drivers.  They   *)
(* share no state - the scheduler talks to its own interrupt manager, and  *)
(* its module holds that too - so a behaviour exercises one of them, the   *)
(* one named by focus, and the others stand still.                         *)
(***************************************************************************)
EXTENDS Integers, FiniteSets, Sequences

CONSTANTS
    \* Boot
    Buses, BusLimit, Regions, MaxDevices,
    \* Scheduler
    MaxProcesses, MaxThreads, Priorities, MaxCreated, Nobody,
    \* TaskAndGameSchedulers
    Pids, Tasks, MaxQueue, NoProcess,
    Games, Others, MaxEntries, MaxHandles, MaxReserved,
    \* ProcessManager
    Creators, MaxPid,
    \* SystemCalls
    Callers, Objects, Numbers, MaxCalls, Nothing,
    \* SecurityManager
    Resources, Users, Groups, Wildcard, Permissions, Requests, Setters, ProcessIds, MaxEpochs, MaxAudit,
    \* NetworkStack
    Capacity, ChunkSizes, MaxBytes, Destinations, MaxRoutes, MaxAdded, MaxPackets,
    \* PerformanceMetrics
    Recorders, Names, Values, MaxSamples,
    \* GameProfiles
    StartTimes, MaxTime, MaxApplied,
    \* PowerManager
    Observers, States, MaxNesting, MaxRegistered,
    \* AudioSystem
    Buffers, Threads,
    \* Interrupts
    Vectors, DriverNames, MaxDrivers

\* bus is a uint8_t, and its loop is bounded by 256 (bootloader.cpp 355).
ASSUME BootAssumption == Buses \in Nat \ {0} /\ BusLimit \in Nat /\ Buses <= BusLimit

\* The CPU's counters start anywhere in the width they are counted in, and wrap; all the
\* time of a behaviour, in all, is less than that width.
ASSUME ProfileAssumption == 0 \in StartTimes /\ StartTimes \subseteq 0 .. 255 /\ MaxTime \in Nat /\ 2 * MaxTime < 256

\* A ring of the network stack has room for a byte, its list of routes for an entry.
ASSUME NetworkAssumption ==
    /\ Capacity \in Nat \ {0} /\ ChunkSizes \subseteq Nat
    /\ MaxRoutes \in Nat \ {0}

\* The objects of system calls are told from what answers for their absence.
ASSUME SyscallAssumption == Objects \cap {Nothing, "error", "done"} = {}

\* What runs under Windows is finitely many processes.
ASSUME GamesAssumption == IsFiniteSet(Games \cup Others)

\* Values are numbers, in units small enough to be whole.
ASSUME MetricsAssumption == Values \subseteq Int

\* Sizes and bounds are numbers, and an audio system has finitely many buffers.
ASSUME BoundsAssumption ==
    /\ {MaxDevices, MaxProcesses, MaxThreads, MaxCreated, MaxEntries, MaxHandles, MaxPid, MaxEpochs,
        MaxAudit, MaxBytes, MaxPackets, MaxSamples, MaxApplied, MaxNesting, MaxRegistered, MaxDrivers} \subseteq Nat
    /\ IsFiniteSet(Buffers)

VARIABLES
    focus,
    entry, step, currentStage, done, mbi, added, interrupts, bus, devices, kernelStep, hasDevice,
    tableSize, timerHandler, unmasked, schedulerState, processes, threads, call, loaded,
    created, terminated, overrun,
    readyQueue, procs, currentProcess, running, dispatched, dropped,
    processMutex, nextPID, creating, setUp, visible, metrics, basePIDs, baseNext, poolJobs,
    alive, activeGames, class, boosted, handles, lent, unowned, memoryPool, ownClass, walk,
    walkUndefined,
    syscallTable, syscallCounter, at, object, objects, answer, abandoned,
    initialized, acls, auditTrail, policies, securityLog, setting, epoch, lastSet,
    ring, slots, consumed, txOverflows, routes, addedRoutes, rxQueue, received, handled,
    metricsInitialized, mutex, samples, timers, thresholds, recording, metricsEpoch, alerts,
    profiles, path, pc, held, stray, priorityClass, thread,
    start, times, last, since, utilization, share, applied,
    currentState, observers, changes, mode, settings, heard, outermost, undefined,
    audioRunning, audioThread, joining, ready, block, buffersProcessed, crashed,
    comInitialized, threadInitMap, apartment,
    idt, isrTable, idtLoaded, flag, interruptsEnabled, switching, lost, corrupted,
    drivers, made, up, replaced

Booting  == INSTANCE Boot
Sched    == INSTANCE Scheduler
ProcMgr  == INSTANCE ProcessManager
Schedulers == INSTANCE TaskAndGameSchedulers WITH processes <- alive, undefined <- walkUndefined
Syscalls == INSTANCE SystemCalls
Security == INSTANCE SecurityManager
Network  == INSTANCE NetworkStack
Metrics  == INSTANCE PerformanceMetrics WITH
              initialized <- metricsInitialized, metrics <- samples, epoch <- metricsEpoch
Profiles == INSTANCE GameProfiles
Power    == INSTANCE PowerManager
Audio    == INSTANCE AudioSystem WITH running <- audioRunning, thread <- audioThread
Irqs     == INSTANCE Interrupts

bootVars == <<entry, step, currentStage, done, mbi, added, interrupts, bus, devices, kernelStep, hasDevice>>
schedulerVars == <<tableSize, timerHandler, unmasked, schedulerState, processes, threads, call,
                   loaded, created, terminated, overrun>>
taskVars == <<readyQueue, procs, currentProcess, running, dispatched, dropped>>
processVars == <<processMutex, nextPID, creating, setUp, visible, metrics, basePIDs, baseNext, poolJobs>>
gameVars == <<alive, activeGames, class, boosted, handles, lent, unowned, memoryPool, ownClass,
              walk, walkUndefined>>
syscallVars == <<syscallTable, syscallCounter, at, object, objects, answer, abandoned>>
securityVars == <<initialized, acls, auditTrail, policies, securityLog, setting, epoch, lastSet>>
networkVars == <<ring, slots, consumed, txOverflows, routes, addedRoutes, rxQueue, received, handled>>
metricsVars == <<metricsInitialized, mutex, samples, timers, thresholds, recording, metricsEpoch, alerts>>
profileVars == <<profiles, path, pc, held, stray, priorityClass, thread,
                 start, times, last, since, utilization, share, applied>>
powerVars == <<currentState, observers, changes, mode, settings, heard, outermost, undefined>>
audioVars == <<audioRunning, audioThread, joining, ready, block, buffersProcessed, crashed,
               comInitialized, threadInitMap, apartment>>
interruptVars == <<idt, isrTable, idtLoaded, flag, interruptsEnabled, switching, lost, corrupted,
                   drivers, made, up, replaced>>

vars == <<focus, bootVars, schedulerVars, taskVars, processVars, gameVars, syscallVars, securityVars,
          networkVars, metricsVars, profileVars, powerVars, audioVars, interruptVars>>

Init ==
    /\ focus \in {"boot", "scheduler", "tasks", "processes", "games", "syscalls", "security", "network", "metrics", "profiles", "power", "audio", "interrupts"}
    /\ Booting!Init /\ Sched!Init /\ Schedulers!Init /\ ProcMgr!Init
    /\ Syscalls!Init /\ Security!Init /\ Network!Init /\ Metrics!Init /\ Profiles!Init
    /\ Power!Init /\ Audio!Init /\ Irqs!Init
    /\ focus # "boot" => hasDevice = {}
    /\ focus # "profiles" => \A k \in DOMAIN start : start[k] = 0
    /\ focus # "interrupts" => ~ interruptsEnabled

\* Every service but the one in focus stands still.
OthersStill ==
    /\ UNCHANGED focus
    /\ focus # "boot"       => UNCHANGED bootVars
    /\ focus # "scheduler"  => UNCHANGED schedulerVars
    /\ focus # "tasks"      => UNCHANGED taskVars
    /\ focus # "processes"  => UNCHANGED processVars
    /\ focus # "games"      => UNCHANGED gameVars
    /\ focus # "syscalls"   => UNCHANGED syscallVars
    /\ focus # "security"   => UNCHANGED securityVars
    /\ focus # "network"    => UNCHANGED networkVars
    /\ focus # "metrics"    => UNCHANGED metricsVars
    /\ focus # "profiles"   => UNCHANGED profileVars
    /\ focus # "power"      => UNCHANGED powerVars
    /\ focus # "audio"      => UNCHANGED audioVars
    /\ focus # "interrupts" => UNCHANGED interruptVars

BootStep      == focus = "boot"       /\ Booting!Next  /\ OthersStill
SchedulerStep == focus = "scheduler"  /\ Sched!Next    /\ OthersStill
TaskStep      == focus = "tasks"      /\ Schedulers!TaskNext /\ OthersStill
ProcessStep   == focus = "processes"  /\ ProcMgr!Next  /\ OthersStill
GameStep      == focus = "games"      /\ Schedulers!GameNext /\ OthersStill
SyscallStep   == focus = "syscalls"   /\ Syscalls!Next /\ OthersStill
SecurityStep  == focus = "security"   /\ Security!Next /\ OthersStill
NetworkStep   == focus = "network"    /\ Network!Next  /\ OthersStill
MetricsStep   == focus = "metrics"    /\ Metrics!Next  /\ OthersStill
ProfileStep   == focus = "profiles"   /\ Profiles!Next /\ OthersStill
PowerStep     == focus = "power"      /\ Power!Next    /\ OthersStill
AudioStep     == focus = "audio"      /\ Audio!Next    /\ OthersStill
InterruptStep == focus = "interrupts" /\ Irqs!Next     /\ OthersStill

Next ==
    \/ BootStep \/ SchedulerStep \/ TaskStep \/ ProcessStep \/ GameStep \/ SyscallStep
    \/ SecurityStep \/ NetworkStep \/ MetricsStep \/ ProfileStep \/ PowerStep \/ AudioStep
    \/ InterruptStep

Spec == Init /\ [][Next]_vars

-----------------------------------------------------------------------------

\* The type invariant of each part.
TypeOK ==
    /\ Booting!TypeOK /\ Sched!TypeOK /\ Schedulers!TypeOK /\ ProcMgr!TypeOK
    /\ Syscalls!TypeOK /\ Security!TypeOK /\ Network!TypeOK /\ Metrics!TypeOK
    /\ Profiles!TypeOK /\ Power!TypeOK /\ Audio!TypeOK /\ Irqs!TypeOK

\* What is counted is what is there: the handles of games that were opened are the ones
\* entries hold, and the statistics of a metric lie between its samples.
CountsAgree == Schedulers!HandlesRecorded /\ Metrics!StatsOrdered

\* What a service makes and what it keeps track of agree, whatever fails, throws or is cut
\* off: a system call leaves something half made only when it is thrown out of, what is
\* published is set up, and pids, processes in the queue, references, drivers and
\* apartments are accounted for.
MadeIsAccounted ==
    /\ Syscalls!OrphansWereThrown /\ ProcMgr!VisibleIsSetUp /\ Sched!PidsUnique
    /\ Schedulers!AddedIsReady /\ Profiles!ReferencesBalanced
    /\ Irqs!DriversReachable /\ Audio!ApartmentsBalanced

\* What a service answers with, or goes by: policies and samples were stored in its present
\* life, each thread's late one excepted none was tested for in an earlier one; permissions
\* are those last set; a share of time is of what passed since the last reading; settings
\* are those of the outermost change; bytes and routes are the latest.
AnswersAreOfThisLife ==
    /\ Security!StaleOnePerSetter /\ Security!LastSetDecides
    /\ Metrics!StaleOnePerRecorder /\ Profiles!UtilizationIsShare
    /\ Power!SettingsOfOutermost /\ Network!StreamsIntact /\ Network!RoutesAreLatest

\* Order on and off: interrupts come on when there is something to take them, none is lost
\* but while they are being enabled, and what was stopped is at rest.
SwitchedInOrder == Booting!BootOrder /\ Irqs!LostOnlyWhileEnabling /\ Audio!StoppedIsQuiet

\* A process whose terminateProcess returned cannot be given the CPU again.
TerminatedStaysDown == Sched!TerminatedStaysDown
=============================================================================
