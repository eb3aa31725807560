------------------------ MODULE TaskAndGameSchedulers ------------------------
(***************************************************************************)
(* The two schedulers of games.                                            *)
(*                                                                         *)
(* scheduler/TaskScheduler.hpp.  start and yield enter schedule, a loop    *)
(* that switches context as long as running is set; restore continues the  *)
(* chosen process, whose code calls the other operations on the same CPU,  *)
(* until it gives control back to the loop.  Priorities do not matter to   *)
(* what is checked: any entry may be the top of the queue.                 *)
(*                                                                         *)
(* scheduler/GameAwareScheduler.hpp.  Windows keeps the processes, their   *)
(* threads, priorities and handles; the scheduler keeps an entry for each  *)
(* game it sees, one more for each time it sees it, with the handles it    *)
(* opened.  A detached thread walks the entries while others append to     *)
(* them, without a lock: a walk that meets a change is undefined.          *)
(***************************************************************************)
EXTENDS BagsExt, Bags, Naturals, Sequences, FiniteSets, Functions, SequencesExt

CONSTANTS
    \* TaskScheduler
    Pids,
    Tasks,         \* what scheduleTask is given
    MaxQueue,      \* bound: entries in the ready queue
    NoProcess,
    \* GameAwareScheduler
    Games, Others,     \* processes: knownGameExecutables, and the rest; one thread each
    MaxEntries,        \* bound: entries
    MaxHandles,        \* bound: handles of one process and its thread
    MaxReserved        \* bound: reservations, and handles of own threads

VARIABLES
    \* TaskScheduler
    readyQueue,     \* bag: [pids and tasks in the queue -> how often]
    procs,          \* the pids in processes
    currentProcess,
    running,
    dispatched,     \* history: the pids switched to since they were added
    dropped,        \* history: the tasks a rebuild threw away
    \* GameAwareScheduler
    processes,     \* those that run
    activeGames,   \* Seq of [game, priority, threads]; threads: Seq of the threads' processes
    class,         \* [process -> its priority class in Windows]
    boosted,       \* the processes whose thread has the highest priority
    handles,       \* [process -> handles open on it or its thread]
    lent,          \* handles GetGameThreads returned
    unowned,       \* handles GetGameThreads opened and did not return
    memoryPool,    \* how many reservations
    ownClass,      \* the class of this process
    walk,          \* the entry the monitor thread comes to, 0 when it rests
    undefined

-----------------------------------------------------------------------------
\* TaskScheduler

taskVars == <<readyQueue, procs, currentProcess, running, dispatched, dropped>>

TaskInit ==
    /\ readyQueue = EmptyBag /\ procs = {} /\ currentProcess = NoProcess
    /\ running = FALSE /\ dispatched = {} /\ dropped = {}

Room == BagCardinality(readyQueue) < MaxQueue

Push(entry) == readyQueue' = BagAdd(readyQueue, entry)

ScheduleTask(task) ==
    /\ Room /\ Push(task)
    /\ UNCHANGED <<procs, currentProcess, running, dispatched, dropped>>

\* A pid that is added again is queued again.
AddProcess(pid) ==
    /\ Room /\ Push(pid)
    /\ procs' = procs \cup {pid}
    /\ dispatched' = dispatched \ {pid}
    /\ UNCHANGED <<currentProcess, running, dropped>>

\* Mutant: only processes that have run before are taken up.
RebuiltWithout(kept) == [pid \in kept \cap dispatched |-> 1]

\* rebuildReadyQueue: every process once, the running one too, and no task.
Rebuilt(kept) == [pid \in kept |-> 1]

RemoveProcess(pid) ==
    /\ procs' = procs \ {pid}
    /\ readyQueue' = Rebuilt(procs \ {pid})
    /\ dropped' = dropped \cup (DOMAIN readyQueue \cap Tasks)
    /\ UNCHANGED <<currentProcess, running, dispatched>>

SetRunning(on) ==
    /\ running' = on
    /\ UNCHANGED <<readyQueue, procs, currentProcess, dispatched, dropped>>

\* yield queues the current process, removed or not, and enters the loop.
Yield ==
    /\ currentProcess # NoProcess /\ Room
    /\ Push(currentProcess)
    /\ UNCHANGED <<procs, currentProcess, running, dispatched, dropped>>

\* The loop: switchContext, which does not put the current process back.
SwitchContext ==
    /\ running
    /\ \E top \in DOMAIN readyQueue :
         /\ readyQueue' = BagRemove(readyQueue, top)
         /\ currentProcess' = top
         /\ dispatched' = dispatched \cup ({top} \cap Pids)
    /\ UNCHANGED <<procs, running, dropped>>

TaskNext ==
    \/ \E task \in Tasks : ScheduleTask(task)
    \/ \E pid \in Pids : AddProcess(pid) \/ RemoveProcess(pid)
    \/ \E on \in BOOLEAN : SetRunning(on)
    \/ Yield \/ SwitchContext

TaskTypeOK ==
    /\ IsABag(readyQueue) /\ DOMAIN readyQueue \subseteq Pids \cup Tasks
    /\ procs \subseteq Pids /\ running \in BOOLEAN /\ dropped \subseteq Tasks
    /\ currentProcess \in {NoProcess} \cup Pids \cup Tasks

\* A process that was added is in the ready queue until the loop switches to it,
\* however often the queue is rebuilt in between (103-111, 164-170).
AddedIsReady == procs \subseteq DOMAIN readyQueue \cup dispatched

-----------------------------------------------------------------------------
\* GameAwareScheduler

gameVars == <<processes, activeGames, class, boosted, handles, lent, unowned, memoryPool,
          ownClass, walk, undefined>>

AllProcesses == Games \cup Others
Classes == {"NORMAL", "ABOVE_NORMAL", "HIGH", "HIGH_BACKGROUND"}

\* The constructor: profiles for the known games, this process in the high class.
GameInit ==
    /\ processes = AllProcesses /\ activeGames = <<>>
    /\ class = [p \in AllProcesses |-> "NORMAL"] /\ boosted = {}
    /\ handles = [p \in AllProcesses |-> 0] /\ lent = 0 /\ unowned = 0
    /\ memoryPool = 0 /\ ownClass = "HIGH" /\ walk = 0 /\ undefined = FALSE

Changed == undefined' = (undefined \/ walk # 0)

\* The games that a snapshot lists are appended, whatever is there; OpenProcess may
\* fail, and the entry is made all the same.
ScanForGames ==
    /\ \E opened \in SUBSET Games :
         LET order == SetToSeq(processes \cap Games) IN
         /\ Len(activeGames) + Len(order) <= MaxEntries
         /\ \A p \in Games : handles[p] < MaxHandles
         /\ activeGames' = activeGames \o [k \in DOMAIN order |->
               [game |-> order[k], open |-> order[k] \in opened, priority |-> "NORMAL", threads |-> <<>>]]
         /\ handles' = [p \in AllProcesses |->
               IF p \in processes \cap Games \cap opened THEN handles[p] + 1 ELSE handles[p]]
    /\ Changed
    /\ UNCHANGED <<processes, class, boosted, lent, unowned, memoryPool, ownClass, walk>>

\* Mutant: the handles of threads that do not belong to the game are not kept.
ThreadsKeptOwn(entry, opened) == IF entry.game \in opened THEN <<entry.game>> ELSE <<>>

\* Of the threads of the whole system, not of the game only, those that were opened.
ThreadsKept(entry, opened) == SetToSeq(opened)

\* OptimizeForGaming: each entry takes its own snapshot - which may fail - and opens every
\* thread again, or fails to; the handles it gets are kept, and their threads boosted.
OptimizeForGaming ==
    /\ activeGames # <<>>
    /\ \A p \in AllProcesses : handles[p] + Len(activeGames) <= MaxHandles
    /\ \E opened \in [DOMAIN activeGames -> SUBSET processes] :
         /\ activeGames' = [k \in DOMAIN activeGames |->
               [activeGames[k] EXCEPT !.priority = "HIGH",
                                      !.threads = @ \o ThreadsKept(activeGames[k], opened[k])]]
         /\ boosted' = boosted \cup UNION {opened[k] : k \in DOMAIN activeGames}
         /\ handles' = [p \in AllProcesses |->
               handles[p] + Cardinality({k \in DOMAIN activeGames : p \in opened[k]})]
    /\ class' = [p \in AllProcesses |->
          IF \E k \in DOMAIN activeGames : activeGames[k].game = p /\ activeGames[k].open
            THEN "HIGH" ELSE class[p]]
    /\ Changed
    /\ UNCHANGED <<processes, lent, unowned, memoryPool, ownClass, walk>>

\* MonitorPerformance, an entry at a time; the working set is Windows' affair.
MonitorBegin ==
    /\ walk = 0 /\ activeGames # <<>> /\ walk' = 1
    /\ UNCHANGED <<processes, activeGames, class, boosted, handles, lent, unowned, memoryPool,
                   ownClass, undefined>>

\* Each query of the process may fail: the entry is then left as it is.
MonitorEntry ==
    /\ walk # 0
    /\ LET e == activeGames[walk] IN
       \E byTime \in {e.priority, "HIGH", "ABOVE_NORMAL"}, heavyIO \in BOOLEAN :
         /\ (byTime # e.priority \/ heavyIO) => e.open
         /\ activeGames' = [activeGames EXCEPT ![walk].priority = byTime]
         /\ class' = IF heavyIO THEN [class EXCEPT ![e.game] = "HIGH_BACKGROUND"]
                     ELSE IF byTime # e.priority THEN [class EXCEPT ![e.game] = byTime]
                     ELSE class
    /\ walk' = (walk + 1) % (Len(activeGames) + 1)
    /\ UNCHANGED <<processes, boosted, handles, lent, unowned, memoryPool, ownClass, undefined>>

\* Every profile is the default one: priority 8 and 4 GB.
SetProcessPriority == ownClass' = "HIGH"

\* VirtualAlloc may refuse; what was reserved before is kept.
ReserveMemory == memoryPool' \in {memoryPool, memoryPool + 1} /\ memoryPool' <= MaxReserved

ApplyGameOptimizations == SetProcessPriority /\ ReserveMemory

OptimizeForGame ==
    /\ ApplyGameOptimizations
    /\ UNCHANGED <<processes, activeGames, class, boosted, handles, lent, unowned, walk, undefined>>

\* This process's own threads: those on other cores are opened and forgotten.
GetGameThreads ==
    /\ lent + unowned < MaxReserved
    /\ \/ lent' = lent + 1 /\ UNCHANGED unowned
       \/ unowned' = unowned + 1 /\ UNCHANGED lent
    /\ UNCHANGED <<processes, activeGames, class, boosted, handles, memoryPool, ownClass, walk, undefined>>

\* A process ends; its object stays as long as handles are open.
Exit(p) ==
    /\ p \in processes /\ processes' = processes \ {p}
    /\ UNCHANGED <<activeGames, class, boosted, handles, lent, unowned, memoryPool, ownClass, walk, undefined>>

GameNext ==
    /\ ~ undefined
    /\ \/ ScanForGames \/ OptimizeForGaming \/ MonitorBegin \/ MonitorEntry
       \/ OptimizeForGame \/ GetGameThreads
       \/ \E p \in AllProcesses : Exit(p)

GameTypeOK ==
    /\ processes \subseteq AllProcesses /\ boosted \subseteq AllProcesses
    /\ class \in [AllProcesses -> Classes] /\ handles \in [AllProcesses -> 0 .. MaxHandles]
    /\ walk \in 0 .. MaxEntries /\ Len(activeGames) <= MaxEntries

Recorded(p) ==
    SumFunction([k \in DOMAIN activeGames |->
        (IF activeGames[k].game = p /\ activeGames[k].open THEN 1 ELSE 0)
        + Cardinality({j \in DOMAIN activeGames[k].threads : activeGames[k].threads[j] = p})])

\* Every handle the scheduler opens for a game is in an entry, where it can be closed,
\* through scans that repeat, processes that end and optimizations that repeat (62-131).
HandlesRecorded == \A p \in AllProcesses : handles[p] = Recorded(p)

-----------------------------------------------------------------------------
\* Both, side by side.

Init == TaskInit /\ GameInit

\* The type invariant of the two.
TypeOK == TaskTypeOK /\ GameTypeOK
=============================================================================
