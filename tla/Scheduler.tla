------------------------------ MODULE Scheduler ------------------------------
(***************************************************************************)
(* scheduler/scheduler.cpp on src/InterruptManager.cpp: EnhancedScheduler, *)
(* whose schedule runs in the timer's handler, on one CPU.                 *)
(*                                                                         *)
(* loadProcess ends in iretq: the CPU goes on in the process's context, so *)
(* the assignments behind it (141-143) never run, currentProcess and       *)
(* currentThread stay null, saveProcess is never called, and the call that *)
(* the timer interrupted - createProcess, terminateProcess - never goes    *)
(* on.  readyQueue is pushed to and never read; it is left out.            *)
(***************************************************************************)
EXTENDS Naturals, Sequences, FiniteSets

CONSTANTS
    MaxProcesses,   \* MAX_PROCESSES
    MaxThreads,     \* MAX_THREADS
    Priorities,
    MaxCreated,     \* bound: calls of createProcess
    Nobody

VARIABLES
    tableSize,      \* interruptHandlers.size(): 0 until resized
    timerHandler,   \* handler 0 is set and enabled
    unmasked,       \* IRQ 0 gets through
    schedulerState, \* "STOPPED", "RUNNING"
    processes,      \* Seq of [id, pid, state]; id names the object
    threads,        \* the slots in use: [owner, isActive, priority]
    call,           \* the call in progress: [op, step, id, pid, priority]
    loaded,         \* the id whose context the CPU was last given
    created,        \* history: how many objects were made
    terminated,     \* history: the ids whose terminateProcess returned
    overrun         \* a slot past threads was written: what follows is undefined

vars == <<tableSize, timerHandler, unmasked, schedulerState, processes, threads, call,
          loaded, created, terminated, overrun>>

interruptVars == <<tableSize, timerHandler, unmasked>>
historyVars   == <<loaded, created, terminated>>

NoCall == [op |-> "none", step |-> 0, id |-> 0, pid |-> 0, priority |-> 0]
Slots  == 256    \* interruptHandlers, once resized

Init ==
    /\ tableSize = 0 /\ timerHandler = FALSE /\ unmasked = FALSE
    /\ schedulerState = "STOPPED"
    /\ processes = <<>> /\ threads = <<>> /\ call = NoCall
    /\ loaded = Nobody /\ created = 0 /\ terminated = {} /\ overrun = FALSE

-----------------------------------------------------------------------------
\* InterruptManager

\* The PIC is set up with all masked.
SetupPIC == unmasked' = FALSE

\* initialize: resize keeps what is registered.
InitializeInterrupts ==
    /\ tableSize' = Slots /\ SetupPIC
    /\ UNCHANGED <<timerHandler, schedulerState, processes, threads, call, historyVars, overrun>>

ShutdownInterrupts ==
    /\ tableSize' = 0 /\ timerHandler' = FALSE
    /\ UNCHANGED <<unmasked, schedulerState, processes, threads, call, historyVars, overrun>>

MaskIRQ(masked) ==
    /\ unmasked' = ~ masked
    /\ UNCHANGED <<tableSize, timerHandler, schedulerState, processes, threads, call, historyVars, overrun>>

UnregisterHandler ==
    /\ tableSize > 0 /\ timerHandler' = FALSE
    /\ UNCHANGED <<tableSize, unmasked, schedulerState, processes, threads, call, historyVars, overrun>>

-----------------------------------------------------------------------------
\* EnhancedScheduler

\* initialize: registerHandler refuses while the table is empty, and nobody looks.
Initialize ==
    /\ timerHandler' = (timerHandler \/ tableSize > 0)
    /\ schedulerState' = "STOPPED"
    /\ UNCHANGED <<tableSize, unmasked, processes, threads, call, historyVars, overrun>>

\* start and stop: enableInterrupt(0) and disableInterrupt(0) are not defined; they
\* are taken for the mask of IRQ 0.
Switch(from, to) ==
    /\ schedulerState = from /\ schedulerState' = to
    /\ unmasked' = (to = "RUNNING")
    /\ UNCHANGED <<tableSize, timerHandler, processes, threads, call, historyVars, overrun>>

Start == Switch("STOPPED", "RUNNING")
Stop  == Switch("RUNNING", "STOPPED")

\* createProcess takes a slot before it fills it; the pid is the table's size plus one.
CreateCall(priority) ==
    /\ call = NoCall /\ Len(processes) < MaxProcesses /\ created < MaxCreated
    /\ created' = created + 1
    /\ call' = [op |-> "create", step |-> Len(threads) + 1, id |-> created + 1,
                pid |-> Len(processes) + 1, priority |-> priority]
    /\ overrun' = (Len(threads) = MaxThreads)
    /\ threads' = IF overrun' THEN threads
                  ELSE Append(threads, [owner |-> 0, isActive |-> FALSE, priority |-> 0])
    /\ UNCHANGED <<interruptVars, schedulerState, processes, loaded, terminated>>

CreateThread ==
    /\ call.op = "create"
    /\ threads[call.step].owner # call.id
    /\ threads' = [threads EXCEPT ![call.step] =
                     [owner |-> call.id, isActive |-> TRUE, priority |-> call.priority]]
    /\ UNCHANGED <<interruptVars, schedulerState, processes, call, historyVars, overrun>>

CreateReturn ==
    /\ call.op = "create"
    /\ threads[call.step].owner = call.id
    /\ processes' = Append(processes, [id |-> call.id, pid |-> call.pid, state |-> "READY"])
    /\ call' = NoCall
    /\ UNCHANGED <<interruptVars, schedulerState, threads, historyVars, overrun>>

\* Mutant: the process leaves the table.
TerminateErases(pid) ==
    /\ call = NoCall
    /\ \E j \in DOMAIN processes :
         /\ processes[j].pid = pid
         /\ processes' = SubSeq(processes, 1, j - 1) \o SubSeq(processes, j + 1, Len(processes))
         /\ call' = [NoCall EXCEPT !.op = "terminate", !.id = processes[j].id]
    /\ UNCHANGED <<interruptVars, schedulerState, threads, historyVars, overrun>>

TerminateCall(pid) ==
    /\ call = NoCall
    /\ \E j \in DOMAIN processes :
         /\ processes[j].pid = pid
         /\ processes' = [processes EXCEPT ![j].state = "TERMINATED"]
         /\ call' = [NoCall EXCEPT !.op = "terminate", !.id = processes[j].id]
    /\ UNCHANGED <<interruptVars, schedulerState, threads, historyVars, overrun>>

\* The loop over the slots finds one: a process has one thread.
TerminateReturn ==
    /\ call.op = "terminate"
    /\ threads' = [i \in DOMAIN threads |->
          IF threads[i].owner = call.id THEN [threads[i] EXCEPT !.isActive = FALSE] ELSE threads[i]]
    /\ terminated' = terminated \cup {call.id}
    /\ call' = NoCall
    /\ UNCHANGED <<interruptVars, schedulerState, processes, loaded, created, overrun>>

\* Mutant: every slot counts.
AnyThread == DOMAIN threads

\* The parallel loop compares within each worker's share of the slots, and every new
\* maximum of a share is written to the one nextThread: any active slot can be the
\* last one written; without OpenMP it is one of the highest priority.
NextThread == {i \in DOMAIN threads : threads[i].isActive}

\* handleInterrupt(0) calls the timer's handler.
Delivered == unmasked /\ tableSize > 0 /\ timerHandler

\* The registers of the process, and iretq: what was interrupted is gone.
LoadProcess(id) == loaded' = id /\ call' = NoCall

\* timerHandler, schedule; a thread whose process is not in the table - its
\* createProcess was cut off - is chosen all the same, and nothing loaded.
Timer ==
    /\ Delivered /\ schedulerState = "RUNNING"
    /\ \E i \in NextThread, j \in DOMAIN processes :
         /\ processes[j].id = threads[i].owner
         /\ LoadProcess(processes[j].id)
    /\ UNCHANGED <<interruptVars, schedulerState, processes, threads, created, terminated, overrun>>

Next ==
    /\ ~ overrun
    /\ \/ InitializeInterrupts \/ ShutdownInterrupts \/ UnregisterHandler
       \/ \E masked \in BOOLEAN : MaskIRQ(masked)
       \/ Initialize \/ Start \/ Stop
       \/ \E priority \in Priorities : CreateCall(priority)
       \/ CreateThread \/ CreateReturn
       \/ \E pid \in 1 .. Len(processes) : TerminateCall(pid)
       \/ TerminateReturn
       \/ Timer

-----------------------------------------------------------------------------
\* Properties

TypeOK ==
    /\ schedulerState \in {"STOPPED", "RUNNING"} /\ tableSize \in {0, Slots}
    /\ Len(processes) <= MaxProcesses /\ Len(threads) <= MaxThreads
    /\ \A i \in DOMAIN threads : threads[i].owner \in 0 .. created
    /\ loaded \in {Nobody} \cup 1 .. created /\ terminated \subseteq 1 .. created

\* Though calls are cut off by the timer at any point, no pid is given to two
\* processes in the table, and each has a slot of its own (66-88).
PidsUnique ==
    \A j, k \in DOMAIN processes :
        /\ processes[j].pid = processes[k].pid => j = k
        /\ \E i \in DOMAIN threads : threads[i].owner = processes[j].id

\* Once terminateProcess has returned, no process the timer can load is its process,
\* however calls before and after it are cut off; one whose own terminateProcess was cut
\* off may be loaded (90-103, 105-140).
TerminatedStaysDown ==
    \A i \in NextThread : \A j \in DOMAIN processes :
        processes[j].id = threads[i].owner => processes[j].id \notin terminated
=============================================================================
