----------------------------- MODULE SystemCalls -----------------------------
(***************************************************************************)
(* syscall/syscall_manager.cpp: the handlers of the four system calls, run *)
(* by several callers at once.  What a handler makes - a descriptor, a     *)
(* process, a piece of memory - passes through states of its own; every    *)
(* call of another manager may fail, and is a step of its own, since the   *)
(* managers are shared and the handlers hold no lock.  A call may also     *)
(* throw: handleSyscall catches that, answers -1, and what the handler had *)
(* made so far stays as it is.                                             *)
(***************************************************************************)
EXTENDS Naturals

CONSTANTS
    Callers,
    Objects,       \* descriptors, processes and pieces of memory
    Numbers,       \* call numbers that are used; the table's own are 1 .. 4
    MaxCalls,      \* bound
    Nothing

Handlers == {"file", "process", "memory", "network"}

\* The states an object passes through, by the handler that makes it.
Incomplete == {"opened", "created", "executable", "allocated"}
Complete   == {"registered", "initialized", "owned"}

VARIABLES
    syscallTable,    \* number -> handler
    syscallCounter,
    at,              \* the next step of each caller's handler, or "idle"
    object,          \* what the caller's handler has made so far
    objects,         \* [Objects -> "none", Incomplete, Complete]
    answer,          \* the caller's last answer: an object, "error" or "done"
    abandoned        \* history: what handlers had made that were thrown out of

vars == <<syscallTable, syscallCounter, at, object, objects, answer, abandoned>>

\* initializeSyscallTable
Init ==
    /\ syscallTable = <<"file", "process", "memory", "network">>
    /\ syscallCounter = 0
    /\ at = [c \in Callers |-> "idle"] /\ object = [c \in Callers |-> Nothing]
    /\ objects = [o \in Objects |-> "none"] /\ answer = [c \in Callers |-> "done"]
    /\ abandoned = {}

\* emplace: the first handler of a number stays.
RegisterSyscall(number, handler) ==
    /\ number \notin DOMAIN syscallTable
    /\ syscallTable' = [n \in DOMAIN syscallTable \cup {number} |->
                           IF n = number THEN handler ELSE syscallTable[n]]
    /\ UNCHANGED <<syscallCounter, at, object, objects, answer, abandoned>>

-----------------------------------------------------------------------------
Goto(c, step) == at' = [at EXCEPT ![c] = step]

Return(c, what) ==
    /\ at' = [at EXCEPT ![c] = "idle"]
    /\ object' = [object EXCEPT ![c] = Nothing]
    /\ answer' = [answer EXCEPT ![c] = what]

\* The caller's object moves on, and so does the caller.
Becomes(c, state, step) ==
    /\ objects' = [objects EXCEPT ![object[c]] = state]
    /\ Goto(c, step) /\ UNCHANGED <<object, answer>>

\* close, terminateProcess, freeMemory: the caller's object is given back.
Undo(c) ==
    /\ objects' = [objects EXCEPT ![object[c]] = "none"]
    /\ Return(c, "error")

Fail(c) == Return(c, "error") /\ UNCHANGED objects

Finish(c, state) ==
    /\ objects' = [objects EXCEPT ![object[c]] = state]
    /\ Return(c, object[c])

Make(c, state, step) ==
    \E o \in Objects :
        /\ objects[o] = "none"
        /\ objects' = [objects EXCEPT ![o] = state]
        /\ object' = [object EXCEPT ![c] = o]
        /\ Goto(c, step) /\ UNCHANGED answer

\* handleSyscall; parameters that a handler refuses are one of its failures.
HandleSyscall(c, number) ==
    /\ at[c] = "idle" /\ syscallCounter < MaxCalls
    /\ IF number \in DOMAIN syscallTable
         THEN /\ syscallCounter' = syscallCounter + 1
              /\ \/ Goto(c, syscallTable[number]) /\ UNCHANGED <<object, objects, answer>>
                 \/ Fail(c)
         ELSE Fail(c) /\ UNCHANGED syscallCounter
    /\ UNCHANGED <<syscallTable, abandoned>>

\* checkAccess, open, registerFd
HandleFileOpen(c) ==
    \/ /\ at[c] = "file"
       /\ \/ Goto(c, "file_open") /\ UNCHANGED <<object, objects, answer>>
          \/ Fail(c)
    \/ /\ at[c] = "file_open"
       /\ Make(c, "opened", "file_register") \/ Fail(c)
    \/ at[c] = "file_register" /\ (Finish(c, "registered") \/ Undo(c))

\* checkAccess, createProcess, loadExecutable, initializeProcess
HandleProcessCreate(c) ==
    \/ /\ at[c] = "process"
       /\ \/ Goto(c, "process_create") /\ UNCHANGED <<object, objects, answer>>
          \/ Fail(c)
    \/ /\ at[c] = "process_create"
       /\ Make(c, "created", "process_load") \/ Fail(c)
    \/ /\ at[c] = "process_load"
       /\ Becomes(c, "executable", "process_initialize") \/ Undo(c)
    \/ at[c] = "process_initialize" /\ (Finish(c, "initialized") \/ Undo(c))

\* Mutant: the memory is not freed when it cannot be registered.
HandleMemoryAllocLeaks(c) ==
    \/ /\ at[c] = "memory"
       /\ \/ Goto(c, "memory_allocate") /\ UNCHANGED <<object, objects, answer>>
          \/ Fail(c)
    \/ /\ at[c] = "memory_allocate"
       /\ Make(c, "allocated", "memory_register") \/ Fail(c)
    \/ at[c] = "memory_register" /\ (Finish(c, "owned") \/ Fail(c))

\* checkMemoryLimit, allocateMemory, registerMemoryAllocation
HandleMemoryAlloc(c) ==
    \/ /\ at[c] = "memory"
       /\ \/ Goto(c, "memory_allocate") /\ UNCHANGED <<object, objects, answer>>
          \/ Fail(c)
    \/ /\ at[c] = "memory_allocate"
       /\ Make(c, "allocated", "memory_register") \/ Fail(c)
    \/ at[c] = "memory_register" /\ (Finish(c, "owned") \/ Undo(c))

\* validateSocket, checkMemoryAccess, checkNetworkAccess, performIO: nothing is made.
HandleNetworkIO(c) ==
    /\ at[c] = "network"
    /\ Fail(c) \/ (Return(c, "done") /\ UNCHANGED objects)

Handle(c) ==
    /\ HandleFileOpen(c) \/ HandleProcessCreate(c) \/ HandleMemoryAlloc(c) \/ HandleNetworkIO(c)
    /\ UNCHANGED <<syscallTable, syscallCounter, abandoned>>

\* A call of another manager throws, and handleSyscall catches it: whatever the handler
\* has made is left as it is.  An exception that is no std::exception is not caught.
Throw(c) ==
    /\ at[c] # "idle" /\ Fail(c)
    /\ abandoned' = abandoned \cup ({object[c]} \ {Nothing})
    /\ UNCHANGED <<syscallTable, syscallCounter>>

Next ==
    \/ \E c \in Callers : Handle(c) \/ Throw(c) \/ \E n \in Numbers : HandleSyscall(c, n)
    \/ \E n \in Numbers, h \in Handlers : RegisterSyscall(n, h)

TypeOK ==
    /\ DOMAIN syscallTable \subseteq Numbers \cup 1 .. 4
    /\ \A n \in DOMAIN syscallTable : syscallTable[n] \in Handlers
    /\ objects \in [Objects -> {"none"} \cup Incomplete \cup Complete]
    /\ object \in [Callers -> Objects \cup {Nothing}]
    /\ answer \in [Callers -> Objects \cup {"error", "done"}] /\ abandoned \subseteq Objects

\* A handler that returns leaves nothing half made, whichever of its calls failed: an
\* object that is incomplete is in the hands of one handler that still runs, or it is
\* one of those, and in nobody's hands, whose handler was thrown out of; an answer
\* that names an object names a complete one (17-28, 78-88, 117-132, 149-163).
OrphansWereThrown ==
    /\ \A o \in Objects : objects[o] \in Incomplete =>
          \/ o \notin abandoned /\ \E c \in Callers : {d \in Callers : object[d] = o /\ at[d] # "idle"} = {c}
          \/ o \in abandoned /\ \A d \in Callers : object[d] # o
    /\ \A o \in abandoned : objects[o] \in Incomplete
    /\ \A c \in Callers : answer[c] \in Objects => objects[answer[c]] \in Complete
=============================================================================
