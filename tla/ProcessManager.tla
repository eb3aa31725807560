--------------------------- MODULE ProcessManager ---------------------------
(***************************************************************************)
(* process/ProcessManager.cpp: OptimizedUniversalProcessManager over the   *)
(* base class of ProcessManager.hpp.  createProcess holds processMutex,    *)
(* the queries hold processLock, so a query runs between any two steps of  *)
(* a creation; the base class's terminateProcess and schedule work on the  *)
(* base's own map.                                                         *)
(***************************************************************************)
EXTENDS Naturals, FiniteSets

CONSTANTS
    Creators,     \* threads that call createProcess
    MaxPid        \* bound: process ids

Sections == {"memory", "scheduling", "workload"}

VARIABLES
    processMutex,   \* the creator that holds it, or "free"
    nextPID,
    creating,       \* [Creators -> the pid it creates, 0 for none]
    setUp,          \* [1 .. MaxPid -> the sections that ran for the pid]
    visible,        \* the pids in processes
    metrics,        \* the pids with metrics
    basePIDs,       \* ProcessManager::processes, which is scheduler's list too
    baseNext,       \* ProcessManager::nextPID
    poolJobs        \* the pids that jobs of the thread pool refer to

vars == <<processMutex, nextPID, creating, setUp, visible, metrics, basePIDs, baseNext, poolJobs>>

derivedVars == <<processMutex, nextPID, creating, setUp, visible, metrics>>
baseVars    == <<basePIDs, baseNext, poolJobs>>

Init ==
    /\ processMutex = "free" /\ nextPID = 1 /\ creating = [c \in Creators |-> 0]
    /\ setUp = [p \in 1 .. MaxPid |-> {}] /\ visible = {} /\ metrics = {}
    /\ basePIDs = {} /\ baseNext = 0 /\ poolJobs = {}

-----------------------------------------------------------------------------
\* OptimizedUniversalProcessManager

CreateCall(c) ==
    /\ processMutex = "free" /\ nextPID <= MaxPid
    /\ processMutex' = c
    /\ creating' = [creating EXCEPT ![c] = nextPID]
    /\ nextPID' = nextPID + 1
    /\ UNCHANGED <<setUp, visible, metrics, baseVars>>

\* The three parallel sections, in any order.
SetUpSection(c, section) ==
    /\ processMutex = c /\ section \notin setUp[creating[c]]
    /\ setUp' = [setUp EXCEPT ![creating[c]] = @ \cup {section}]
    /\ UNCHANGED <<processMutex, nextPID, creating, visible, metrics, baseVars>>

\* Mutant: the creator does not wait for the sections (nowait).
EmplaceEarly(c) ==
    /\ processMutex = c /\ creating[c] \notin visible
    /\ visible' = visible \cup {creating[c]}
    /\ UNCHANGED <<processMutex, nextPID, creating, setUp, metrics, baseVars>>

\* The end of the parallel sections is a barrier.
Emplace(c) ==
    /\ processMutex = c /\ creating[c] \notin visible
    /\ setUp[creating[c]] = Sections
    /\ visible' = visible \cup {creating[c]}
    /\ UNCHANGED <<processMutex, nextPID, creating, setUp, metrics, baseVars>>

CreateReturn(c) ==
    /\ processMutex = c /\ creating[c] \in visible
    /\ metrics' = metrics \cup {creating[c]}
    /\ creating' = [creating EXCEPT ![c] = 0]
    /\ processMutex' = "free"
    /\ UNCHANGED <<nextPID, setUp, visible, baseVars>>

-----------------------------------------------------------------------------
\* ProcessManager: pids count from 0.

BaseCreate ==
    /\ baseNext <= MaxPid
    /\ basePIDs' = basePIDs \cup {baseNext} /\ baseNext' = baseNext + 1
    /\ UNCHANGED <<derivedVars, poolJobs>>

BaseTerminate(pid) ==
    /\ pid \in basePIDs
    /\ basePIDs' = basePIDs \ {pid}
    /\ UNCHANGED <<derivedVars, baseNext, poolJobs>>

\* schedule: the job refers to the process in the map and takes no lock.
Schedule(pid) ==
    /\ pid \in basePIDs
    /\ poolJobs' = poolJobs \cup {pid}
    /\ UNCHANGED <<derivedVars, basePIDs, baseNext>>

\* executeProcess, of a process that may be gone from the map.
ExecuteProcess(pid) ==
    /\ pid \in poolJobs
    /\ poolJobs' = poolJobs \ {pid}
    /\ UNCHANGED <<derivedVars, basePIDs, baseNext>>

Next ==
    \/ \E c \in Creators :
          \/ CreateCall(c) \/ Emplace(c) \/ CreateReturn(c)
          \/ \E section \in Sections : SetUpSection(c, section)
    \/ BaseCreate
    \/ \E pid \in 0 .. MaxPid : BaseTerminate(pid) \/ Schedule(pid) \/ ExecuteProcess(pid)

TypeOK ==
    /\ processMutex \in {"free"} \cup Creators /\ nextPID \in 1 .. MaxPid + 1
    /\ creating \in [Creators -> 0 .. MaxPid] /\ metrics \subseteq visible
    /\ setUp \in [1 .. MaxPid -> SUBSET Sections]
    /\ basePIDs \cup poolJobs \subseteq 0 .. MaxPid

\* What getProcessState and synchronizeProcesses can see, which they look for under a
\* mutex that createProcess does not take, is set up in all respects (74-118).
VisibleIsSetUp == \A pid \in visible : setUp[pid] = Sections
=============================================================================
