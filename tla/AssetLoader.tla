---------------------------- MODULE AssetLoader ----------------------------
(***************************************************************************)
(* multimedia/AssetLoader.hpp: the loader's queue and the workers of its   *)
(* thread pool.  The constructor gives the pool one endless processingLoop *)
(* for each of its threads, so tasks enqueued later (loadAssetAsync) start *)
(* only if a loop ends, which it never does: nothing clears isRunning.     *)
(* The pool itself is external: each idle thread takes the oldest task.    *)
(***************************************************************************)
EXTENDS Naturals, FiniteSets, SequencesExt

CONSTANTS
    Workers,      \* the threads of the pool
    MaxLoads,     \* bound: calls of queueAssetLoad
    MaxAsync,     \* bound: calls of loadAssetAsync
    NoLoad

VARIABLES
    poolTasks,      \* the pool's queue: "loop" or "async"
    loadingQueue,   \* the loads queued, by number
    state,          \* [Workers -> "pool", "loop" (wants queueMutex), "waiting", "running"]
    task,           \* [Workers -> the load it runs]
    queued,         \* history: how many loads were queued
    done            \* history: the loads whose callback was called, in order

vars == <<poolTasks, loadingQueue, state, task, queued, done>>

Init ==
    /\ poolTasks = [j \in 1 .. Cardinality(Workers) |-> "loop"]
    /\ loadingQueue = <<>> /\ queued = 0 /\ done = <<>>
    /\ state = [w \in Workers |-> "pool"] /\ task = [w \in Workers |-> NoLoad]

LoadAssetAsync ==
    /\ Len(SelectSeq(poolTasks, LAMBDA t : t = "async")) < MaxAsync
    /\ poolTasks' = Append(poolTasks, "async")
    /\ UNCHANGED <<loadingQueue, state, task, queued, done>>

\* The pool's thread takes a task; an async one would be over at once.
TakePoolTask(w) ==
    /\ state[w] = "pool" /\ poolTasks # <<>>
    /\ poolTasks' = Tail(poolTasks)
    /\ state' = [state EXCEPT ![w] = IF Head(poolTasks) = "loop" THEN "loop" ELSE "pool"]
    /\ UNCHANGED <<loadingQueue, task, queued, done>>

NotifyOne ==
    LET waiting == {w \in Workers : state[w] = "waiting"} IN
    IF waiting = {} THEN UNCHANGED state
    ELSE \E w \in waiting : state' = [state EXCEPT ![w] = "loop"]

\* Mutant: a worker is notified only when the queue was not empty.
QueueQuietly ==
    /\ queued < MaxLoads
    /\ queued' = queued + 1
    /\ loadingQueue' = Append(loadingQueue, queued + 1)
    /\ IF loadingQueue # <<>> THEN NotifyOne ELSE UNCHANGED state
    /\ UNCHANGED <<poolTasks, task, done>>

QueueAssetLoad ==
    /\ queued < MaxLoads
    /\ queued' = queued + 1
    /\ loadingQueue' = Append(loadingQueue, queued + 1)
    /\ NotifyOne
    /\ UNCHANGED <<poolTasks, task, done>>

\* processingLoop, with queueMutex: wait, or move the front out of the queue.
Loop(w) ==
    /\ state[w] = "loop"
    /\ IF loadingQueue = <<>>
         THEN state' = [state EXCEPT ![w] = "waiting"] /\ UNCHANGED <<loadingQueue, task>>
         ELSE /\ state' = [state EXCEPT ![w] = "running"]
              /\ task' = [task EXCEPT ![w] = Head(loadingQueue)]
              /\ loadingQueue' = Tail(loadingQueue)
    /\ UNCHANGED <<poolTasks, queued, done>>

\* task() runs without the mutex: the asset is loaded and the callback called.
Run(w) ==
    /\ state[w] = "running"
    /\ state' = [state EXCEPT ![w] = "loop"]
    /\ task' = [task EXCEPT ![w] = NoLoad]
    /\ done' = Append(done, task[w])
    /\ UNCHANGED <<poolTasks, loadingQueue, queued>>

SpuriousWakeup(w) ==
    /\ state[w] = "waiting"
    /\ state' = [state EXCEPT ![w] = "loop"]
    /\ UNCHANGED <<poolTasks, loadingQueue, task, queued, done>>

Next ==
    \/ LoadAssetAsync \/ QueueAssetLoad
    \/ \E w \in Workers : TakePoolTask(w) \/ Loop(w) \/ Run(w) \/ SpuriousWakeup(w)

InHand == {task[w] : w \in Workers} \ {NoLoad}

TypeOK ==
    /\ ToSet(poolTasks) \subseteq {"loop", "async"} /\ queued \in 0 .. MaxLoads
    /\ state \in [Workers -> {"pool", "loop", "waiting", "running"}]
    /\ task \in [Workers -> {NoLoad} \cup 1 .. queued]

\* A load is queued once, in one worker's hands or done once, and none of it twice, though
\* workers sleep, wake up for nothing and share the queue (23-31, 42-58).
LoadsOnce ==
    /\ 1 .. queued = ToSet(loadingQueue) \cup InHand \cup ToSet(done)
    /\ ToSet(loadingQueue) \cap (InHand \cup ToSet(done)) = {} /\ InHand \cap ToSet(done) = {}
    /\ IsInjective(loadingQueue) /\ IsInjective(done)
    /\ \A v, w \in Workers : task[v] # NoLoad /\ task[v] = task[w] => v = w

\* Each load that is queued is carried out, though workers sleep when they find the
\* queue empty and only one is woken for each load (23-31, 42-58).
LoadsServed == \A l \in 1 .. MaxLoads : Contains(loadingQueue, l) ~> Contains(done, l)
=============================================================================
