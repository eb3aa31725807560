---------------------------- MODULE AudioSystem ----------------------------
(***************************************************************************)
(* drivers/audio/audio_system.cpp and com/com_manager.hpp, two small       *)
(* managers of threads: the audio thread that fills the buffers until it   *)
(* is stopped, and the COM apartments of the threads.  The processing of   *)
(* samples is left out.  A buffer that is ready stays so: nothing in the   *)
(* class takes it back, and after the first block there is nothing to do.  *)
(***************************************************************************)
EXTENDS Naturals, FiniteSets

CONSTANTS
    Buffers,
    Threads      \* that use COM

VARIABLES
    running,
    thread,       \* "none", "waiting" in its sleep, "processing", "ended"
    joining,      \* stopProcessing waits for it
    ready,        \* the buffers that are
    block,        \* the buffers the block in progress has not come to
    buffersProcessed,
    crashed,      \* a joinable thread was assigned over
    comInitialized, threadInitMap,
    apartment     \* [Threads -> CoInitializeEx minus CoUninitialize]

vars == <<running, thread, joining, ready, block, buffersProcessed, crashed,
          comInitialized, threadInitMap, apartment>>

audioVars == <<running, thread, joining, ready, block, buffersProcessed, crashed>>
comVars   == <<comInitialized, threadInitMap, apartment>>

Init ==
    /\ running = FALSE /\ thread = "none" /\ joining = FALSE
    /\ ready = {} /\ block = {} /\ buffersProcessed = 0 /\ crashed = FALSE
    /\ comInitialized = FALSE /\ threadInitMap = {} /\ apartment = [t \in Threads |-> 0]

\* startProcessing, at the end of initialize; a second start ends the program.
StartProcessing ==
    /\ ~ joining
    /\ running' = TRUE
    /\ IF thread = "none" THEN thread' = "waiting" /\ UNCHANGED crashed
                          ELSE crashed' = TRUE /\ UNCHANGED thread
    /\ UNCHANGED <<joining, ready, block, buffersProcessed, comVars>>

StopProcessing ==
    /\ ~ joining
    /\ running' = FALSE /\ joining' = (thread # "none")
    /\ UNCHANGED <<thread, ready, block, buffersProcessed, crashed, comVars>>

\* Mutant: the thread is joined only when it has no block to finish.
JoinedEarly ==
    /\ joining /\ joining' = FALSE
    /\ UNCHANGED <<running, thread, ready, block, buffersProcessed, crashed, comVars>>

Joined ==
    /\ joining /\ thread = "ended"
    /\ joining' = FALSE /\ thread' = "none"
    /\ UNCHANGED <<running, ready, block, buffersProcessed, crashed, comVars>>

\* The thread's loop: the test of running, then a block over all the buffers.
Loop ==
    /\ thread = "waiting"
    /\ thread' = IF running THEN "processing" ELSE "ended"
    /\ block' = IF running THEN Buffers ELSE {}
    /\ UNCHANGED <<running, joining, ready, buffersProcessed, crashed, comVars>>

ProcessBuffer(b) ==
    /\ thread = "processing" /\ b \in block
    /\ block' = block \ {b} /\ ready' = ready \cup {b}
    /\ buffersProcessed' = IF b \in ready THEN buffersProcessed ELSE buffersProcessed + 1
    /\ UNCHANGED <<running, thread, joining, crashed, comVars>>

BlockDone ==
    /\ thread = "processing" /\ block = {}
    /\ thread' = "waiting"
    /\ UNCHANGED <<running, joining, ready, block, buffersProcessed, crashed, comVars>>

-----------------------------------------------------------------------------
\* ComManager: one flag for the program, an apartment for each thread.

ComInitialize(t) ==
    /\ ~ comInitialized
    /\ comInitialized' = TRUE /\ threadInitMap' = threadInitMap \cup {t}
    /\ apartment' = [apartment EXCEPT ![t] = @ + 1]
    /\ UNCHANGED audioVars

\* Mutant: the map keeps the thread.
ComUninitializeKeeps(t) ==
    /\ t \in threadInitMap
    /\ apartment' = [apartment EXCEPT ![t] = @ - 1]
    /\ UNCHANGED <<comInitialized, threadInitMap, audioVars>>

\* The flag stays set: COM is initialized once, by one thread.
ComUninitialize(t) ==
    /\ t \in threadInitMap
    /\ threadInitMap' = threadInitMap \ {t}
    /\ apartment' = [apartment EXCEPT ![t] = @ - 1]
    /\ UNCHANGED <<comInitialized, audioVars>>

Next ==
    /\ ~ crashed
    /\ \/ StartProcessing \/ StopProcessing \/ Joined \/ Loop \/ BlockDone
       \/ \E b \in Buffers : ProcessBuffer(b)
       \/ \E t \in Threads : ComInitialize(t) \/ ComUninitialize(t)

TypeOK ==
    /\ running \in BOOLEAN /\ thread \in {"none", "waiting", "processing", "ended"}
    /\ ready \subseteq Buffers /\ buffersProcessed = Cardinality(ready)
    /\ apartment \in [Threads -> 0 .. 1]

\* When stopProcessing has returned, the thread is gone, and what it was doing is done:
\* no block is left half processed (85-105).
StoppedIsQuiet == ~ running /\ ~ joining => thread = "none" /\ block = {}

\* A thread leaves its apartment as often as it entered it (com_manager.hpp 24-44).
ApartmentsBalanced == \A t \in Threads : apartment[t] = IF t \in threadInitMap THEN 1 ELSE 0
=============================================================================
