------------------------------ MODULE FileCache ------------------------------
(***************************************************************************)
(* filesystem/FileCache.hpp: reads through the cache and coalesced writes  *)
(* of UniversalFileCache, for one path.  The class takes no lock, so calls *)
(* of several threads interleave between its steps; each call of a part    *)
(* (cache levels, write coalescer, format handler), which the repository   *)
(* declares only, is one step.  A write is its number, and the content of  *)
(* the file is the writes the handler has applied.                         *)
(***************************************************************************)
EXTENDS Naturals, SequencesExt

CONSTANTS
    Readers, Writers,   \* the threads that call read and write
    MaxWrites,          \* bound: calls of write
    NoEntry             \* no level has an entry for the path

VARIABLES
    queue,       \* writeCoalescer: the writes queued, oldest first
    pc,          \* [Readers \cup Writers -> step]
    writes,      \* [Writers -> Seq], the local snapshot of flushWrites, what is left of it
    taken,       \* [Writers -> the writes that were in the snapshot]
    file,        \* the writes applied to the file
    cached,      \* NoEntry, or the content the cached entry was made from or updated to
    loaded,      \* [Readers -> the content its handler->read returned]
    issued,      \* history: how many writes were queued
    overlapping, \* history: the writes queued while some thread flushed
    dropped      \* history: the writes that clear() took off the queue, not in the file

vars == <<queue, pc, writes, taken, file, cached, loaded, issued, overlapping, dropped>>

readVars  == <<cached, loaded>>
writeVars == <<queue, writes, taken, file, issued, overlapping, dropped>>

Init ==
    /\ queue = <<>> /\ file = {} /\ cached = NoEntry /\ issued = 0
    /\ overlapping = {} /\ dropped = {}
    /\ pc = [t \in Readers \cup Writers |-> "idle"]
    /\ writes = [t \in Writers |-> <<>>] /\ taken = [t \in Writers |-> {}]
    /\ loaded = [t \in Readers |-> {}]

Goto(t, from, to) == pc[t] = from /\ pc' = [pc EXCEPT ![t] = to]

\* read: a miss asks the handler, which can fail; a hit changes nothing here.
ReadMiss(t) ==
    /\ Goto(t, "idle", "insert")
    /\ cached = NoEntry
    /\ loaded' = [loaded EXCEPT ![t] = file]
    /\ UNCHANGED <<cached, writeVars>>

\* insertIntoCache: what was loaded, though writes may have come in between.
Insert(t) ==
    /\ Goto(t, "insert", "idle")
    /\ cached' = loaded[t]
    /\ UNCHANGED <<loaded, writeVars>>

\* optimizeCache in the background thread can drop the entry.
OptimizeCache ==
    /\ cached' = NoEntry
    /\ UNCHANGED <<pc, loaded, writeVars>>

\* The threads between getOptimizedWrites and the end of flushWrites.
Flushing == {t \in Writers : pc[t] \in {"apply", "update"}}

Write(t) ==
    /\ issued < MaxWrites
    /\ Goto(t, "idle", "queued")
    /\ queue' = Append(queue, issued + 1)
    /\ issued' = issued + 1
    /\ overlapping' = IF Flushing = {} THEN overlapping ELSE overlapping \cup {issued + 1}
    /\ UNCHANGED <<writes, taken, file, dropped, readVars>>

\* shouldFlush says no.
WriteReturn(t) ==
    /\ Goto(t, "queued", "idle")
    /\ UNCHANGED <<writeVars, readVars>>

FlushWrites(t) ==
    /\ Goto(t, "queued", "apply")
    /\ writes' = [writes EXCEPT ![t] = queue]
    /\ taken' = [taken EXCEPT ![t] = ToSet(queue)]
    /\ UNCHANGED <<queue, file, issued, overlapping, dropped, readVars>>

HandlerWrite(t) ==
    /\ writes[t] # <<>>
    /\ Goto(t, "apply", "update")
    /\ file' = file \cup {Head(writes[t])}
    /\ UNCHANGED <<queue, writes, taken, issued, overlapping, dropped, readVars>>

\* Mutant: the loop goes on after a write that failed.
HandlerSkips(t) ==
    /\ writes[t] # <<>>
    /\ Goto(t, "apply", "apply")
    /\ writes' = [writes EXCEPT ![t] = Tail(@)]
    /\ UNCHANGED <<queue, taken, file, issued, overlapping, dropped, readVars>>

\* A write that fails ends the flush; everything stays queued.
HandlerFails(t) ==
    /\ writes[t] # <<>>
    /\ Goto(t, "apply", "idle")
    /\ writes' = [writes EXCEPT ![t] = <<>>]
    /\ UNCHANGED <<queue, taken, file, issued, overlapping, dropped, readVars>>

\* updateCacheEntry
UpdateCacheEntry(t) ==
    /\ Goto(t, "update", "apply")
    /\ cached' = IF cached = NoEntry THEN NoEntry ELSE cached \cup {Head(writes[t])}
    /\ writes' = [writes EXCEPT ![t] = Tail(@)]
    /\ UNCHANGED <<queue, taken, file, issued, overlapping, dropped, loaded>>

\* writeCoalescer.clear() drops all that is queued, in the snapshot or not.
Clear(t) ==
    /\ writes[t] = <<>>
    /\ Goto(t, "apply", "idle")
    /\ queue' = <<>>
    /\ dropped' = dropped \cup (ToSet(queue) \ file)
    /\ UNCHANGED <<writes, taken, file, issued, overlapping, readVars>>

Next ==
    \/ \E t \in Readers : ReadMiss(t) \/ Insert(t)
    \/ \E t \in Writers :
          \/ Write(t) \/ WriteReturn(t) \/ FlushWrites(t)
          \/ HandlerWrite(t) \/ HandlerFails(t) \/ UpdateCacheEntry(t) \/ Clear(t)
    \/ OptimizeCache

TypeOK ==
    /\ issued \in 0 .. MaxWrites
    /\ file \cup overlapping \cup dropped \cup ToSet(queue) \subseteq 1 .. issued
    /\ \A t \in Writers : ToSet(writes[t]) \subseteq taken[t] /\ taken[t] \subseteq 1 .. issued
    /\ cached \in {NoEntry} \cup SUBSET (1 .. issued)
    /\ loaded \in [Readers -> SUBSET (1 .. issued)]
    /\ \A t \in Readers \ Writers : pc[t] \in {"idle", "insert"}
    /\ \A t \in Writers \ Readers : pc[t] \in {"idle", "queued", "apply", "update"}

\* Whatever fails in the middle of a flush, each write is in the file, still queued, or
\* was dropped by a flush that never had it; that befalls only writes queued while some
\* thread flushed, and the code does drop those (148-162, 208-224).
WritesLocated ==
    /\ 1 .. issued = file \cup ToSet(queue) \cup dropped
    /\ dropped \subseteq overlapping

\* What the cache shows is in the file (133-141, 215-219).
CacheShowsFile == cached = NoEntry \/ cached \subseteq file
=============================================================================
