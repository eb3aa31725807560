------------------------- MODULE VirtualFileSystem -------------------------
(***************************************************************************)
(* filesystem/VirtualFileSystem.cpp: reads through a cache of several      *)
(* levels, with three background threads that optimize the cache, compress *)
(* what is in it and make the cache and the pool of buffers larger.        *)
(*                                                                         *)
(* read takes no lock of its own: it is a chain of calls, each under the   *)
(* lock of the object it is made on (cache_mutex, pool_mutex) or under     *)
(* none (mappedFiles), and each is a step here.  Files are not written by  *)
(* this code, so a piece of data is known by its place in its file; sizes  *)
(* are counted in chunks.  Hit ratios, latencies and throughput only feed  *)
(* the log and the collector, which may find any value of them.            *)
(***************************************************************************)
EXTENDS Integers, Sequences, FiniteSets, FiniteSetsExt, Functions

CONSTANTS
    Reader,             \* threads that call read, each on a descriptor of its own
    Path,
    FileSize,           \* [Path -> chunks]
    LargeFile,          \* files larger than this are mapped (771)
    BufferSize,         \* BUFFER_SIZE
    PoolSize,           \* POOL_SIZE, buffers
    PoolGrowth,         \* buffers added by the collector (743)
    LevelSizes,         \* sizes of the cache levels, highest first (315-317)
    LevelGrowth,        \* added to the first of them by the collector (738)
    FrequentAccess,     \* accessCount beyond which an entry moves up (431)
    CompressThreshold,  \* COMPRESS_THRESHOLD
    ReadSizes,          \* the sizes that are asked for
    SizeLimit,          \* size_t holds 0 .. SizeLimit - 1
    NoBuffer, Stale,    \* no buffer; a pointer into the pool's former memory
    Nothing,            \* no data to put back
    NoReader,           \* the last read answered something else
    MaxPosition,        \* bound: positions a descriptor may reach
    MaxPool,            \* bound: buffers
    MaxLevelSize        \* bound: size of the first level

Level == DOMAIN LevelSizes

ASSUME FileAssumption == /\ FileSize \in [Path -> Nat \ {0}]
                         /\ SizeLimit \in Nat /\ ReadSizes \subseteq 1 .. SizeLimit - 1
ASSUME BufferAssumption == /\ BufferSize \in Nat \ {0} /\ PoolSize \in Nat /\ PoolGrowth \in Nat
                           /\ NoBuffer \notin Nat /\ Stale \notin Nat /\ NoBuffer # Stale
\* accessCount counts the levels that hold a path, so entries never move up (428-442).
ASSUME LevelAssumption == /\ LevelSizes \in Seq(Nat \ {0}) /\ LevelSizes # <<>>
                          /\ Len(LevelSizes) <= FrequentAccess /\ LevelGrowth \in Nat

VARIABLES
    levels,      \* [Level -> [size, data]]; data: paths -> [from, len, packed]
    recency,     \* pairs of cached paths: the timestamp of the first is the older one
    pool,        \* the in_use flags of the buffers
    mappedFiles, \* [Path -> "none", "fresh" (not mapped), "mapped"]
    pc, file, position,   \* each reader's place, and the descriptor it reads from
    lost,        \* the readers whose descriptor shows something else: its memory was used anew
    size, buffer, piece,  \* the locals of read
    atEnd,       \* history: the reader that was told 0, the end, by the last read
    compressing, \* compressInactiveFiles is running; it holds the mutex
    todo,        \* ... the paths it has still to look at
    packing      \* ... and the path and data it is about to put

cacheVars == <<levels, recency>>
localVars == <<size, buffer, piece>>
readVars  == <<pc, file, position, lost, atEnd, localVars>>
workVars  == <<compressing, todo, packing>>
vars == <<cacheVars, pool, mappedFiles, readVars, workVars>>

Init ==
    /\ levels = [l \in Level |-> [size |-> LevelSizes[l], data |-> [x \in {} |-> 0]]]
    /\ recency = {}
    /\ pool = [k \in 1 .. PoolSize |-> FALSE]
    /\ mappedFiles = [p \in Path |-> "none"]
    /\ pc = [r \in Reader |-> "idle"]
    /\ file \in [Reader -> Path]
    /\ position = [r \in Reader |-> 0]
    /\ lost = {}
    /\ size = [r \in Reader |-> 0]
    /\ buffer = [r \in Reader |-> NoBuffer]
    /\ piece = [r \in Reader |-> Nothing]
    /\ atEnd = NoReader
    /\ compressing = FALSE
    /\ todo = {}
    /\ packing = Nothing

-----------------------------------------------------------------------------
\* MultiLevelCache

Holding(key) == {l \in Level : key \in DOMAIN levels[l].data}
Cached(key)  == Holding(key) # {}
Entry(key)   == levels[Min(Holding(key))].data[key]

Paths        == {p \in Path : Cached(p)}

\* A cached path, or one that comes to the cache now, gets the newest timestamp.
Touched(key) ==
    {x \in recency : key \notin {x[1], x[2]}} \cup {<<p, key>> : p \in Paths \ {key}}

Without(f, S) == Restrict(f, DOMAIN f \ S)

With(f, x, y) == [z \in DOMAIN f \cup {x} |-> IF z = x THEN y ELSE f[z]]

\* The cache's own source does not hold this function: the name and its call (333)
\* say that an entry found below the first level moves one level up.
PromoteToHigherLevel(key, l) ==
    IF l = 1 THEN levels
    ELSE [levels EXCEPT ![l].data = Without(@, {key}),
                        ![l - 1].data = With(@, key, levels[l].data[key])]

Get(key) ==
    /\ levels' = PromoteToHigherLevel(key, Min(Holding(key)))
    /\ recency' = Touched(key)

Put(key, data) ==
    LET l == IF Cached(key) THEN Min(Holding(key)) ELSE 1
    IN  /\ levels' = [levels EXCEPT ![l].data = With(@, key, data)]
        /\ recency' = Touched(key)

\* The chunks that a level's entries take together.
Size(data) == Cardinality(UNION {{k} \X (1 .. data[k].len) : k \in DOMAIN data})

Overfull(l) == Size(levels[l].data) > (9 * levels[l].size) \div 10

\* The entries of a level that go before the one for key.
Older(data, key) == Restrict(data, {k \in DOMAIN data : <<k, key>> \in recency})

\* Mutant: the loop stops as soon as it may start.
EvictedFirst(l) ==
    LET data == levels[l].data
    IN  {k \in DOMAIN data :
            Overfull(l) /\ 10 * (Size(data) - Size(Older(data, k))) < 7 * levels[l].size}

\* A level more than 90% full loses its oldest entries until less than 70% is left.
Evicted(l) ==
    LET data == levels[l].data
    IN  {k \in DOMAIN data :
            Overfull(l) /\ 10 * (Size(data) - Size(Older(data, k))) >= 7 * levels[l].size}

Optimize ==
    /\ levels' = [l \in Level |-> [levels[l] EXCEPT !.data = Without(@, Evicted(l))]]
    /\ recency' = {x \in recency : Cached(x[1])' /\ Cached(x[2])'}
    /\ UNCHANGED <<pool, mappedFiles, readVars, workVars>>

-----------------------------------------------------------------------------
\* collectAndAnalyzeMetrics

\* Mutant: the new buffers take the place of the old ones.
ExpandedFresh(moved) ==
    /\ pool' = [k \in 1 .. Len(pool) + PoolGrowth |-> FALSE]
    /\ buffer' = buffer

\* pool.resize: the buffers are copied to new memory when the old has no room left,
\* and pointers to them then point to memory that was freed.
Expanded(moved) ==
    /\ pool' = pool \o [k \in 1 .. PoolGrowth |-> FALSE]
    /\ buffer' = [r \in Reader |->
                    IF moved /\ buffer[r] # NoBuffer THEN Stale ELSE buffer[r]]

\* Each of the two is done or not, by the ratios measured.
Collect ==
    /\ ~ compressing
    /\ \/ UNCHANGED levels
       \/ /\ levels[1].size + LevelGrowth <= MaxLevelSize
          /\ levels' = [levels EXCEPT ![1].size = @ + LevelGrowth]
    /\ \/ UNCHANGED <<pool, buffer>>
       \/ /\ Len(pool) + PoolGrowth <= MaxPool
          /\ \E moved \in BOOLEAN : Expanded(moved)
    /\ UNCHANGED <<recency, mappedFiles, pc, file, position, lost, atEnd, size, piece, workVars>>

-----------------------------------------------------------------------------
\* compressInactiveFiles

\* Mutant: total_out may be 0.
CompressedEmpty(data) ==
    {data} \cup
    (IF data.packed \/ data.len < CompressThreshold THEN {}
     ELSE {[data EXCEPT !.len = n, !.packed = TRUE] : n \in 0 .. data.len - 1})

\* What compress may return: data that is short or packed does not get smaller.
Compressed(data) ==
    {data} \cup
    (IF data.packed \/ data.len < CompressThreshold THEN {}
     ELSE {[data EXCEPT !.len = n, !.packed = TRUE] : n \in 1 .. data.len - 1})

CompressStart ==
    /\ ~ compressing
    /\ compressing' = TRUE
    /\ \E path \in Paths : todo' = {p \in Paths : p = path \/ <<p, path>> \in recency}
    /\ UNCHANGED <<cacheVars, pool, mappedFiles, readVars, packing>>

CompressGet ==
    /\ packing = Nothing
    /\ \E path \in todo :
        /\ todo' = todo \ {path}
        /\ IF Cached(path)
             THEN /\ Get(path)
                  /\ \E data \in Compressed(Entry(path)) :
                        packing' = IF data = Entry(path) THEN Nothing
                                   ELSE [path |-> path, data |-> data]
             ELSE UNCHANGED <<cacheVars, packing>>
    /\ UNCHANGED <<pool, mappedFiles, readVars, compressing>>

CompressPut ==
    /\ packing # Nothing
    /\ Put(packing.path, packing.data)
    /\ packing' = Nothing
    /\ UNCHANGED <<pool, mappedFiles, readVars, compressing, todo>>

CompressEnd ==
    /\ compressing /\ todo = {} /\ packing = Nothing
    /\ compressing' = FALSE
    /\ UNCHANGED <<cacheVars, pool, mappedFiles, readVars, todo, packing>>

-----------------------------------------------------------------------------
\* read(fd, buffer, size)

\* A reader gets a pointer into openFiles, to a descriptor at the start of a file
\* (VirtualFileSystem.hpp:162-171).  The vector may move, and the pointers that the other
\* readers have are then to memory it gave back: each goes on with what is still there, or
\* is lost, and a lost one is not followed until it gets a new pointer.
Open(r) ==
    /\ pc[r] = "idle"
    /\ \E S \in SUBSET (Reader \ {r}) : lost' = (lost \cup S) \ {r}
    /\ \E p \in Path : file' = [file EXCEPT ![r] = p]
    /\ position' = [position EXCEPT ![r] = 0]
    /\ atEnd' = NoReader
    /\ UNCHANGED <<cacheVars, pool, mappedFiles, pc, localVars, workVars>>

\* The position moves on with what was read, and the locals of read die.
Answer(r, n) ==
    /\ atEnd' = IF n = 0 THEN r ELSE NoReader
    /\ position' = [position EXCEPT ![r] = @ + (IF n = -1 THEN 0 ELSE n)]
    /\ size' = [size EXCEPT ![r] = 0]
    /\ piece' = [piece EXCEPT ![r] = Nothing]
    /\ UNCHANGED <<file, lost>>

\* read goes on.
Pending == UNCHANGED <<file, position, lost, atEnd>>

\* The rest of the cached data after the position, in size_t arithmetic.
ReadHit(r) ==
    /\ pc[r] = "idle" /\ r \notin lost /\ Cached(file[r])
    /\ \E n \in ReadSizes :
        LET copySize == Min({n, (Entry(file[r]).len - position[r]) % SizeLimit})
        IN  /\ position[r] + copySize <= MaxPosition
            /\ Answer(r, copySize)
    /\ Get(file[r])
    /\ UNCHANGED <<pool, mappedFiles, pc, buffer, workVars>>

ReadMiss(r) ==
    /\ pc[r] = "idle" /\ r \notin lost /\ ~ Cached(file[r])
    /\ \E n \in ReadSizes : size' = [size EXCEPT ![r] = n]
    /\ pc' = [pc EXCEPT ![r] = IF FileSize[file[r]] > LargeFile THEN "find" ELSE "acquire"]
    /\ Pending
    /\ UNCHANGED <<cacheVars, pool, mappedFiles, buffer, piece, workVars>>

Goto(r, where) == pc' = [pc EXCEPT ![r] = where]

\* The mapping of a large file: tested, created and mapped in steps, under no lock.
FindMapping(r) ==
    /\ pc[r] = "find" /\ r \notin lost
    /\ Goto(r, IF mappedFiles[file[r]] = "none" THEN "create" ELSE "copy") /\ Pending
    /\ UNCHANGED <<cacheVars, pool, mappedFiles, localVars, workVars>>

\* The object that was there, if another reader was faster, is unmapped.
CreateMapping(r) ==
    /\ pc[r] = "create" /\ r \notin lost
    /\ mappedFiles' = [mappedFiles EXCEPT ![file[r]] = "fresh"]
    /\ Goto(r, "map") /\ Pending
    /\ UNCHANGED <<cacheVars, pool, localVars, workVars>>

\* A mapping that fails leaves its object behind.
MapFile(r) ==
    /\ pc[r] = "map" /\ r \notin lost
    /\ \/ /\ mappedFiles' = [mappedFiles EXCEPT ![file[r]] = "mapped"]
          /\ Goto(r, "copy") /\ Pending /\ UNCHANGED <<size, piece>>
       \/ /\ Answer(r, -1)
          /\ Goto(r, "idle")
          /\ UNCHANGED mappedFiles
    /\ UNCHANGED <<cacheVars, pool, buffer, workVars>>

Piece(r, n) == [from |-> position[r], len |-> n, packed |-> FALSE]

\* A file that is not mapped has file_size 0.
CopyMapped(r) ==
    LET mappedSize == IF mappedFiles[file[r]] = "mapped" THEN FileSize[file[r]] ELSE 0 IN
    /\ pc[r] = "copy" /\ r \notin lost
    /\ IF position[r] >= mappedSize
         THEN Answer(r, 0) /\ Goto(r, "idle")
         ELSE /\ piece' = [piece EXCEPT ![r] = Piece(r, Min({size[r], mappedSize - position[r]}))]
              /\ Goto(r, "store") /\ Pending /\ UNCHANGED size
    /\ UNCHANGED <<cacheVars, pool, mappedFiles, buffer, workVars>>

Acquire(r) ==
    LET free == {k \in DOMAIN pool : ~ pool[k]} IN
    /\ pc[r] = "acquire"
    /\ IF free = {}
         THEN Answer(r, -1) /\ Goto(r, "idle") /\ UNCHANGED <<pool, buffer>>
         ELSE /\ pool' = [pool EXCEPT ![Min(free)] = TRUE]
              /\ buffer' = [buffer EXCEPT ![r] = Min(free)]
              /\ Goto(r, "fill") /\ Pending /\ UNCHANGED <<size, piece>>
    /\ UNCHANGED <<cacheVars, mappedFiles, workVars>>

\* Mutant: the count of bytes read (823) is not looked at.
FillBlind(r) ==
    /\ pc[r] = "fill" /\ r \notin lost
    /\ piece' = [piece EXCEPT ![r] = Piece(r, Min({size[r], BufferSize}))]
    /\ Goto(r, "store") /\ Pending
    /\ UNCHANGED <<cacheVars, pool, mappedFiles, size, buffer, workVars>>

\* The file cannot be opened, there is nothing at the position, or data is read.
Fill(r) ==
    LET bytesRead == Min({BufferSize, FileSize[file[r]] - position[r]}) IN
    /\ pc[r] = "fill" /\ r \notin lost
    /\ \/ Answer(r, -1) /\ Goto(r, "release")
       \/ bytesRead <= 0 /\ Answer(r, 0) /\ Goto(r, "release")
       \/ /\ bytesRead > 0
          /\ piece' = [piece EXCEPT ![r] = Piece(r, Min({bytesRead, size[r]}))]
          /\ Goto(r, "store") /\ Pending /\ UNCHANGED size
    /\ UNCHANGED <<cacheVars, pool, mappedFiles, buffer, workVars>>

\* What was read replaces the path's entry in the cache.
Store(r) ==
    /\ pc[r] = "store" /\ r \notin lost
    /\ Put(file[r], piece[r])
    /\ Answer(r, piece[r].len)
    /\ Goto(r, IF buffer[r] = NoBuffer THEN "idle" ELSE "release")
    /\ UNCHANGED <<pool, mappedFiles, buffer, workVars>>

\* Through a stale pointer the flag is cleared in memory the pool no longer uses.
Release(r) ==
    /\ pc[r] = "release"
    /\ pool' = IF buffer[r] = Stale THEN pool ELSE [pool EXCEPT ![buffer[r]] = FALSE]
    /\ buffer' = [buffer EXCEPT ![r] = NoBuffer]
    /\ Goto(r, "idle")
    /\ UNCHANGED <<cacheVars, mappedFiles, file, position, lost, atEnd, size, piece, workVars>>

-----------------------------------------------------------------------------

Reading(r) ==
    \/ FindMapping(r) \/ CreateMapping(r) \/ MapFile(r) \/ CopyMapped(r)
    \/ Acquire(r) \/ Fill(r) \/ Store(r) \/ Release(r)

Compressing == CompressGet \/ CompressPut \/ CompressEnd

Next ==
    \/ Optimize \/ Collect \/ CompressStart \/ Compressing
    \/ \E r \in Reader : Open(r) \/ ReadHit(r) \/ ReadMiss(r) \/ Reading(r)

\* The optimizer's thread comes back every minute (659-664) and finds the lock free
\* again and again; nothing is asked of readers, compressor and collector.
Fairness == WF_vars(Optimize)

Spec == Init /\ [][Next]_vars /\ Fairness

-----------------------------------------------------------------------------
\* Properties

Held == {k \in DOMAIN pool : \E r \in Reader : buffer[r] = k}

\* Every level maps paths to pieces no longer than their files.
CacheTypeOK ==
    \A l \in Level :
        /\ levels[l].size \in Nat
        /\ \A p \in DOMAIN levels[l].data : p \in Path /\ levels[l].data[p].len \in 1 .. FileSize[p]

ReadTypeOK ==
    /\ pool \in Seq(BOOLEAN)
    /\ mappedFiles \in [Path -> {"none", "fresh", "mapped"}]
    /\ pc \in [Reader -> {"idle", "find", "create", "map", "copy",
                          "acquire", "fill", "store", "release"}]
    /\ file \in [Reader -> Path] /\ position \in [Reader -> Nat]
    /\ \A r \in Reader : buffer[r] \in DOMAIN pool \cup {NoBuffer, Stale}
    /\ atEnd \in Reader \cup {NoReader} /\ lost \subseteq Reader

\* The timestamps order exactly the paths that are cached, one after the other.
RecencyTypeOK ==
    /\ recency \subseteq Paths \X Paths
    /\ \A p, q \in Paths : (<<p, q>> \in recency) = (p # q /\ <<q, p>> \notin recency)
    /\ \A p, q, h \in Paths : <<p, q>> \in recency /\ <<q, h>> \in recency => <<p, h>> \in recency
    /\ todo \subseteq Path

\* The type invariant: what the cache, its clock and the readers hold (324-354, 747-844).
TypeOK == CacheTypeOK /\ ReadTypeOK /\ RecencyTypeOK

\* What is cached for a path was in its file, unpacked or packed, also when the entry
\* was evicted and read anew while the compressor held a copy (688-706).
PiecesGenuine ==
    \A l \in Level : \A p \in DOMAIN levels[l].data :
        LET e == levels[l].data[p] IN e.from >= 0 /\ e.from + e.len <= FileSize[p]

\* Growing the pool under the readers (275, 743) never lets two of them have one
\* buffer, nor one that is not marked in use.
BufferExclusive ==
    /\ \A k \in Held : pool[k]
    /\ \A r, q \in Reader : (r # q /\ buffer[r] \in Nat) => buffer[r] # buffer[q]

\* A level that is more than 90% full does not stay so (403-425), though readers and
\* the compressor go on adding.
CacheShrinks ==
    \A l \in Level : Overfull(l) ~> ~ Overfull(l)

-----------------------------------------------------------------------------
\* What the code's comments say and the code does not do.

\* "return 0; // EOF" (786): a read answers 0 at the end of the file only.
ZeroMeansEOF ==
    atEnd \in Reader => position[atEnd] >= FileSize[file[atEnd]]

\* "Increase buffer pool size" (742): buffers are added to those there are, so when
\* no read is under way all of them are free.
BuffersComeBack ==
    (\A r \in Reader : pc[r] = "idle") => \A k \in DOMAIN pool : ~ pool[k]
=============================================================================
