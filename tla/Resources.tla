------------------------------ MODULE Resources ------------------------------
(***************************************************************************)
(* The memory, shader, file and asset managers of one program, its event   *)
(* queue and its messages, segments and signals, side by side.  They share *)
(* no state and no lock, and none calls another, so a behaviour exercises  *)
(* one of them, the one named by focus, and the others stand still: the    *)
(* product of their states would show nothing more.                        *)
(***************************************************************************)
EXTENDS EventQueue, IPC

CONSTANTS
    \* GraphicsResources
    ResourceIds, ResourceSizes, TexturePaths, TextureSize, CacheSize, WordSize,
    MaxCharge,
    \* VirtualMemory
    BlockSizes, FirstBlock, TotalMemories, MemoryWord, MaxBlocks, MaxCompressed,
    \* EnhancedMemory
    Pointers, GameSizes, ResourceNames,
    TotalPages, PageSize, HugePageSize, MemoryStart, Sizes,
    \* ShaderCache
    Sources, Types, Keys, Malformed, MaxCacheSize, CacheTimeout, MaxTime, NoShader,
    \* FileCache
    Readers, Writers, MaxWrites, NoEntry,
    \* AssetLoader
    Workers, MaxLoads, MaxAsync, NoLoad

\* Sizes are counted in bytes, a word holds some numbers, and bounds are numbers.
ASSUME GraphicsAssumption ==
    /\ ResourceSizes \subseteq Nat \ {0} /\ TextureSize \in Nat
    /\ CacheSize \in Nat /\ MaxCharge \in Nat
    /\ WordSize \in Nat \ {0} /\ MemoryWord \in Nat \ {0}
    /\ BlockSizes \subseteq Nat /\ FirstBlock \in Nat /\ MaxCompressed \in Nat
    /\ GameSizes \subseteq Nat

\* The default shaders are among those there are.
ASSUME ShaderAssumption ==
    /\ {"default_vertex", "default_fragment", "post_process", "shadow_vertex"} \subseteq Keys
    /\ "good" \in Sources /\ {"vertex", "fragment"} \subseteq Types /\ MaxTime \in Nat

\* Pages of both sizes hold at least a byte, no request is for no bytes, which gets
\* nullptr, the shader cache has room for an entry, and the thread pool is finite.
ASSUME ResourcesAssumption ==
    /\ TotalPages \in Nat /\ MemoryStart \in Nat
    /\ PageSize \in Nat \ {0} /\ HugePageSize \in Nat \ {0} /\ Sizes \subseteq Nat \ {0}
    /\ MaxCacheSize \in Nat \ {0} /\ CacheTimeout \in Nat
    /\ NoLoad \notin Nat /\ IsFiniteSet(Workers) /\ MaxLoads \in Nat /\ MaxWrites \in Nat

VARIABLES
    focus,
    gpuCache, preloadCharge, textureCharge, textureCache, trackers, infos, crashed,
    memoryBlocks, totalMemory, compressedMemory, charged,
    heap, allocations, memoryMap, totalAllocated, peakUsage, resources, overwritten,
    bitmap, freePages, regions,
    binaries, shaderCache, now,
    queue, pc, writes, taken, file, cached, loaded, issued, overlapping, dropped,
    poolTasks, loadingQueue, state, task, queued, done

Graphics == INSTANCE GraphicsResources
Virtual  == INSTANCE VirtualMemory
Memory   == INSTANCE EnhancedMemory
Shaders  == INSTANCE ShaderCache WITH
              Defaults <- <<<<"default_vertex", "good", "vertex">>,
                            <<"default_fragment", "good", "fragment">>,
                            <<"post_process", "good", "fragment">>,
                            <<"shadow_vertex", "good", "vertex">>>>
Files    == INSTANCE FileCache
Assets   == INSTANCE AssetLoader

graphicsVars == <<gpuCache, preloadCharge, textureCharge, textureCache, trackers, infos, crashed>>
virtualVars  == <<memoryBlocks, totalMemory, compressedMemory, charged>>
gameVars     == <<heap, allocations, memoryMap, totalAllocated, peakUsage, resources, overwritten>>
hugeVars     == <<bitmap, freePages, regions>>
shaderVars   == <<binaries, shaderCache, now>>
fileVars     == <<queue, pc, writes, taken, file, cached, loaded, issued, overlapping, dropped>>
assetVars    == <<poolTasks, loadingQueue, state, task, queued, done>>

partVars == <<graphicsVars, virtualVars, gameVars, hugeVars, shaderVars, fileVars, assetVars>>

vars == <<focus, partVars, eventVars, ipcVars>>

\* What virtual memory finds in its memory matters only where it is in focus.
Init ==
    /\ focus \in {"graphics", "virtual", "game", "huge", "shaders", "files", "assets",
                  "events", "messages"}
    /\ Graphics!Init /\ Virtual!Init /\ Memory!Init
    /\ Shaders!Init /\ Files!Init /\ Assets!Init
    /\ EventInit /\ IPCInit
    /\ focus # "virtual" => compressedMemory = 0 /\ \A m \in TotalMemories : totalMemory <= m

GraphicsStep ==
    /\ focus = "graphics" /\ Graphics!Next
    /\ UNCHANGED <<focus, eventVars, ipcVars, virtualVars, gameVars, hugeVars, shaderVars, fileVars, assetVars>>

VirtualStep ==
    /\ focus = "virtual" /\ Virtual!Next
    /\ UNCHANGED <<focus, eventVars, ipcVars, graphicsVars, gameVars, hugeVars, shaderVars, fileVars, assetVars>>

GameStep ==
    /\ focus = "game" /\ Memory!GameNext
    /\ UNCHANGED <<focus, eventVars, ipcVars, graphicsVars, virtualVars, hugeVars, shaderVars, fileVars, assetVars>>

HugeStep ==
    /\ focus = "huge" /\ Memory!HugeNext
    /\ UNCHANGED <<focus, eventVars, ipcVars, graphicsVars, virtualVars, gameVars, shaderVars, fileVars, assetVars>>

ShadersStep ==
    /\ focus = "shaders" /\ Shaders!Next
    /\ UNCHANGED <<focus, eventVars, ipcVars, graphicsVars, virtualVars, gameVars, hugeVars, fileVars, assetVars>>

FilesStep ==
    /\ focus = "files" /\ Files!Next
    /\ UNCHANGED <<focus, eventVars, ipcVars, graphicsVars, virtualVars, gameVars, hugeVars, shaderVars, assetVars>>

AssetsStep ==
    /\ focus = "assets" /\ Assets!Next
    /\ UNCHANGED <<focus, eventVars, ipcVars, graphicsVars, virtualVars, gameVars, hugeVars, shaderVars, fileVars>>

EventsStep ==
    /\ focus = "events" /\ EventNext
    /\ UNCHANGED <<focus, partVars, ipcVars>>

MessagesStep ==
    /\ focus = "messages" /\ IPCNext
    /\ UNCHANGED <<focus, partVars, eventVars>>

Next ==
    \/ EventsStep \/ MessagesStep
    \/ GraphicsStep \/ VirtualStep \/ GameStep \/ HugeStep
    \/ ShadersStep \/ FilesStep \/ AssetsStep

\* A worker that can go on does: queueMutex is held for a moment only, and a load and
\* its callback come to an end.
WorkerGoesOn(w) ==
    /\ focus = "assets"
    /\ Assets!TakePoolTask(w) \/ Assets!Loop(w) \/ Assets!Run(w)
    /\ UNCHANGED <<focus, eventVars, ipcVars, graphicsVars, virtualVars, gameVars, hugeVars, shaderVars, fileVars>>

\* A consumer that was woken gets the mutex of the event queue in the end: each of its
\* critical sections is short, and none waits inside for anything.
ConsumerGoesOn(c) ==
    /\ focus = "events" /\ Recheck(c)
    /\ UNCHANGED <<focus, partVars, ipcVars>>

Fairness ==
    /\ \A w \in Workers : WF_vars(WorkerGoesOn(w))
    /\ \A c \in Consumer : WF_vars(ConsumerGoesOn(c))

Spec == Init /\ [][Next]_vars /\ Fairness

-----------------------------------------------------------------------------

\* The type invariant of each manager.
TypeOK ==
    /\ Graphics!TypeOK /\ Virtual!TypeOK /\ Memory!TypeOK
    /\ Shaders!TypeOK /\ Files!TypeOK /\ Assets!TypeOK

\* What the managers' counters say is held covers what they hold, whatever they started
\* from: what preloading charged, what compressing charged, and game memory.
Accounted == Graphics!ChargeCovers /\ Virtual!CompressedCovers /\ Memory!TotalsAgree

\* Two records of one thing agree: trackers and infos of textures, the two records of
\* game memory, marked and counted pages with the blocks of small ones, the writes that
\* are queued, dropped and in the file with what the cache shows, loads queued and done;
\* and the shader cache keeps to its size.
RecordsAgree ==
    /\ Graphics!TrackersHaveInfos /\ Memory!HeapOwned /\ Memory!SmallPagesApart
    /\ Shaders!CacheBounded /\ Files!WritesLocated /\ Files!CacheShowsFile
    /\ Assets!LoadsOnce

\* The shader cache drops an entry, for room or for age, only when no entry that stays
\* was last used before it.
EvictsOldest == Shaders!EvictsOldest

\* Every asset load that is queued is carried out, though a worker sleeps when it finds
\* the queue empty and one worker is woken for each load.
LoadsServed == Assets!LoadsServed
=============================================================================
