------------------------- MODULE GraphicsResources -------------------------
(***************************************************************************)
(* memory/GraphicsResourceManager.hpp: the cache of preloaded resources    *)
(* and the textures with their trackers.  Every public operation holds     *)
(* resourceMutex throughout, so it is a step.                              *)
(*                                                                         *)
(* A handle (void* resource) is <<path, n>>: the texture of path after its *)
(* n-th move.  registerResource and createTextureResource are declared     *)
(* only: registering records a tracker and an info, as releasing needs     *)
(* them, and may charge the size that releasing takes off or not.          *)
(*                                                                         *)
(* Nothing puts a block into dedicatedVRAM.blocks, so defragmentMemory     *)
(* counts to blocks.size() - 1 of an empty vector (220) and reads from a   *)
(* null pointer: an operation that comes to it ends the process.           *)
(***************************************************************************)
EXTENDS Integers, SequencesExt, FiniteSetsExt

CONSTANTS
    ResourceIds,   \* uint64_t; evictLeastUsed takes 0 for "none"
    ResourceSizes, \* sizes of preloaded resources
    TexturePaths,
    TextureSize,
    CacheSize,     \* CACHE_SIZE
    WordSize,      \* 2^64: size_t wraps around
    MaxCharge      \* bound: preloadCharge

VARIABLES
    gpuCache,          \* [id, size, isPriority], in the order of lastUseTime
    preloadCharge,     \* what preloading and evicting changed in currentCacheSize
    textureCharge,     \* what loading and releasing textures changed in it
    textureCache,      \* the paths with a cached texture
    trackers,          \* resources, by path: [handle, isInUse, isPriority, old]
    infos,             \* the handles in resourceInfoMap
    crashed            \* defragmentMemory read from the empty vector of blocks

vars == <<gpuCache, preloadCharge, textureCharge, textureCache, trackers, infos, crashed>>

textureVars == <<textureCharge, textureCache, trackers, infos>>
cacheVars   == <<gpuCache, preloadCharge>>

Init ==
    /\ gpuCache = <<>> /\ preloadCharge = 0 /\ textureCharge = 0
    /\ textureCache = {} /\ trackers = <<>> /\ infos = {}
    /\ crashed = FALSE

CurrentCacheSize == (preloadCharge + textureCharge) % WordSize

-----------------------------------------------------------------------------
\* The cache of preloaded resources

\* An id has one entry.
Without(cache, id) == RemoveFirstMatch(cache, LAMBDA r : r.id = id)

\* The sizes of some entries, or blocks, by their positions.
TotalSize(s, positions) == SumFunctionOnSet([j \in DOMAIN s |-> s[j].size], positions)

SetCachePriority(id, isPriority) ==
    /\ \E j \in DOMAIN gpuCache : gpuCache[j].id = id
    /\ gpuCache' = [j \in DOMAIN gpuCache |->
          IF gpuCache[j].id = id THEN [gpuCache[j] EXCEPT !.isPriority = isPriority]
                                 ELSE gpuCache[j]]
    /\ UNCHANGED <<preloadCharge, textureVars, crashed>>

\* evictLeastUsed: at most one entry, and none when the oldest has id 0.
Target ==
    LET j == SelectInSeq(gpuCache, LAMBDA r : ~ r.isPriority)
    IN  IF j = 0 THEN 0 ELSE gpuCache[j].id

TargetSize ==
    TotalSize(gpuCache, {j \in DOMAIN gpuCache : gpuCache[j].id = Target /\ Target # 0})

\* Mutant: a resource that is cached already is not charged again, nor is its new size.
PreloadUncharged(id, size) ==
    LET full    == (CurrentCacheSize + size) % WordSize > CacheSize
        kept    == IF full /\ Target # 0 THEN Without(gpuCache, Target) ELSE gpuCache
        charged == preloadCharge - (IF full THEN TargetSize ELSE 0)
    IN  /\ preloadCharge + size <= MaxCharge
        /\ gpuCache' = Append(Without(kept, id), [id |-> id, size |-> size, isPriority |-> FALSE])
        /\ preloadCharge' = IF Without(kept, id) = kept THEN charged + size ELSE charged
        /\ UNCHANGED <<textureVars, crashed>>

\* preloadResource: an entry with the same id is replaced, its charge stays.
PreloadResource(id, size) ==
    LET full == (CurrentCacheSize + size) % WordSize > CacheSize
        kept == IF full /\ Target # 0 THEN Without(gpuCache, Target) ELSE gpuCache
    IN  /\ preloadCharge + size <= MaxCharge
        /\ gpuCache' = Append(Without(kept, id), [id |-> id, size |-> size, isPriority |-> FALSE])
        /\ preloadCharge' = preloadCharge - (IF full THEN TargetSize ELSE 0) + size
        /\ UNCHANGED <<textureVars, crashed>>

-----------------------------------------------------------------------------
\* Textures

\* markResourceUsed: the tracker is found by the handle the texture was loaded with.
Used(path) ==
    IF path \in DOMAIN trackers /\ trackers[path].handle = <<path, 0>>
      THEN [trackers EXCEPT ![path].old = FALSE, ![path].isInUse = TRUE]
      ELSE trackers

LoadCached(path) ==
    /\ path \in textureCache
    /\ trackers' = Used(path)
    /\ UNCHANGED <<cacheVars, textureCharge, textureCache, infos, crashed>>

\* The tracker starts, and the texture is charged, as registerResource sees fit.
LoadNew(path, isInUse, isPriority) ==
    /\ path \notin textureCache
    /\ textureCache' = textureCache \cup {path}
    /\ trackers' = [p \in DOMAIN trackers \cup {path} |->
          IF p = path THEN [handle |-> <<path, 0>>, isInUse |-> isInUse,
                            isPriority |-> isPriority, old |-> FALSE]
                      ELSE trackers[p]]
    /\ infos' = infos \cup {<<path, 0>>}
    /\ textureCharge' \in {textureCharge, textureCharge + TextureSize}
    /\ UNCHANGED <<cacheVars, crashed>>

\* RESOURCE_TIMEOUT passes since the last use.
Timeout(path) ==
    /\ path \in DOMAIN trackers
    /\ trackers' = [trackers EXCEPT ![path].old = TRUE]
    /\ UNCHANGED <<cacheVars, textureCharge, textureCache, infos, crashed>>

Idle == {p \in DOMAIN trackers : ~ trackers[p].isInUse /\ ~ trackers[p].isPriority}

\* getLowPriorityResources, and the condition in collectGarbage
LowPriority == {p \in Idle : trackers[p].old}

\* releaseResource for each tracker that goes; the texture stays in textureCache, whose
\* owner has no tracker any more.
CollectGarbage ==
    /\ trackers' = [p \in DOMAIN trackers \ LowPriority |-> trackers[p]]
    /\ infos' = infos \ {trackers[p].handle : p \in LowPriority}
    /\ textureCharge' = textureCharge - TextureSize * Cardinality(LowPriority)
    /\ UNCHANGED <<cacheVars, textureCache, crashed>>

NextHandle(p) == <<p, trackers[p].handle[2] + 1>>

\* Mutant: the trackers are not told.
UpdateInfosOnly(paths) ==
    /\ trackers' = trackers
    /\ infos' = (infos \ {trackers[p].handle : p \in paths}) \cup {NextHandle(p) : p \in paths}

\* updateResourceLocation, for each of paths
UpdateResourceLocation(paths) ==
    /\ trackers' = [p \in DOMAIN trackers |->
          IF p \in paths THEN [trackers[p] EXCEPT !.handle = NextHandle(p)] ELSE trackers[p]]
    /\ infos' = (infos \ {trackers[p].handle : p \in paths}) \cup {NextHandle(p) : p \in paths}

-----------------------------------------------------------------------------
\* Dedicated VRAM

\* moveToSharedMemory: VirtualAlloc can fail for each of paths, which then stays.
MoveToSharedMemory(paths) ==
    \E moved \in SUBSET {p \in paths : trackers[p].handle \in infos} :
        UpdateResourceLocation(moved)

\* Neither usedSize nor totalSize is ever set, so resources are moved or not; then
\* reserveMemoryBlock finds no block and defragments.
AllocateGameResources ==
    /\ \E paths \in {{}, LowPriority} : MoveToSharedMemory(paths)
    /\ crashed' = TRUE
    /\ UNCHANGED <<cacheVars, textureCharge, textureCache>>

\* defragmentMemory comes first; compacting and prioritizing are never reached.
OptimizeMemoryAllocation ==
    /\ crashed' = TRUE
    /\ UNCHANGED <<cacheVars, textureVars>>

Next ==
    /\ ~ crashed
    /\ \/ \E id \in ResourceIds :
             \/ \E isPriority \in BOOLEAN : SetCachePriority(id, isPriority)
             \/ \E size \in ResourceSizes : PreloadResource(id, size)
       \/ \E path \in TexturePaths :
             \/ LoadCached(path) \/ Timeout(path)
             \/ \E isInUse, isPriority \in BOOLEAN : LoadNew(path, isInUse, isPriority)
       \/ CollectGarbage
       \/ AllocateGameResources
       \/ OptimizeMemoryAllocation

-----------------------------------------------------------------------------
\* Properties

TypeOK ==
    /\ \A j \in DOMAIN gpuCache : gpuCache[j].id \in ResourceIds
    /\ preloadCharge \in 0 .. MaxCharge /\ textureCharge \in Int
    /\ DOMAIN trackers \subseteq textureCache /\ textureCache \subseteq TexturePaths
    /\ infos \subseteq TexturePaths \X (0 .. 1)
    /\ crashed \in BOOLEAN

\* Whatever is preloaded again, made a priority or evicted, what preloading charged and
\* evicting took off is at least what the cached resources take (102-116, 156-171).
ChargeCovers == preloadCharge >= TotalSize(gpuCache, DOMAIN gpuCache)

\* Whichever textures move, and whichever moves fail, each tracker's resource is in
\* resourceInfoMap - a tracker without an entry would never be released - and nothing
\* else is (138-153, 284-308, 417-459).
TrackersHaveInfos == infos = {trackers[p].handle : p \in DOMAIN trackers}
=============================================================================
