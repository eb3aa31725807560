---------------------------- MODULE ShaderCache ----------------------------
(***************************************************************************)
(* drivers/graphics/shader_manager.hpp over memory/shader_compiler.hpp:    *)
(* the manager's bounded cache of shaders by key, and the compiler's cache *)
(* of binaries by source and type.  Neither takes a lock: one caller.      *)
(*                                                                         *)
(* glslang and Vulkan are external: compileToSpirV can fail for a source   *)
(* it has not cached, and vkCreateShaderModule can fail at any time.  The  *)
(* optimizations (72-90, 336-348) change nothing.                          *)
(***************************************************************************)
EXTENDS Integers, FiniteSets

CONSTANTS
    Sources, Types, Keys,
    Malformed,        \* the sources checkShaderSyntax or glslang rejects
    Defaults,         \* loadDefaultShaders: <<key, source, type>>, in its order
    MaxCacheSize,     \* MAX_CACHE_SIZE
    CacheTimeout,     \* CACHE_TIMEOUT
    MaxTime,          \* bound: time(nullptr)
    NoShader          \* nullptr

VARIABLES
    binaries,         \* ShaderCompiler::shaderCache: {<<source, type>>}
    shaderCache,      \* EnhancedShaderManager: key -> [shader, lastUsed]
    now

vars == <<binaries, shaderCache, now>>

Init == binaries = {} /\ shaderCache = <<>> /\ now = 0

Shader(source, type, valid) == [source |-> source, type |-> type, valid |-> valid]

\* Whether the binary is not empty.
CompileToSpirV(source) == IF source \in Malformed THEN {FALSE} ELSE BOOLEAN

CreateShaderFromBinary(source, type) == {Shader(source, type, valid) : valid \in BOOLEAN}

\* compileVertexShader and its five likes
CompileStage(source, type) ==
    UNION {IF binary THEN CreateShaderFromBinary(source, type) ELSE {NoShader} :
             binary \in CompileToSpirV(source)}

\* compile: nullptr, or a shader whose module was created or not.
Compile(source, type, known) ==
    IF <<source, type>> \in known THEN CreateShaderFromBinary(source, type)
                                  ELSE CompileStage(source, type)

\* Only a valid shader's binary is cached.
Known(shader) ==
    IF shader # NoShader /\ shader.valid THEN {<<shader.source, shader.type>>} ELSE {}

Without(cache, key) == [k \in DOMAIN cache \ {key} |-> cache[k]]

\* removeOldestEntry: of several used in the same second, any.
Oldest(cache) ==
    {k \in DOMAIN cache : \A j \in DOMAIN cache : cache[k].lastUsed <= cache[j].lastUsed}

\* Mutant: the newest entry goes.
RemoveNewest(cache) ==
    {Without(cache, newest) :
       newest \in {k \in DOMAIN cache : \A j \in DOMAIN cache : cache[k].lastUsed >= cache[j].lastUsed}}

RemoveOldestEntry(cache) ==
    {Without(cache, oldest) : oldest \in Oldest(cache)}

\* cacheShader makes room in a full cache, also for a key that is there; the manager
\* caches what is not nullptr, valid or not.
CacheShader(caches, key, shader) ==
    IF shader = NoShader THEN caches
    ELSE {[k \in DOMAIN cache \cup {key} |->
              IF k = key THEN [shader |-> shader, lastUsed |-> now] ELSE cache[k]] : cache \in
            UNION {IF Cardinality(DOMAIN c) >= MaxCacheSize THEN RemoveOldestEntry(c) ELSE {c} :
                     c \in caches}}

\* The key alone decides: source and type are not compared.
GetCached(key) ==
    /\ key \in DOMAIN shaderCache
    /\ shaderCache' = [shaderCache EXCEPT ![key].lastUsed = now]
    /\ UNCHANGED <<binaries, now>>

GetCompiled(key, source, type) ==
    /\ key \notin DOMAIN shaderCache
    /\ \E shader \in Compile(source, type, binaries) :
         /\ binaries' = binaries \cup Known(shader)
         /\ shaderCache' \in CacheShader({shaderCache}, key, shader)
    /\ UNCHANGED now

\* A caller of compileShader itself bypasses the manager's cache.
CompileShader(source, type) ==
    /\ \E shader \in Compile(source, type, binaries) : binaries' = binaries \cup Known(shader)
    /\ UNCHANGED <<shaderCache, now>>

Fresh(cache) ==
    [k \in {j \in DOMAIN cache : now - cache[j].lastUsed <= CacheTimeout} |-> cache[k]]

\* loadDefaultShaders: four of them, cached one after the other.
Loaded(shaders) ==
    LET next(caches, j) == CacheShader(caches, Defaults[j][1], shaders[j])
    IN  next(next(next(next({shaderCache}, 1), 2), 3), 4)

CompileDefault(j) == Compile(Defaults[j][2], Defaults[j][3], {})

\* initializeShaderSystem: a new compiler, the default shaders, cleanupCache.
InitializeShaderSystem ==
    /\ \E s \in CompileDefault(1) \X CompileDefault(2) \X CompileDefault(3) \X CompileDefault(4) :
         /\ binaries' = UNION {Known(s[j]) : j \in 1 .. 4}
         /\ \E cache \in Loaded(s) : shaderCache' = Fresh(cache)
    /\ UNCHANGED now

Tick == now < MaxTime /\ now' = now + 1 /\ UNCHANGED <<binaries, shaderCache>>

Next ==
    \/ \E key \in Keys :
          \/ GetCached(key)
          \/ \E source \in Sources, type \in Types : GetCompiled(key, source, type)
    \/ \E source \in Sources, type \in Types : CompileShader(source, type)
    \/ InitializeShaderSystem
    \/ Tick

TypeOK ==
    /\ DOMAIN shaderCache \subseteq Keys /\ binaries \subseteq Sources \X Types
    /\ \A k \in DOMAIN shaderCache : shaderCache[k].lastUsed \in 0 .. now
    /\ now \in 0 .. MaxTime

\* The cache keeps to its size, default shaders loaded again included (194-198).
CacheBounded == Cardinality(DOMAIN shaderCache) <= MaxCacheSize

\* An entry is dropped, for room or for age, only when no entry that stays was last
\* used before it (194-198, 210-232).
EvictsOldest ==
    [][\A k \in DOMAIN shaderCache \ DOMAIN shaderCache' :
         \A j \in DOMAIN shaderCache \cap DOMAIN shaderCache' :
            shaderCache[k].lastUsed <= shaderCache'[j].lastUsed]_vars
=============================================================================
