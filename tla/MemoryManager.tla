--------------------------- MODULE MemoryManager ---------------------------
(***************************************************************************)
(* memory/MemoryManager.cpp: OptimizedUnifiedMemoryManager.  Small blocks  *)
(* are cut from pools with a bump pointer, one pool for each workload;     *)
(* what the pool cannot take goes to the page allocator, and each page is  *)
(* mapped to a physical page through a page table and a small TLB.         *)
(*                                                                         *)
(* allocateMemory and freeMemory hold the manager's mutex from start to    *)
(* end, so a call is one step.  Addresses and rounded sizes are counted in *)
(* cache lines; page p is at address p * PageLines.  The page allocator    *)
(* and the pool of physical pages are outside this file: the first is      *)
(* taken to be first-fit (PageRuns), the second to give any free page.     *)
(***************************************************************************)
EXTENDS PageRuns, FiniteSets, SequencesExt

CONSTANTS
    Client,          \* who allocates; each holds one block at a time
    NoBlock,         \* a client holds nothing
    NoEntry,         \* a TLB slot that is not valid
    PoolPages,       \* the sizes of the pools in pages, in order (228, 237-238)
    CacheLine,       \* CACHE_LINE_SIZE, bytes
    PageLines,       \* PAGE_SIZE / CACHE_LINE_SIZE
    TLBSize,         \* TLB_SIZE
    SizeLimit,       \* size_t holds 0 .. SizeLimit - 1
    Sizes,           \* the sizes, in bytes, that are asked for
    DefragThreshold, \* 1024 * 1024 (55), in cache lines
    PhysicalPage     \* the pages of physicalPagePool

Pool == DOMAIN PoolPages
Workload == {0} \cup Pool     \* pool w is optimizedFor w; none is for 0

ReservedPages == SumFunction(PoolPages)

ASSUME PoolAssumption == PoolPages \in Seq(Nat \ {0})
ASSUME UnitAssumption == /\ CacheLine \in Nat \ {0} /\ PageLines \in Nat \ {0}
                         /\ TLBSize \in Nat \ {0}   /\ DefragThreshold \in Nat
ASSUME MemoryAssumption == /\ TotalPages \in Nat /\ ReservedPages \in 0 .. TotalPages
                           /\ SizeLimit \in Nat /\ SizeLimit > TotalPages * PageLines * CacheLine
                           /\ Sizes \subseteq 1 .. SizeLimit - 1
ASSUME PhysicalAssumption == /\ IsFiniteSet(PhysicalPage)
                             /\ Cardinality(PhysicalPage) >= TotalPages - ReservedPages

VARIABLES
    used,              \* [Pool -> lines]: pool.used, the bump pointer
    fragmentedSpace,   \* [Pool -> lines]
    poolAllocations,   \* addresses -> [pool, size]
    taken,             \* the pages the page allocator has given out
    pageAllocations,   \* first pages -> numbers of pages
    pageTable,         \* virtual pages -> physical pages
    tlbCache,          \* [slots -> [virtual, physical] or NoEntry]
    physicalFree,      \* the free pages of physicalPagePool
    availableMemory,   \* bytes
    held,              \* history: [Client -> [at, size] or NoBlock]
    wrapped            \* history: rounding some size overflowed

poolVars == <<used, fragmentedSpace, poolAllocations>>
pageVars == <<taken, pageAllocations, pageTable, tlbCache, physicalFree, availableMemory>>
vars == <<poolVars, pageVars, held, wrapped>>

-----------------------------------------------------------------------------

PoolLines(w) == PoolPages[w] * PageLines
PoolStart(w) == SumFunctionOnSet(PoolPages, 1 .. w - 1) * PageLines

\* (size + CACHE_LINE_SIZE - 1) & ~(CACHE_LINE_SIZE - 1), in lines: the sum wraps.
Lines(size) == ((size + CacheLine - 1) % SizeLimit) \div CacheLine

\* Mutant: a last, partly used page is not counted.
PageCountDown(lines) == lines \div PageLines

PageCount(lines) == (lines + PageLines - 1) \div PageLines

\* virtualAddr % TLB_SIZE, the address in bytes.
TLBSlot(page) == (page * PageLines * CacheLine) % TLBSize

Without(f, S) == Restrict(f, DOMAIN f \ S)

With(f, g) == [x \in DOMAIN f \cup DOMAIN g |-> IF x \in DOMAIN g THEN g[x] ELSE f[x]]

NoMapping == [x \in {} |-> 0]

\* initialize: the pools are the first pages given out; totalMemory counts every
\* page, availableMemory those left.
Init ==
    /\ used = [w \in Pool |-> 0]
    /\ fragmentedSpace = [w \in Pool |-> 0]
    /\ poolAllocations = NoMapping
    /\ taken = Extent(0, ReservedPages)
    /\ pageAllocations = NoMapping
    /\ pageTable = NoMapping
    /\ tlbCache = [k \in {TLBSlot(p) : p \in Pages} |-> NoEntry]
    /\ physicalFree = PhysicalPage
    /\ availableMemory = (TotalPages - ReservedPages) * PageLines * CacheLine
    /\ held = [c \in Client |-> NoBlock]
    /\ wrapped = FALSE

-----------------------------------------------------------------------------
\* allocateMemory(size) under workload w; a request that neither can serve gets
\* nullptr and changes nothing.

PoolTakes(w, lines) == w \in Pool /\ used[w] + lines <= PoolLines(w)

Requested(c, size) ==
    /\ held[c] = NoBlock
    /\ wrapped' = (wrapped \/ size + CacheLine - 1 >= SizeLimit)

AllocateFromPool(c, size, w) ==
    LET lines == Lines(size)
        at    == PoolStart(w) + used[w]
    IN  /\ Requested(c, size)
        /\ PoolTakes(w, lines)
        /\ used' = [used EXCEPT ![w] = @ + lines]
        /\ poolAllocations' = With(poolAllocations, [a \in {at} |-> [pool |-> w, size |-> lines]])
        /\ held' = [held EXCEPT ![c] = [at |-> at, size |-> lines]]
        /\ UNCHANGED <<fragmentedSpace, pageVars>>

\* updateTLB for each page in turn: a slot keeps the last page that maps to it.
FilledTLB(mapping) ==
    [k \in DOMAIN tlbCache |->
        LET here == {p \in DOMAIN mapping : TLBSlot(p) = k}
        IN  IF here = {} THEN tlbCache[k]
            ELSE [virtual |-> Max(here), physical |-> mapping[Max(here)]]]

\* Mutant: the bump pointer is not taken back (124).
AllocateFromPagesCharged(c, size, w) ==
    LET n == PageCount(Lines(size)) IN
    /\ Requested(c, size)
    /\ ~ PoolTakes(w, Lines(size))
    /\ n > 0
    /\ used' = [v \in Pool |-> IF v = w THEN used[v] + Lines(size) ELSE used[v]]
    /\ \E s \in Pages :
        /\ FirstFit(s, n, taken)
        /\ taken' = taken \cup Extent(s, n)
        /\ pageAllocations' = With(pageAllocations, [r \in {s} |-> n])
        /\ held' = [held EXCEPT ![c] = [at |-> s * PageLines, size |-> Lines(size)]]
        /\ \E mapping \in Injection(Extent(s, n), physicalFree) :
            /\ pageTable' = With(pageTable, mapping)
            /\ tlbCache' = FilledTLB(mapping)
            /\ physicalFree' = physicalFree \ Range(mapping)
    /\ UNCHANGED <<fragmentedSpace, poolAllocations, availableMemory>>

\* The pool has no room - its bump pointer goes up and back down again - or
\* there is no pool for this workload.
AllocateFromPages(c, size, w) ==
    LET n == PageCount(Lines(size)) IN
    /\ Requested(c, size)
    /\ ~ PoolTakes(w, Lines(size))
    /\ n > 0
    /\ \E s \in Pages :
        /\ FirstFit(s, n, taken)
        /\ taken' = taken \cup Extent(s, n)
        /\ pageAllocations' = With(pageAllocations, [r \in {s} |-> n])
        /\ held' = [held EXCEPT ![c] = [at |-> s * PageLines, size |-> Lines(size)]]
        /\ \E mapping \in Injection(Extent(s, n), physicalFree) :
            /\ pageTable' = With(pageTable, mapping)
            /\ tlbCache' = FilledTLB(mapping)
            /\ physicalFree' = physicalFree \ Range(mapping)
    /\ UNCHANGED <<poolVars, availableMemory>>

-----------------------------------------------------------------------------
\* freeMemory(ptr): pool blocks are looked up first, then page blocks.

BlocksOf(w, records) == {a \in DOMAIN records : records[a].pool = w}

\* Mutant: only the blocks that move are counted.
MoveCounted(packed, a, record) ==
    IF a = packed.dest THEN packed
    ELSE [records |-> Without(With(packed.records, [d \in {packed.dest} |-> record]), {a}),
          dest |-> packed.dest + record.size]

\* The block at a is moved down to dest, and its record with it.
Move(packed, a, record) ==
    [records |-> IF a = packed.dest THEN packed.records
                 ELSE Without(With(packed.records, [d \in {packed.dest} |-> record]), {a}),
     dest |-> packed.dest + record.size]

\* defragmentPool: the pool's blocks, in the order of their addresses, are moved
\* down to the start of the pool; what is packed after some of them.
Compacted(w, records) ==
    LET packed[moved \in SUBSET BlocksOf(w, records)] ==
            IF moved = {} THEN [records |-> records, dest |-> PoolStart(w)]
            ELSE Move(packed[moved \ {Max(moved)}], Max(moved), records[Max(moved)])
    IN  packed[BlocksOf(w, records)]

FreeToPool(c) ==
    /\ held[c] # NoBlock
    /\ held[c].at \in DOMAIN poolAllocations
    /\ LET block   == poolAllocations[held[c].at]
           w       == block.pool
           space   == fragmentedSpace[w] + block.size
           records == Without(poolAllocations, {held[c].at})
           packed  == Compacted(w, records)
       IN  IF space > DefragThreshold
             THEN /\ poolAllocations' = packed.records
                  /\ used' = [used EXCEPT ![w] = packed.dest - PoolStart(w)]
                  /\ fragmentedSpace' = [fragmentedSpace EXCEPT ![w] = 0]
             ELSE /\ poolAllocations' = records
                  /\ used' = [used EXCEPT ![w] = @ - block.size]
                  /\ fragmentedSpace' = [fragmentedSpace EXCEPT ![w] = space]
    /\ held' = [held EXCEPT ![c] = NoBlock]
    /\ UNCHANGED <<pageVars, wrapped>>

FirstPage(c) == held[c].at \div PageLines

IsPageBlock(c) ==
    /\ held[c].at % PageLines = 0
    /\ FirstPage(c) \in DOMAIN pageAllocations

\* Mutant: only the block's first page is invalidated.
FlushedTLBFirst(pages) ==
    [tlbCache EXCEPT ![TLBSlot(Min(pages))] = NoEntry]

\* invalidateTLBEntry empties the slot, whichever page it holds.
FlushedTLB(pages) ==
    LET slots == {TLBSlot(p) : p \in pages}
    IN  [k \in DOMAIN tlbCache |-> IF k \in slots THEN NoEntry ELSE tlbCache[k]]

\* Mutant: only the block's first page leaves the page table.
UnmappedFirst(pages) == Without(pageTable, {Min(pages)})

Unmapped(pages) == Without(pageTable, pages)

FreePages(c) ==
    /\ held[c] # NoBlock
    /\ held[c].at \notin DOMAIN poolAllocations
    /\ IsPageBlock(c)
    /\ LET n     == pageAllocations[FirstPage(c)]
           pages == Extent(FirstPage(c), n)
       IN  /\ tlbCache' = FlushedTLB(pages)
           /\ physicalFree' = physicalFree \cup {pageTable[p] : p \in pages \cap DOMAIN pageTable}
           /\ pageTable' = Unmapped(pages)
           /\ taken' = taken \ pages
           /\ pageAllocations' = Without(pageAllocations, {FirstPage(c)})
           /\ availableMemory' = (availableMemory + n * PageLines * CacheLine) % SizeLimit
    /\ held' = [held EXCEPT ![c] = NoBlock]
    /\ UNCHANGED <<poolVars, wrapped>>

\* The address is in neither table - defragmentation has moved its record.
FreeRejected(c) ==
    /\ held[c] # NoBlock
    /\ held[c].at \notin DOMAIN poolAllocations
    /\ ~ IsPageBlock(c)
    /\ held' = [held EXCEPT ![c] = NoBlock]
    /\ UNCHANGED <<poolVars, pageVars, wrapped>>

-----------------------------------------------------------------------------

Next ==
    \E c \in Client :
        \/ \E size \in Sizes, w \in Workload :
              AllocateFromPool(c, size, w) \/ AllocateFromPages(c, size, w)
        \/ FreeToPool(c) \/ FreePages(c) \/ FreeRejected(c)

Spec == Init /\ [][Next]_vars

-----------------------------------------------------------------------------
\* Properties

\* The pools: pool.used, a size_t, neither wraps below 0 when a block is freed nor passes
\* the end of its pool.
PoolTypeOK ==
    /\ \A w \in Pool : used[w] \in 0 .. PoolLines(w)
    /\ \A w \in Pool : fragmentedSpace[w] \in 0 .. DefragThreshold
    /\ \A a \in DOMAIN poolAllocations : poolAllocations[a].pool \in Pool

\* The pages: every table maps what it should.
PageTypeOK ==
    /\ taken \subseteq Pages
    /\ pageAllocations \in [DOMAIN pageAllocations -> Nat \ {0}]
    /\ DOMAIN pageAllocations \subseteq Pages
    /\ pageTable \in [DOMAIN pageTable -> PhysicalPage]
    /\ tlbCache \in [DOMAIN tlbCache -> [virtual : Pages, physical : PhysicalPage] \cup {NoEntry}]
    /\ physicalFree \subseteq PhysicalPage
    /\ availableMemory \in 0 .. SizeLimit - 1

\* The type invariant: cursors in their pools, tables over what they map (87-263).
TypeOK == PoolTypeOK /\ PageTypeOK

\* A valid TLB entry says what the page table says: no entry survives the pages
\* it was made for, though entries are replaced and invalidated untagged (255-263).
TLBCoherent ==
    \A k \in DOMAIN tlbCache :
        tlbCache[k] # NoEntry =>
            /\ tlbCache[k].virtual \in DOMAIN pageTable
            /\ pageTable[tlbCache[k].virtual] = tlbCache[k].physical

\* No physical page is mapped twice, and none is mapped and free (136, 195).
PhysicalExclusive ==
    /\ IsInjective(pageTable)
    /\ Range(pageTable) \cap physicalFree = {}

\* The three records of pages agree: mapped pages, the ranges of pageAllocations,
\* which are disjoint, and what the page allocator has given out beyond the pools.
PagesAccounted ==
    /\ DOMAIN pageTable = taken \ Extent(0, ReservedPages)
    /\ DOMAIN pageTable = UNION {Extent(s, pageAllocations[s]) : s \in DOMAIN pageAllocations}
    /\ \A s, r \in DOMAIN pageAllocations :
          s < r => s + pageAllocations[s] <= r

\* The lines of a pool's blocks.
Recorded(w, records) ==
    SumFunctionOnSet([a \in DOMAIN records |-> records[a].size], BlocksOf(w, records))

\* The blocks a pool has on record are never more than its bump pointer counts,
\* through frees out of order, double records of one address and compaction.
\* Were they more, freeing them all would take used below 0.
PoolCursorCovers == \A w \in Pool : used[w] >= Recorded(w, poolAllocations)

\* As long as no request wrapped, whoever holds a page block has every page of it
\* mapped, and nobody else holds an address in it.
HeldPagesMapped ==
    ~ wrapped =>
        \A c \in Client :
            (held[c] # NoBlock /\ held[c].at >= ReservedPages * PageLines) =>
                \A line \in Extent(held[c].at, held[c].size) :
                    /\ line \div PageLines \in DOMAIN pageTable
                    /\ \A d \in Client \ {c} :
                          held[d] # NoBlock => line \notin Extent(held[d].at, held[d].size)

-----------------------------------------------------------------------------
\* What a comment of the code says and the code does not do.

\* "Track pool statistics" (154): taking the freed bytes off pool.used is
\* bookkeeping, so live blocks of the pools stay apart.
PoolBlocksDisjoint ==
    \A c, d \in Client :
        (c # d /\ held[c] # NoBlock /\ held[d] # NoBlock) =>
            Extent(held[c].at, held[c].size) \cap Extent(held[d].at, held[d].size) = {}
=============================================================================
