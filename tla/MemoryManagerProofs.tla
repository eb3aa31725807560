------------------------ MODULE MemoryManagerProofs ------------------------
(***************************************************************************)
(* Proofs about MemoryManager, for any clients, pools, number of pages,    *)
(* size of the TLB and requests.  The pages: page table, TLB, physical     *)
(* pool and page records agree.  The pools: the bump pointer covers what   *)
(* is on record, compaction included.  The holders: a block of pages is    *)
(* mapped and is nobody else's.                                            *)
(***************************************************************************)
EXTENDS MemoryManager, SumTheorems

\* An entry sits in the slot of its page, so invalidating the slots of a block's pages
\* leaves no entry for them.
SlotInv ==
    \A k \in DOMAIN tlbCache :
        tlbCache[k] # NoEntry => TLBSlot(tlbCache[k].virtual) = k

\* The pages of the pools are never given out again.
PoolsKept == Extent(0, ReservedPages) \subseteq taken

\* The pages.  TLBCoherent needs SlotInv when pages are unmapped, and
\* PagesAccounted when others are mapped: a first fit is free, hence not in the table.
PagesInv ==
    /\ PageTypeOK /\ SlotInv /\ PoolsKept
    /\ TLBCoherent /\ PhysicalExclusive /\ PagesAccounted

\* A table of pool blocks: finitely many, at whole addresses.
Typed(records) ==
    /\ IsFiniteSet(DOMAIN records) /\ DOMAIN records \subseteq Nat
    /\ \A a \in DOMAIN records : records[a].pool \in Pool /\ records[a].size \in Nat

\* The pools: PoolTypeOK needs PoolCursorCovers, or a free could take used below 0.
PoolInv ==
    /\ PoolTypeOK /\ PoolCursorCovers /\ Typed(poolAllocations)
    /\ DOMAIN used = Pool /\ DOMAIN fragmentedSpace = Pool

\* The block of c is in the pools, or it is the pages recorded for it.
InPools(c) == held[c].at + held[c].size <= ReservedPages * PageLines
InPages(c) == IsPageBlock(c) /\ pageAllocations[FirstPage(c)] = PageCount(held[c].size)

\* As long as nothing wrapped, every block is one or the other, and nobody else holds an
\* address in the first page of a block of pages.
HeldInv ==
    /\ DOMAIN held = Client
    /\ ~ wrapped =>
        \A c \in Client : held[c] # NoBlock =>
            /\ held[c].at \in Nat /\ held[c].size \in Nat \ {0}
            /\ \/ InPools(c)
               \/ /\ InPages(c)
                  /\ \A d \in Client \ {c} : held[d] # NoBlock => FirstPage(d) # FirstPage(c)

\* The inductive invariant.
IndInv == PagesInv /\ PoolInv /\ HeldInv

-----------------------------------------------------------------------------
\* The operators.

\* A finite set of whole numbers that is not empty has its largest in it.
LEMMA MaxIsLargest ==
    ASSUME NEW S \in SUBSET Int, IsFiniteSet(S), S # {}
    PROVE  Max(S) \in S /\ \A y \in S : Max(S) >= y
BY LargestNumber DEF Max

\* There are finitely many pages.
LEMMA PagesFinite == Pages \subseteq Int /\ IsFiniteSet(Pages)
<1>1. 0 \in Int /\ TotalPages - 1 \in Int /\ Pages = 0 .. TotalPages - 1
    BY MemoryAssumption DEF Pages
<1> QED BY <1>1, FS_Interval

\* What the constants are.
LEMMA Constants ==
    /\ TotalPages \in Nat /\ ReservedPages \in 0 .. TotalPages
    /\ CacheLine \in Nat \ {0} /\ PageLines \in Nat \ {0} /\ SizeLimit \in Nat \ {0}
    /\ \A size \in Sizes : size \in Nat \ {0}
<1>1. TotalPages \in Nat /\ ReservedPages \in 0 .. TotalPages
      /\ CacheLine \in Nat \ {0} /\ PageLines \in Nat \ {0} /\ SizeLimit \in Nat
    BY MemoryAssumption, UnitAssumption
<1>2. TotalPages * PageLines \in Nat
    BY <1>1
<1>3. TotalPages * PageLines * CacheLine \in Nat
    BY <1>1, <1>2
<1>4. SizeLimit # 0
    BY <1>1, <1>3, MemoryAssumption
<1>5. \A size \in Sizes : size \in Nat \ {0}
    BY <1>1, MemoryAssumption
<1> QED BY <1>1, <1>4, <1>5

\* Rounded sizes and page counts are numbers, also when the rounding wraps.
LEMMA CountType ==
    ASSUME NEW size \in Sizes
    PROVE  Lines(size) \in Nat /\ PageCount(Lines(size)) \in Nat
<1>1. size + CacheLine - 1 \in Nat
    BY Constants
<1>2. (size + CacheLine - 1) % SizeLimit \in Nat
    BY <1>1, Constants
<1>3. Lines(size) \in Nat
    BY <1>2, Constants DEF Lines
<1>4. Lines(size) + PageLines - 1 \in Nat
    BY <1>3, Constants
<1> QED BY <1>3, <1>4, Constants DEF PageCount

\* A first fit is a run of pages that nobody has.
LEMMA FitIsFree ==
    ASSUME NEW n \in Nat \ {0}, NEW s \in Pages, FirstFit(s, n, taken)
    PROVE  /\ Extent(s, n) \subseteq Pages /\ s \in Extent(s, n)
           /\ Extent(s, n) \cap taken = {}
BY Constants DEF FirstFit, Fits, Extent, Pages

-----------------------------------------------------------------------------
\* The actions, for the pages.

\* The pools are taken, and nothing is mapped.
LEMMA InitPagesInv == Init => PagesInv
<1> SUFFICES ASSUME Init PROVE PagesInv
    OBVIOUS
<1> USE DEF Init
<1>1. /\ pageAllocations = NoMapping /\ DOMAIN NoMapping = {}
      /\ pageTable = NoMapping
      /\ \A k \in DOMAIN tlbCache : tlbCache[k] = NoEntry
    BY DEF NoMapping
<1>2. Extent(0, ReservedPages) \subseteq Pages
    BY Constants DEF Extent, Pages
<1>3. availableMemory \in 0 .. SizeLimit - 1
    <2>1. /\ TotalPages - ReservedPages \in Nat
          /\ TotalPages - ReservedPages <= TotalPages
        BY Constants
    <2>2. (TotalPages - ReservedPages) * PageLines \in Nat
        BY <2>1, Constants
    <2>3. (TotalPages - ReservedPages) * PageLines <= TotalPages * PageLines
        BY <2>1, Constants
    <2>4. availableMemory <= TotalPages * PageLines * CacheLine
        <3> DEFINE a == (TotalPages - ReservedPages) * PageLines
                   b == TotalPages * PageLines
        <3>1. a \in Nat /\ b \in Nat /\ a <= b
            BY <2>2, <2>3, Constants
        <3>2. availableMemory = a * CacheLine
            OBVIOUS
        <3> HIDE DEF a, b
        <3>3. a * CacheLine <= b * CacheLine
            BY <3>1, Constants
        <3> QED BY <3>2, <3>3 DEF b
    <2>5. availableMemory \in Nat
        BY <2>2, Constants
    <2>6. TotalPages * PageLines * CacheLine \in Nat
        BY Constants
    <2> QED BY <2>4, <2>5, <2>6, Constants, MemoryAssumption
<1>4. PageTypeOK
    BY <1>1, <1>2, <1>3 DEF PageTypeOK
<1>5. SlotInv /\ PoolsKept /\ TLBCoherent
    BY <1>1 DEF SlotInv, PoolsKept, TLBCoherent
<1>6. PhysicalExclusive
    BY <1>1 DEF PhysicalExclusive, IsInjective, Range
<1>7. PagesAccounted
    BY <1>1 DEF PagesAccounted
<1> QED BY <1>4, <1>5, <1>6, <1>7 DEF PagesInv

\* The pool side of the manager does not touch the pages.
LEMMA PagesUnchanged ==
    ASSUME PagesInv, UNCHANGED pageVars
    PROVE  PagesInv'
BY DEF PagesInv, pageVars, PageTypeOK, SlotInv, PoolsKept, TLBCoherent,
       PhysicalExclusive, PagesAccounted

\* allocateMemory that falls back to pages.
LEMMA AllocateFromPagesKeeps ==
    ASSUME PagesInv, NEW c \in Client, NEW size \in Sizes, NEW w \in Workload,
           AllocateFromPages(c, size, w)
    PROVE  PagesInv'
<1> DEFINE n == PageCount(Lines(size))
<1>0. n \in Nat \ {0}
    BY CountType DEF AllocateFromPages
<1>1. PICK s \in Pages :
        /\ FirstFit(s, n, taken)
        /\ taken' = taken \cup Extent(s, n)
        /\ pageAllocations' = With(pageAllocations, [r \in {s} |-> n])
        /\ \E mapping \in Injection(Extent(s, n), physicalFree) :
            /\ pageTable' = With(pageTable, mapping)
            /\ tlbCache' = FilledTLB(mapping)
            /\ physicalFree' = physicalFree \ Range(mapping)
    BY DEF AllocateFromPages
<1> DEFINE E == Extent(s, n)
<1>2. PICK mapping \in Injection(E, physicalFree) :
            /\ pageTable' = With(pageTable, mapping)
            /\ tlbCache' = FilledTLB(mapping)
            /\ physicalFree' = physicalFree \ Range(mapping)
    BY <1>1
<1>3. availableMemory' = availableMemory
    BY DEF AllocateFromPages
<1> HIDE DEF n
<1>4. E \subseteq Pages /\ s \in E /\ E \cap taken = {}
    BY <1>0, <1>1, FitIsFree
<1>5. E \cap DOMAIN pageTable = {} /\ E \cap Extent(0, ReservedPages) = {}
    BY <1>4 DEF PagesInv, PagesAccounted, PoolsKept
<1> HIDE DEF E
<1>6. /\ mapping \in [E -> physicalFree]
      /\ \A p, q \in E : mapping[p] = mapping[q] => p = q
    BY <1>2 DEF Injection, IsInjective
<1>7. /\ DOMAIN pageTable' = E \cup DOMAIN pageTable
      /\ \A p \in E : pageTable'[p] = mapping[p]
      /\ \A p \in DOMAIN pageTable : pageTable'[p] = pageTable[p]
    BY <1>2, <1>5, <1>6 DEF With
<1>8. /\ DOMAIN pageAllocations' = {s} \cup DOMAIN pageAllocations
      /\ pageAllocations'[s] = n
      /\ \A r \in DOMAIN pageAllocations : r # s => pageAllocations'[r] = pageAllocations[r]
    BY <1>1 DEF With
<1>9. /\ DOMAIN tlbCache' = DOMAIN tlbCache
      /\ \A k \in DOMAIN tlbCache :
            \/ tlbCache'[k] = tlbCache[k]
            \/ \E p \in E : /\ TLBSlot(p) = k
                            /\ tlbCache'[k] = [virtual |-> p, physical |-> mapping[p]]
    <2>1. DOMAIN mapping = E
        BY <1>6
    <2>2. ASSUME NEW k \in DOMAIN tlbCache, {p \in E : TLBSlot(p) = k} # {}
          PROVE  Max({p \in E : TLBSlot(p) = k}) \in {p \in E : TLBSlot(p) = k}
        BY <1>4, <2>2, PagesFinite, FS_Subset, MaxIsLargest
    <2> QED BY <1>2, <2>1, <2>2 DEF FilledTLB
<1>10. s \notin DOMAIN pageAllocations
    <2> SUFFICES ASSUME s \in DOMAIN pageAllocations PROVE FALSE
        OBVIOUS
    <2>1. pageAllocations[s] \in Nat \ {0} /\ s \in Int
        BY DEF PagesInv, PageTypeOK, Pages
    <2>2. s \in Extent(s, pageAllocations[s])
        BY <2>1 DEF Extent
    <2>3. s \in DOMAIN pageTable
        BY <2>2 DEF PagesInv, PagesAccounted
    <2> QED BY <1>4, <1>5, <2>3
<1>11. PageTypeOK'
    <2>1. DOMAIN pageTable' \subseteq Pages \cup DOMAIN pageTable
        BY <1>4, <1>7
    <2>2. pageTable' \in [DOMAIN pageTable' -> PhysicalPage]
        <3>1. \A p \in DOMAIN pageTable' : pageTable'[p] \in PhysicalPage
            BY <1>6, <1>7 DEF PagesInv, PageTypeOK
        <3>2. pageTable' = [p \in DOMAIN pageTable' |-> pageTable'[p]]
            BY <1>2 DEF With
        <3> QED BY <3>1, <3>2
    <2>3. /\ pageAllocations' \in [DOMAIN pageAllocations' -> Nat \ {0}]
          /\ DOMAIN pageAllocations' \subseteq Pages
        <3>1. \A r \in DOMAIN pageAllocations' : pageAllocations'[r] \in Nat \ {0}
            BY <1>0, <1>8 DEF PagesInv, PageTypeOK
        <3>2. pageAllocations' = [r \in DOMAIN pageAllocations' |-> pageAllocations'[r]]
            BY <1>1 DEF With
        <3> QED BY <1>8, <3>1, <3>2 DEF PagesInv, PageTypeOK
    <2>4. tlbCache' \in [DOMAIN tlbCache' ->
                            [virtual : Pages, physical : PhysicalPage] \cup {NoEntry}]
        <3>1. \A k \in DOMAIN tlbCache' :
                tlbCache'[k] \in [virtual : Pages, physical : PhysicalPage] \cup {NoEntry}
            BY <1>4, <1>6, <1>9 DEF PagesInv, PageTypeOK
        <3>2. tlbCache' = [k \in DOMAIN tlbCache' |-> tlbCache'[k]]
            BY <1>2 DEF FilledTLB
        <3> QED BY <3>1, <3>2
    <2>5. taken' \subseteq Pages /\ physicalFree' \subseteq PhysicalPage
        BY <1>1, <1>2, <1>4 DEF E, PagesInv, PageTypeOK
    <2> QED BY <1>3, <2>2, <2>3, <2>4, <2>5 DEF PagesInv, PageTypeOK
<1>12. SlotInv'
    BY <1>9 DEF PagesInv, SlotInv
<1>13. PoolsKept'
    BY <1>1 DEF PagesInv, PoolsKept
<1>14. TLBCoherent'
    BY <1>7, <1>9 DEF PagesInv, TLBCoherent
<1>15. PhysicalExclusive'
    <2>1. \A p \in DOMAIN pageTable : pageTable[p] \notin physicalFree
        BY DEF PagesInv, PhysicalExclusive, Range
    <2>2. \A p, q \in DOMAIN pageTable : pageTable[p] = pageTable[q] => p = q
        BY DEF PagesInv, PhysicalExclusive, IsInjective
    <2>3. \A p \in E : mapping[p] \in physicalFree /\ mapping[p] \in Range(mapping)
        BY <1>6 DEF Range
    <2>4. \A p, q \in DOMAIN pageTable' : pageTable'[p] = pageTable'[q] => p = q
        BY <1>6, <1>7, <2>1, <2>2, <2>3
    <2>5. \A p \in DOMAIN pageTable' : pageTable'[p] \notin physicalFree'
        BY <1>2, <1>7, <2>1, <2>3
    <2> QED BY <2>4, <2>5 DEF PhysicalExclusive, IsInjective, Range
<1>16. PagesAccounted'
    <2>1. DOMAIN pageTable' = taken' \ Extent(0, ReservedPages)
        BY <1>1, <1>5, <1>7 DEF E, PagesInv, PagesAccounted
    <2>2. DOMAIN pageTable' = UNION {Extent(r, pageAllocations'[r]) : r \in DOMAIN pageAllocations'}
        <3>1. UNION {Extent(r, pageAllocations'[r]) : r \in DOMAIN pageAllocations'}
                = E \cup UNION {Extent(r, pageAllocations[r]) : r \in DOMAIN pageAllocations}
            BY <1>8, <1>10 DEF E
        <3> QED BY <1>7, <3>1 DEF PagesInv, PagesAccounted
    <2>3. ASSUME NEW r \in DOMAIN pageAllocations
          PROVE  (r < s => r + pageAllocations[r] <= s) /\ (s < r => s + n <= r)
        <3>1. r \in Nat /\ s \in Nat /\ pageAllocations[r] \in Nat \ {0}
            BY DEF PagesInv, PageTypeOK, Pages
        <3>2. Extent(r, pageAllocations[r]) \subseteq DOMAIN pageTable
            BY DEF PagesInv, PagesAccounted
        <3>3. r \notin E /\ s \notin Extent(r, pageAllocations[r])
            <4>1. r \in Extent(r, pageAllocations[r])
                BY <3>1 DEF Extent
            <4> QED BY <1>4, <1>5, <3>2, <4>1
        <3> QED BY <1>0, <3>1, <3>3 DEF E, Extent
    <2>4. \A q, r \in DOMAIN pageAllocations' : q < r => q + pageAllocations'[q] <= r
        <3> SUFFICES ASSUME NEW q \in DOMAIN pageAllocations',
                            NEW r \in DOMAIN pageAllocations', q < r
                     PROVE  q + pageAllocations'[q] <= r
            OBVIOUS
        <3>0. q # r
            <4>1. q \in Int
                BY <1>8 DEF PagesInv, PageTypeOK, Pages
            <4> QED BY <4>1
        <3>1. CASE q = s
            BY <1>8, <2>3, <3>0, <3>1
        <3>2. CASE r = s
            BY <1>8, <2>3, <3>0, <3>2
        <3>3. CASE q # s /\ r # s
            BY <1>8, <3>3 DEF PagesInv, PagesAccounted
        <3> QED BY <3>1, <3>2, <3>3
    <2> QED BY <2>1, <2>2, <2>4 DEF PagesAccounted
<1> QED BY <1>11, <1>12, <1>13, <1>14, <1>15, <1>16 DEF PagesInv
\* freeMemory of a block of pages.  SlotInv is what makes the untagged flush enough.
LEMMA FreePagesKeeps ==
    ASSUME PagesInv, NEW c \in Client, FreePages(c)
    PROVE  PagesInv'
<1> DEFINE f == FirstPage(c)
           n == pageAllocations[f]
           P == Extent(f, n)
<1>1. /\ f \in DOMAIN pageAllocations
      /\ tlbCache' = FlushedTLB(P)
      /\ physicalFree' = physicalFree \cup {pageTable[p] : p \in P \cap DOMAIN pageTable}
      /\ pageTable' = Unmapped(P)
      /\ taken' = taken \ P
      /\ pageAllocations' = Without(pageAllocations, {f})
      /\ availableMemory' = (availableMemory + n * PageLines * CacheLine) % SizeLimit
    BY DEF FreePages, IsPageBlock
<1> HIDE DEF f
<1>2. n \in Nat \ {0} /\ P \subseteq DOMAIN pageTable
    BY <1>1 DEF PagesInv, PageTypeOK, PagesAccounted
<1>3. \A r \in DOMAIN pageAllocations : r # f => Extent(r, pageAllocations[r]) \cap P = {}
    <2> SUFFICES ASSUME NEW r \in DOMAIN pageAllocations, r # f
                 PROVE  Extent(r, pageAllocations[r]) \cap P = {}
        OBVIOUS
    <2>1. r \in Int /\ f \in Int /\ pageAllocations[r] \in Int /\ n \in Int
        BY <1>1 DEF PagesInv, PageTypeOK, Pages
    <2>2. r < f => r + pageAllocations[r] <= f
        BY <1>1 DEF PagesInv, PagesAccounted
    <2>3. f < r => f + n <= r
        BY <1>1 DEF PagesInv, PagesAccounted
    <2> QED BY <2>1, <2>2, <2>3 DEF Extent
<1> HIDE DEF P
<1>4. /\ DOMAIN pageTable' = DOMAIN pageTable \ P
      /\ \A p \in DOMAIN pageTable \ P : pageTable'[p] = pageTable[p]
    BY <1>1 DEF Unmapped, Without, Restrict
<1>5. /\ DOMAIN pageAllocations' = DOMAIN pageAllocations \ {f}
      /\ \A r \in DOMAIN pageAllocations \ {f} : pageAllocations'[r] = pageAllocations[r]
    BY <1>1 DEF Without, Restrict
<1>6. /\ DOMAIN tlbCache' = DOMAIN tlbCache
      /\ \A k \in DOMAIN tlbCache :
            tlbCache'[k] # NoEntry =>
                /\ tlbCache'[k] = tlbCache[k]
                /\ \A p \in P : TLBSlot(p) # k
    BY <1>1 DEF FlushedTLB
<1>7. PageTypeOK'
    <2>1. pageTable' \in [DOMAIN pageTable' -> PhysicalPage]
        BY <1>1, <1>4 DEF Unmapped, Without, Restrict, PagesInv, PageTypeOK
    <2>2. /\ pageAllocations' \in [DOMAIN pageAllocations' -> Nat \ {0}]
          /\ DOMAIN pageAllocations' \subseteq Pages
        BY <1>1, <1>5 DEF Without, Restrict, PagesInv, PageTypeOK
    <2>3. tlbCache' \in [DOMAIN tlbCache' ->
                            [virtual : Pages, physical : PhysicalPage] \cup {NoEntry}]
        BY <1>1 DEF FlushedTLB, PagesInv, PageTypeOK
    <2>4. taken' \subseteq Pages /\ physicalFree' \subseteq PhysicalPage
        BY <1>1 DEF PagesInv, PageTypeOK
    <2>5. availableMemory' \in 0 .. SizeLimit - 1
        <3>1. n * PageLines \in Nat
            BY <1>2, Constants
        <3>2. n * PageLines * CacheLine \in Nat
            BY <3>1, Constants
        <3>3. availableMemory + n * PageLines * CacheLine \in Nat
            BY <3>2, Constants DEF PagesInv, PageTypeOK
        <3> QED BY <1>1, <3>3, Constants
    <2> QED BY <2>1, <2>2, <2>3, <2>4, <2>5 DEF PageTypeOK
<1>8. SlotInv'
    BY <1>6 DEF PagesInv, SlotInv
<1>9. PoolsKept'
    BY <1>1, <1>2 DEF PagesInv, PoolsKept, PagesAccounted
<1>10. TLBCoherent'
    <2> SUFFICES ASSUME NEW k \in DOMAIN tlbCache, tlbCache'[k] # NoEntry
                 PROVE  /\ tlbCache'[k].virtual \in DOMAIN pageTable'
                        /\ pageTable'[tlbCache'[k].virtual] = tlbCache'[k].physical
        BY <1>6 DEF TLBCoherent
    <2>1. tlbCache'[k] = tlbCache[k] /\ tlbCache[k] # NoEntry
        BY <1>6
    <2>2. /\ tlbCache[k].virtual \in DOMAIN pageTable
          /\ pageTable[tlbCache[k].virtual] = tlbCache[k].physical
          /\ TLBSlot(tlbCache[k].virtual) = k
        BY <2>1 DEF PagesInv, TLBCoherent, SlotInv
    <2>3. tlbCache[k].virtual \notin P
        BY <1>6, <2>2
    <2> QED BY <1>4, <2>1, <2>2, <2>3
<1>11. PhysicalExclusive'
    <2>1. \A p \in DOMAIN pageTable : pageTable[p] \notin physicalFree
        BY DEF PagesInv, PhysicalExclusive, Range
    <2>2. \A p, q \in DOMAIN pageTable : pageTable[p] = pageTable[q] => p = q
        BY DEF PagesInv, PhysicalExclusive, IsInjective
    <2>3. \A p, q \in DOMAIN pageTable' : pageTable'[p] = pageTable'[q] => p = q
        BY <1>4, <2>2
    <2>4. \A p \in DOMAIN pageTable' : pageTable'[p] \notin physicalFree'
        BY <1>1, <1>4, <2>1, <2>2
    <2> QED BY <2>3, <2>4 DEF PhysicalExclusive, IsInjective, Range
<1>12. PagesAccounted'
    <2>1. DOMAIN pageTable' = taken' \ Extent(0, ReservedPages)
        BY <1>1, <1>4 DEF PagesInv, PagesAccounted
    <2>2. DOMAIN pageTable' = UNION {Extent(r, pageAllocations'[r]) : r \in DOMAIN pageAllocations'}
        <3>1. DOMAIN pageTable = UNION {Extent(r, pageAllocations[r]) : r \in DOMAIN pageAllocations}
            BY DEF PagesInv, PagesAccounted
        <3>2. P = Extent(f, pageAllocations[f])
            BY DEF P
        <3> QED BY <1>3, <1>4, <1>5, <3>1, <3>2
    <2>3. \A q, r \in DOMAIN pageAllocations' : q < r => q + pageAllocations'[q] <= r
        BY <1>5 DEF PagesInv, PagesAccounted
    <2> QED BY <2>1, <2>2, <2>3 DEF PagesAccounted
<1> QED BY <1>7, <1>8, <1>9, <1>10, <1>11, <1>12 DEF PagesInv

-----------------------------------------------------------------------------
\* The records of the pools.

\* The sizes of the blocks of a table.
SizesOf(records) == [a \in DOMAIN records |-> records[a].size]

\* The pools are numbered from 1 up, and each has whole pages.
LEMMA Pools ==
    /\ Len(PoolPages) \in Nat /\ Pool = 1 .. Len(PoolPages)
    /\ \A w \in Pool : w \in Nat \ {0} /\ PoolPages[w] \in Nat \ {0} /\ PoolLines(w) \in Nat
<1>1. PoolPages \in Seq(Nat \ {0})
    BY PoolAssumption
<1>2. Len(PoolPages) \in Nat /\ DOMAIN PoolPages = 1 .. Len(PoolPages)
    BY <1>1
<1>3. \A w \in DOMAIN PoolPages : PoolPages[w] \in Nat \ {0}
    BY <1>1
<1>4. \A w \in DOMAIN PoolPages : PoolPages[w] * PageLines \in Nat
    BY <1>3, Constants
<1> QED BY <1>2, <1>3, <1>4 DEF Pool, PoolLines

\* A pool starts at a whole address, and it ends before the pages that are not in pools.
LEMMA PoolEnds ==
    ASSUME NEW w \in Pool
    PROVE  /\ PoolStart(w) \in Nat
           /\ PoolStart(w) + PoolLines(w) <= ReservedPages * PageLines
<1> DEFINE before == SumFunctionOnSet(PoolPages, 1 .. w - 1)
           upto == SumFunctionOnSet(PoolPages, 1 .. w)
<1>1. /\ w \in Nat \ {0} /\ 1 .. w - 1 \subseteq 1 .. w /\ 1 .. w \subseteq Pool
      /\ w \notin 1 .. w - 1 /\ (1 .. w - 1) \cup {w} = 1 .. w
    BY Pools
<1>2. IsFiniteSet(Pool) /\ IsFiniteSet(1 .. w) /\ IsFiniteSet(1 .. w - 1)
    <2>1. IsFiniteSet(1 .. Len(PoolPages))
        <3>1. 1 \in Int /\ Len(PoolPages) \in Int
            BY Pools
        <3> QED BY <3>1, FS_Interval
    <2>2. IsFiniteSet(Pool)
        BY <2>1, Pools
    <2> QED BY <1>1, <2>2, FS_Subset
<1>3. \A v \in Pool : PoolPages[v] \in Nat
    BY Pools
<1>4. before \in Nat /\ upto \in Nat
    BY <1>1, <1>2, <1>3, SumType
<1>5. upto = PoolPages[w] + before
    <2>1. /\ \A v \in 1 .. w - 1 : PoolPages[v] \in Int
          /\ PoolPages[w] \in Int
        BY <1>1, <1>3
    <2>2. SumFunctionOnSet(PoolPages, (1 .. w - 1) \cup {w}) = PoolPages[w] + before
        <3> HIDE DEF before
        <3> QED BY <1>1, <1>2, <2>1, SumAdd DEF before
    <2> QED BY <1>1, <2>2
<1>6. upto <= ReservedPages
    BY <1>1, <1>2, <1>3, SumOfFewer DEF ReservedPages, SumFunction, Pool
<1> HIDE DEF before, upto
<1>7. PoolPages[w] \in Nat /\ ReservedPages \in Nat /\ PageLines \in Nat
    BY <1>3, Constants
<1>8. before * PageLines \in Nat
    BY <1>4, <1>7
<1>9. before * PageLines + PoolPages[w] * PageLines = upto * PageLines
    BY <1>4, <1>5, <1>7
<1>10. upto * PageLines <= ReservedPages * PageLines
    BY <1>4, <1>6, <1>7
<1> QED BY <1>8, <1>9, <1>10 DEF PoolStart, PoolLines, before

\* The records of a pool.
LEMMA RecordedType ==
    ASSUME NEW R, Typed(R), NEW w
    PROVE  /\ IsFiniteSet(BlocksOf(w, R)) /\ BlocksOf(w, R) \subseteq DOMAIN R
           /\ \A a \in DOMAIN R : SizesOf(R)[a] = R[a].size /\ R[a].size \in Nat
           /\ Recorded(w, R) = SumFunctionOnSet(SizesOf(R), BlocksOf(w, R))
           /\ Recorded(w, R) \in Nat
<1>1. IsFiniteSet(BlocksOf(w, R)) /\ BlocksOf(w, R) \subseteq DOMAIN R
    BY FS_Subset DEF Typed, BlocksOf
<1>2. \A a \in DOMAIN R : SizesOf(R)[a] = R[a].size /\ R[a].size \in Nat
    BY DEF Typed, SizesOf
<1>3. Recorded(w, R) = SumFunctionOnSet(SizesOf(R), BlocksOf(w, R))
    BY DEF Recorded, SizesOf
<1> QED BY <1>1, <1>2, <1>3, SumType

\* A table whose blocks are some of another's has no more lines.
LEMMA RecordedFewer ==
    ASSUME NEW R, Typed(R), NEW T, Typed(T), NEW w,
           NEW g \in [BlocksOf(w, T) -> BlocksOf(w, R)], IsInjective(g),
           \A d \in BlocksOf(w, T) : T[d].size = R[g[d]].size
    PROVE  Recorded(w, T) <= Recorded(w, R)
<1>1. \A d \in BlocksOf(w, T) : SizesOf(T)[d] = SizesOf(R)[g[d]]
    BY RecordedType
<1>2. \A a \in BlocksOf(w, R) : SizesOf(R)[a] \in Nat
    BY RecordedType
<1>3. IsFiniteSet(BlocksOf(w, T)) /\ IsFiniteSet(BlocksOf(w, R))
    BY RecordedType
<1>4. SumFunctionOnSet(SizesOf(T), BlocksOf(w, T)) <= SumFunctionOnSet(SizesOf(R), BlocksOf(w, R))
    BY <1>1, <1>2, <1>3, SumOverImage
<1> QED BY <1>4, RecordedType

\* As the above, when the blocks stay where they are.
LEMMA RecordedSubset ==
    ASSUME NEW R, Typed(R), NEW T, Typed(T), NEW w,
           BlocksOf(w, T) \subseteq BlocksOf(w, R),
           \A d \in BlocksOf(w, T) : T[d].size = R[d].size
    PROVE  Recorded(w, T) <= Recorded(w, R)
<1> DEFINE g == [d \in BlocksOf(w, T) |-> d]
<1>1. g \in [BlocksOf(w, T) -> BlocksOf(w, R)] /\ IsInjective(g)
    BY DEF IsInjective
<1>2. \A d \in BlocksOf(w, T) : T[d].size = R[g[d]].size
    OBVIOUS
<1> HIDE DEF g
<1> QED BY <1>1, <1>2, RecordedFewer

\* What Without leaves.
LEMMA WithoutOne ==
    ASSUME NEW R, NEW a
    PROVE  /\ DOMAIN Without(R, {a}) = DOMAIN R \ {a}
           /\ \A b \in DOMAIN R \ {a} : Without(R, {a})[b] = R[b]
BY DEF Without, Restrict

\* A block is taken off the record.
LEMMA RecordedWithout ==
    ASSUME NEW R, Typed(R), NEW a \in DOMAIN R, NEW w
    PROVE  /\ Typed(Without(R, {a}))
           /\ Recorded(w, R) = Recorded(w, Without(R, {a})) + (IF R[a].pool = w THEN R[a].size ELSE 0)
<1> DEFINE T == Without(R, {a})
<1>1. DOMAIN T = DOMAIN R \ {a} /\ \A b \in DOMAIN T : T[b] = R[b]
    BY WithoutOne
<1>2. Typed(T)
    <2>1. IsFiniteSet(DOMAIN T)
        BY <1>1, FS_RemoveElement DEF Typed
    <2> HIDE DEF T
    <2> QED BY <1>1, <2>1 DEF Typed
<1>3. BlocksOf(w, T) = BlocksOf(w, R) \ {a}
    <2> HIDE DEF T
    <2> QED BY <1>1 DEF BlocksOf
<1>4. IsFiniteSet(BlocksOf(w, T))
    BY <1>2, RecordedType
<1>5. \A b \in BlocksOf(w, T) : SizesOf(T)[b] = SizesOf(R)[b]
    <2> HIDE DEF T
    <2> QED BY <1>1, <1>3 DEF SizesOf, BlocksOf
<1> HIDE DEF T
<1>6. Recorded(w, T) = SumFunctionOnSet(SizesOf(R), BlocksOf(w, R) \ {a}) /\ Recorded(w, T) \in Nat
    <2>1. SumFunctionOnSet(SizesOf(T), BlocksOf(w, T)) = SumFunctionOnSet(SizesOf(R), BlocksOf(w, T))
        BY <1>4, <1>5, SumSame
    <2> QED BY <1>2, <1>3, <2>1, RecordedType
<1>7. CASE R[a].pool = w
    <2>1. a \in BlocksOf(w, R)
        BY <1>7 DEF BlocksOf
    <2>2. \A b \in BlocksOf(w, R) : SizesOf(R)[b] \in Int
        BY RecordedType
    <2>3. Recorded(w, R) = R[a].size + SumFunctionOnSet(SizesOf(R), BlocksOf(w, R) \ {a})
        BY <2>1, <2>2, RecordedType, SumTakeOut
    <2>4. R[a].size \in Nat
        BY RecordedType
    <2> QED BY <1>2, <1>6, <1>7, <2>3, <2>4 DEF T
<1>8. CASE R[a].pool # w
    <2>1. BlocksOf(w, R) \ {a} = BlocksOf(w, R)
        BY <1>8 DEF BlocksOf
    <2>2. Recorded(w, R) = Recorded(w, T)
        BY <1>6, <2>1, RecordedType
    <2> QED BY <1>2, <1>6, <1>8, <2>2 DEF T
<1> QED BY <1>7, <1>8

\* A block goes on record, perhaps in place of another at its address.
LEMMA RecordedWith ==
    ASSUME NEW R, Typed(R), NEW a \in Nat, NEW T, NEW w,
           DOMAIN T = DOMAIN R \cup {a}, \A b \in DOMAIN R \ {a} : T[b] = R[b],
           T[a].pool \in Pool, T[a].size \in Nat
    PROVE  /\ Typed(T)
           /\ Recorded(w, T) <= Recorded(w, R) + (IF T[a].pool = w THEN T[a].size ELSE 0)
<1> DEFINE U == Without(T, {a})
<1>2. Typed(T)
    <2>1. IsFiniteSet(DOMAIN T)
        BY FS_AddElement DEF Typed
    <2> QED BY <2>1 DEF Typed
<1>3. Typed(U) /\ Recorded(w, T) = Recorded(w, U) + (IF T[a].pool = w THEN T[a].size ELSE 0)
    BY <1>2, RecordedWithout
<1>4. DOMAIN U = DOMAIN R \ {a} /\ \A b \in DOMAIN U : U[b] = R[b]
    <2>1. DOMAIN U = DOMAIN T \ {a} /\ \A b \in DOMAIN T \ {a} : U[b] = T[b]
        BY WithoutOne
    <2> HIDE DEF U
    <2> QED BY <2>1
<1> HIDE DEF U
<1>5. Recorded(w, U) <= Recorded(w, R)
    <2>1. BlocksOf(w, U) \subseteq BlocksOf(w, R) /\ \A d \in BlocksOf(w, U) : U[d].size = R[d].size
        BY <1>4 DEF BlocksOf
    <2> QED BY <1>3, <2>1, RecordedSubset
<1>6. T[a].size \in Nat /\ Recorded(w, U) \in Nat /\ Recorded(w, R) \in Nat
    BY <1>3, RecordedType
<1> QED BY <1>2, <1>3, <1>5, <1>6

-----------------------------------------------------------------------------
\* Compaction.

\* One round of the recursion of Compacted, over the sets of D.
PackRound(w, R, D, g) ==
    [moved \in D |->
        IF moved = {} THEN [records |-> R, dest |-> PoolStart(w)]
        ELSE Move(g[moved \ {Max(moved)}], Max(moved), R[Max(moved)])]

\* The function the recursion defines.
Packed(w, R) == CHOOSE g : g = PackRound(w, R, SUBSET BlocksOf(w, R), g)

\* Compacted, in these terms.
LEMMA CompactedIsLast ==
    ASSUME NEW w, NEW R
    PROVE  Compacted(w, R) = Packed(w, R)[BlocksOf(w, R)]
BY DEF Compacted, Packed, PackRound

\* The blocks of a pool without the last one.
LEMMA LastBlock ==
    ASSUME NEW w, NEW R, Typed(R), NEW s \in SUBSET BlocksOf(w, R)
    PROVE  /\ IsFiniteSet(s) /\ Cardinality(s) \in Nat
           /\ s # {} => /\ Max(s) \in s /\ \A a \in s : a <= Max(s)
                        /\ s \ {Max(s)} \in SUBSET BlocksOf(w, R)
                        /\ Cardinality(s) >= 1
                        /\ Cardinality(s \ {Max(s)}) = Cardinality(s) - 1
<1>1. IsFiniteSet(s) /\ Cardinality(s) \in Nat
    BY RecordedType, FS_Subset, FS_CardinalityType
<1>2. s \subseteq Nat
    BY RecordedType DEF Typed
<1> SUFFICES ASSUME s # {}
             PROVE  /\ Max(s) \in s /\ \A a \in s : a <= Max(s)
                    /\ s \ {Max(s)} \in SUBSET BlocksOf(w, R)
                    /\ Cardinality(s) >= 1
                    /\ Cardinality(s \ {Max(s)}) = Cardinality(s) - 1
    BY <1>1
<1>3. Max(s) \in s /\ \A a \in s : Max(s) >= a
    <2>1. s \in SUBSET Int
        BY <1>2
    <2> QED BY <1>1, <2>1, MaxIsLargest
<1>4. Cardinality(s \ {Max(s)}) = Cardinality(s) - 1
    BY <1>1, <1>3, FS_RemoveElement
<1>5. Cardinality(s) # 0
    BY <1>1, FS_EmptySet
<1>6. Cardinality(s) >= 1
    BY <1>1, <1>5
<1>7. \A a \in s : a <= Max(s)
    BY <1>2, <1>3
<1> QED BY <1>3, <1>4, <1>6, <1>7

\* The recursion has a solution: it can be built up by the number of blocks.
LEMMA PackedExists ==
    ASSUME NEW w, NEW R, Typed(R)
    PROVE  \E g : g = PackRound(w, R, SUBSET BlocksOf(w, R), g)
<1> DEFINE B == BlocksOf(w, R)
           U(n) == {s \in SUBSET B : Cardinality(s) <= n}
           Round(s, g) == IF s = {} THEN [records |-> R, dest |-> PoolStart(w)]
                          ELSE Move(g[s \ {Max(s)}], Max(s), R[Max(s)])
           N == {n \in Nat : ~ \E g : g = PackRound(w, R, U(n), g)}
<1>1. ASSUME NEW D, NEW g, NEW s \in D PROVE PackRound(w, R, D, g)[s] = Round(s, g)
    BY DEF PackRound
<1>2. ASSUME NEW D, NEW g, NEW h, \A s \in D : Round(s, g) = Round(s, h)
      PROVE  PackRound(w, R, D, g) = PackRound(w, R, D, h)
    BY <1>2 DEF PackRound
<1>3. ASSUME NEW g, NEW h, NEW s, s # {} => g[s \ {Max(s)}] = h[s \ {Max(s)}]
      PROVE  Round(s, g) = Round(s, h)
    BY <1>3
<1>4. \A s \in SUBSET B : Cardinality(s) \in Nat /\ Cardinality(s) <= Cardinality(B)
    BY LastBlock, RecordedType, FS_Subset
<1>5. \A s \in SUBSET B : s # {} =>
          s \ {Max(s)} \in SUBSET B /\ Cardinality(s) >= 1 /\ Cardinality(s \ {Max(s)}) = Cardinality(s) - 1
    BY LastBlock
<1> HIDE DEF Round
<1>6. N = {}
    <2> SUFFICES ASSUME N # {} PROVE FALSE
        OBVIOUS
    <2>1. PICK n \in N : \A m \in N : n <= m
        <3>1. N \in SUBSET Nat
            OBVIOUS
        <3> HIDE DEF N
        <3> QED BY <3>1, LeastNumber
    <2>2. n # 0
        <3> SUFFICES ASSUME n = 0 PROVE FALSE
            OBVIOUS
        <3> DEFINE g == PackRound(w, R, U(0), R)
        <3>1. \A s \in U(0) : s = {}
            <4> SUFFICES ASSUME NEW s \in SUBSET B, Cardinality(s) <= 0, s # {} PROVE FALSE
                OBVIOUS
            <4>1. Cardinality(s) \in Nat /\ Cardinality(s) >= 1
                BY <1>4, <1>5
            <4> QED BY <4>1
        <3>2. g = PackRound(w, R, U(0), g)
            <4>1. \A s \in U(0) : Round(s, R) = Round(s, g)
                <5> HIDE DEF g, U
                <5> QED BY <3>1, <1>3
            <4> HIDE DEF U
            <4>2. PackRound(w, R, U(0), R) = PackRound(w, R, U(0), g)
                <5> HIDE DEF g
                <5> QED BY <4>1, <1>2
            <4> QED BY <4>2
        <3> QED BY <3>2, <2>1
    <2>3. n - 1 \in Nat /\ n - 1 \notin N
        <3>1. n \in Nat
            BY <2>1
        <3>2. n - 1 \in Nat /\ ~ (n <= n - 1)
            BY <3>1, <2>2
        <3> HIDE DEF N
        <3> QED BY <3>2, <2>1
    <2>4. PICK h : h = PackRound(w, R, U(n - 1), h)
        BY <2>3
    <2> DEFINE g == PackRound(w, R, U(n), h)
    <2>5. ASSUME NEW t \in U(n - 1) PROVE t \in U(n) /\ g[t] = h[t]
        <3>1. t \in U(n)
            BY <1>4, <2>3
        <3>2. PackRound(w, R, U(n - 1), h)[t] = Round(t, h) /\ PackRound(w, R, U(n), h)[t] = Round(t, h)
            <4> HIDE DEF U
            <4> QED BY <1>1, <2>5, <3>1
        <3> QED BY <3>1, <3>2, <2>4
    <2>6. ASSUME NEW s \in U(n) PROVE s # {} => h[s \ {Max(s)}] = g[s \ {Max(s)}]
        <3> SUFFICES ASSUME s # {} PROVE h[s \ {Max(s)}] = g[s \ {Max(s)}]
            OBVIOUS
        <3>1. s \ {Max(s)} \in U(n - 1)
            BY <1>4, <1>5, <2>6, <2>1
        <3> QED BY <3>1, <2>5
    <2>7. g = PackRound(w, R, U(n), g)
        <3>1. \A s \in U(n) : Round(s, h) = Round(s, g)
            <4> HIDE DEF U, g
            <4> QED BY <2>6, <1>3
        <3>2. PackRound(w, R, U(n), h) = PackRound(w, R, U(n), g)
            <4> HIDE DEF g, U
            <4> QED BY <3>1, <1>2
        <3> QED BY <3>2
    <2> QED BY <2>7, <2>1
<1>7. Cardinality(B) \in Nat
    BY <1>4
<1>8. \E g : g = PackRound(w, R, U(Cardinality(B)), g)
    BY <1>6, <1>7
<1>9. U(Cardinality(B)) = SUBSET B
    BY <1>4
<1> QED BY <1>8, <1>9

\* So what the recursion defines is what one round of it gives.
LEMMA PackedOnce ==
    ASSUME NEW w, NEW R, Typed(R), NEW s \in SUBSET BlocksOf(w, R)
    PROVE  Packed(w, R)[s]
             = IF s = {} THEN [records |-> R, dest |-> PoolStart(w)]
               ELSE Move(Packed(w, R)[s \ {Max(s)}], Max(s), R[Max(s)])
<1>1. Packed(w, R) = PackRound(w, R, SUBSET BlocksOf(w, R), Packed(w, R))
    BY PackedExists DEF Packed
<1>2. PackRound(w, R, SUBSET BlocksOf(w, R), Packed(w, R))[s]
        = IF s = {} THEN [records |-> R, dest |-> PoolStart(w)]
          ELSE Move(Packed(w, R)[s \ {Max(s)}], Max(s), R[Max(s)])
    BY DEF PackRound
<1> QED BY <1>1, <1>2

\* Where the blocks before a come to end, and so where a comes to start.
Base(w, R, s) == PoolStart(w) + SumFunctionOnSet(SizesOf(R), s)
Below(s, a) == {b \in s : b < a}

\* What the records say when the blocks of s are packed: a record is one of R's that has
\* not moved yet, or it is one of the blocks of s, right after those before it.
PackedRecords(w, R, s, packed) ==
    /\ packed.dest = Base(w, R, s)
    /\ IsFiniteSet(DOMAIN packed.records)
    /\ \A d \in DOMAIN packed.records :
          \/ d \in DOMAIN R \ s /\ packed.records[d] = R[d]
          \/ \E a \in s : packed.records[d] = R[a] /\ d = Base(w, R, Below(s, a))

\* A sum over some of the blocks of a pool is a number.
LEMMA BaseType ==
    ASSUME NEW w \in Pool, NEW R, Typed(R), NEW s \in SUBSET BlocksOf(w, R)
    PROVE  Base(w, R, s) \in Nat /\ SumFunctionOnSet(SizesOf(R), s) \in Nat
<1>1. IsFiniteSet(s) /\ \A a \in s : SizesOf(R)[a] \in Nat
    BY LastBlock, RecordedType
<1>2. SumFunctionOnSet(SizesOf(R), s) \in Nat
    BY <1>1, SumType
<1> QED BY <1>2, PoolEnds DEF Base

\* Moving the next block keeps this so.
LEMMA MoveKeeps ==
    ASSUME NEW w \in Pool, NEW R, Typed(R), NEW s \in SUBSET BlocksOf(w, R), s # {},
           NEW packed, PackedRecords(w, R, s \ {Max(s)}, packed)
    PROVE  PackedRecords(w, R, s, Move(packed, Max(s), R[Max(s)]))
<1> DEFINE x == Max(s)
           r == s \ {x}
           new == Move(packed, x, R[x])
           old == packed.records
<1>1. x \in s /\ (\A a \in s : a <= x) /\ r \in SUBSET BlocksOf(w, R) /\ IsFiniteSet(s)
    BY LastBlock
<1>2. s \subseteq Nat /\ s \subseteq DOMAIN R /\ \A a \in s : SizesOf(R)[a] = R[a].size /\ R[a].size \in Nat
    BY RecordedType DEF Typed
<1> HIDE DEF x
<1>3. Below(s, x) = r /\ \A a \in r : Below(s, a) = Below(r, a)
    <2>1. x \in Nat /\ \A a \in s : a \in Nat /\ (a < x <=> a # x) /\ ~ (x < a)
        <3>1. \A a \in s : a \in Nat /\ a <= x
            BY <1>1, <1>2
        <3> QED BY <1>1, <3>1
    <2>2. Below(s, x) = r
        BY <2>1 DEF Below
    <2>3. ASSUME NEW a \in r PROVE Below(s, a) = Below(r, a)
        BY <1>1, <2>1 DEF Below
    <2> QED BY <2>2, <2>3
<1>4. /\ packed.dest = Base(w, R, r)
      /\ IsFiniteSet(DOMAIN old)
      /\ \A d \in DOMAIN old :
            \/ d \in DOMAIN R \ r /\ old[d] = R[d]
            \/ \E a \in r : old[d] = R[a] /\ d = Base(w, R, Below(r, a))
    BY DEF PackedRecords, x
<1>5. new.dest = Base(w, R, s)
    <2>1. SumFunctionOnSet(SizesOf(R), s) = R[x].size + SumFunctionOnSet(SizesOf(R), r)
        <3>1. \A a \in s : SizesOf(R)[a] \in Int
            BY <1>2
        <3>2. SumFunctionOnSet(SizesOf(R), s)
                = SizesOf(R)[x] + SumFunctionOnSet(SizesOf(R), s \ {x})
            <4> HIDE DEF new, r, old
            <4> QED BY <1>1, <3>1, SumTakeOut
        <3> QED BY <1>1, <1>2, <3>2
    <2>2. new.dest = packed.dest + R[x].size
        BY DEF Move
    <2>3. /\ SumFunctionOnSet(SizesOf(R), r) \in Nat /\ R[x].size \in Nat /\ PoolStart(w) \in Nat
        BY <1>1, <1>2, BaseType, PoolEnds
    <2> HIDE DEF new, r
    <2> QED BY <1>4, <2>1, <2>2, <2>3 DEF Base
<1>6. CASE x = packed.dest
    <2>1. new.records = old
        BY <1>6 DEF Move
    <2> HIDE DEF new
    <2>2. ASSUME NEW d \in DOMAIN old
          PROVE  \/ d \in DOMAIN R \ s /\ old[d] = R[d]
                 \/ \E a \in s : old[d] = R[a] /\ d = Base(w, R, Below(s, a))
        <3>1. CASE d \in DOMAIN R \ r /\ old[d] = R[d] /\ d # x
            BY <3>1
        <3>2. CASE d \in DOMAIN R \ r /\ old[d] = R[d] /\ d = x
            BY <1>1, <1>3, <1>4, <1>6, <3>2
        <3>3. CASE \E a \in r : old[d] = R[a] /\ d = Base(w, R, Below(r, a))
            BY <1>3, <3>3
        <3> QED BY <1>4, <3>1, <3>2, <3>3
    <2> QED BY <1>4, <1>5, <2>1, <2>2 DEF PackedRecords, x, new, r
<1>7. CASE x # packed.dest
    <2> DEFINE more == With(old, [d \in {packed.dest} |-> R[x]])
    <2>1. new.records = Without(more, {x})
        BY <1>7 DEF Move
    <2>2. /\ DOMAIN more = DOMAIN old \cup {packed.dest} /\ more[packed.dest] = R[x]
          /\ \A d \in DOMAIN old \ {packed.dest} : more[d] = old[d]
        BY DEF With
    <2> HIDE DEF more, new
    <2>3. /\ DOMAIN new.records = DOMAIN more \ {x}
          /\ \A d \in DOMAIN more \ {x} : new.records[d] = more[d]
        BY <2>1 DEF Without, Restrict
    <2>4. IsFiniteSet(DOMAIN new.records)
        <3>1. IsFiniteSet(DOMAIN more)
            BY <1>4, <2>2, FS_AddElement
        <3> HIDE DEF old
        <3> QED BY <2>3, <3>1, FS_Subset
    <2>5. ASSUME NEW d \in DOMAIN new.records
          PROVE  \/ d \in DOMAIN R \ s /\ new.records[d] = R[d]
                 \/ \E a \in s : new.records[d] = R[a] /\ d = Base(w, R, Below(s, a))
        <3>1. CASE d = packed.dest
            BY <1>1, <1>3, <1>4, <2>2, <2>3, <3>1
        <3>2. CASE d # packed.dest
            <4>1. d \in DOMAIN old /\ new.records[d] = old[d] /\ d # x
                BY <2>2, <2>3, <3>2
            <4>2. CASE d \in DOMAIN R \ r /\ old[d] = R[d]
                BY <4>1, <4>2
            <4>3. CASE \E a \in r : old[d] = R[a] /\ d = Base(w, R, Below(r, a))
                BY <1>3, <4>1, <4>3
            <4> QED BY <1>4, <4>1, <4>2, <4>3
        <3> QED BY <3>1, <3>2
    <2> QED BY <1>5, <2>4, <2>5 DEF PackedRecords, x, new, r
<1> QED BY <1>6, <1>7

\* Hence it is so when all blocks of the pool are packed.
LEMMA CompactedPacks ==
    ASSUME NEW w \in Pool, NEW R, Typed(R)
    PROVE  PackedRecords(w, R, BlocksOf(w, R), Compacted(w, R))
<1> DEFINE B == BlocksOf(w, R)
           Q == {s \in SUBSET B : ~ PackedRecords(w, R, s, Packed(w, R)[s])}
<1> SUFFICES ASSUME Q # {} PROVE FALSE
    <2>1. B \in SUBSET B /\ B \notin Q
        OBVIOUS
    <2> QED BY <2>1, CompactedIsLast
<1>1. PICK s \in Q : \A r \in Q : Cardinality(s) <= Cardinality(r)
    <2>1. \A q \in Q : IsFiniteSet(q)
        BY LastBlock
    <2> HIDE DEF Q
    <2> QED BY <2>1, SmallestSet
<1>2. s \in SUBSET B /\ ~ PackedRecords(w, R, s, Packed(w, R)[s])
    OBVIOUS
<1>3. CASE s = {}
    <2> DEFINE p == [records |-> R, dest |-> PoolStart(w)]
    <2>1. Packed(w, R)[s] = p
        BY <1>3, PackedOnce
    <2>2. p.dest = PoolStart(w) /\ p.records = R
        OBVIOUS
    <2>3. Base(w, R, s) = PoolStart(w)
        BY <1>3, SumEmpty, PoolEnds DEF Base
    <2> HIDE DEF p
    <2>4. IsFiniteSet(DOMAIN R)
        BY DEF Typed
    <2> QED BY <1>2, <1>3, <2>1, <2>2, <2>3, <2>4 DEF PackedRecords
<1>4. CASE s # {}
    <2> DEFINE r == s \ {Max(s)}
    <2>1. r \in SUBSET B /\ Cardinality(s) \in Nat /\ Cardinality(r) = Cardinality(s) - 1
        BY <1>2, <1>4, LastBlock
    <2>2. ~ (Cardinality(s) <= Cardinality(r))
        BY <2>1
    <2>3. r \notin Q
        <3> HIDE DEF Q, r
        <3> QED BY <1>1, <2>2
    <2>4. PackedRecords(w, R, r, Packed(w, R)[r])
        BY <2>1, <2>3
    <2>5. Packed(w, R)[s] = Move(Packed(w, R)[r], Max(s), R[Max(s)])
        BY <1>2, <1>4, PackedOnce
    <2> QED BY <1>2, <1>4, <2>4, <2>5, MoveKeeps
<1> QED BY <1>3, <1>4

\* Compaction leaves a table of blocks again, ends right after the blocks of its pool, and
\* puts no lines on record that were not there.
LEMMA CompactedRecords ==
    ASSUME NEW w \in Pool, NEW R, Typed(R)
    PROVE  /\ Compacted(w, R).dest = PoolStart(w) + Recorded(w, R)
           /\ Typed(Compacted(w, R).records)
           /\ \A v \in Pool : Recorded(v, Compacted(w, R).records) <= Recorded(v, R)
<1> DEFINE B == BlocksOf(w, R)
           T == Compacted(w, R).records
<1>1. PackedRecords(w, R, B, Compacted(w, R))
    BY CompactedPacks
<1>2. Compacted(w, R).dest = PoolStart(w) + Recorded(w, R)
    BY <1>1, RecordedType DEF PackedRecords, Base
<1>3. /\ IsFiniteSet(DOMAIN T)
      /\ \A d \in DOMAIN T :
          \/ d \in DOMAIN R \ B /\ T[d] = R[d]
          \/ \E a \in B : T[d] = R[a] /\ d = Base(w, R, Below(B, a))
    BY <1>1 DEF PackedRecords
<1> HIDE DEF T
<1>4. Typed(T)
    <2> SUFFICES ASSUME NEW d \in DOMAIN T
                 PROVE  d \in Nat /\ T[d].pool \in Pool /\ T[d].size \in Nat
        BY <1>3 DEF Typed
    <2>1. CASE d \in DOMAIN R \ B /\ T[d] = R[d]
        BY <2>1 DEF Typed
    <2>2. CASE \E a \in B : T[d] = R[a] /\ d = Base(w, R, Below(B, a))
        <3>1. PICK a \in B : T[d] = R[a] /\ d = Base(w, R, Below(B, a))
            BY <2>2
        <3>2. Below(B, a) \in SUBSET B /\ a \in DOMAIN R
            BY RecordedType DEF Below
        <3>3. Base(w, R, Below(B, a)) \in Nat
            BY <3>2, BaseType
        <3> QED BY <3>1, <3>2, <3>3 DEF Typed
    <2> QED BY <1>3, <2>1, <2>2
<1>5. ASSUME NEW v \in Pool, v # w PROVE Recorded(v, T) <= Recorded(v, R)
    <2>1. \A d \in DOMAIN T : T[d].pool = v => d \in DOMAIN R /\ T[d] = R[d]
        BY <1>3, <1>5 DEF BlocksOf
    <2>2. BlocksOf(v, T) \subseteq BlocksOf(v, R) /\ \A d \in BlocksOf(v, T) : T[d].size = R[d].size
        BY <2>1 DEF BlocksOf
    <2> QED BY <1>4, <2>2, RecordedSubset
<1>6. Recorded(w, T) <= Recorded(w, R)
    <2> DEFINE From(d, a) == T[d] = R[a] /\ d = Base(w, R, Below(B, a))
               g == [d \in BlocksOf(w, T) |-> CHOOSE a \in B : From(d, a)]
    <2>1. \A d \in BlocksOf(w, T) : \E a \in B : From(d, a)
        BY <1>3 DEF BlocksOf
    <2>2. \A d \in BlocksOf(w, T) : g[d] \in B /\ From(d, g[d])
        <3> HIDE DEF From
        <3> QED BY <2>1
    <2>3. g \in [BlocksOf(w, T) -> B]
        <3> HIDE DEF From
        <3> QED BY <2>1
    <2> HIDE DEF g
    <2>4. IsInjective(g)
        <3>1. DOMAIN g = BlocksOf(w, T)
            BY <2>3
        <3> QED BY <2>2, <3>1 DEF IsInjective
    <2>5. \A d \in BlocksOf(w, T) : T[d].size = R[g[d]].size
        BY <2>2
    <2> QED BY <1>4, <2>3, <2>4, <2>5, RecordedFewer
<1>7. \A v \in Pool : Recorded(v, T) <= Recorded(v, R)
    BY <1>5, <1>6
<1> QED BY <1>2, <1>4, <1>7 DEF T

-----------------------------------------------------------------------------
\* The actions, for the pools.

\* Everything is empty.
LEMMA InitPoolInv == Init => PoolInv
<1> SUFFICES ASSUME Init PROVE PoolInv
    OBVIOUS
<1>1. poolAllocations = NoMapping /\ DOMAIN poolAllocations = {} /\ NoMapping = NoMapping
    BY DEF Init, NoMapping
<1>2. Typed(poolAllocations)
    BY <1>1, FS_EmptySet DEF Typed
<1>3. \A w \in Pool : Recorded(w, poolAllocations) = 0
    <2> SUFFICES ASSUME NEW w \in Pool PROVE Recorded(w, poolAllocations) = 0
        OBVIOUS
    <2>1. BlocksOf(w, poolAllocations) = {}
        BY <1>1 DEF BlocksOf
    <2> QED BY <1>2, <2>1, RecordedType, SumEmpty
<1>4. /\ DOMAIN used = Pool /\ DOMAIN fragmentedSpace = Pool
      /\ \A w \in Pool : used[w] = 0 /\ fragmentedSpace[w] = 0
    BY DEF Init
<1>5. PoolTypeOK
    BY <1>1, <1>4, Pools, UnitAssumption DEF PoolTypeOK
<1> QED BY <1>2, <1>3, <1>4, <1>5 DEF PoolInv, PoolCursorCovers

\* allocateMemory from a pool.
LEMMA AllocateFromPoolKeepsPools ==
    ASSUME PoolInv, NEW c \in Client, NEW size \in Sizes, NEW w \in Workload,
           AllocateFromPool(c, size, w)
    PROVE  PoolInv'
<1> DEFINE lines == Lines(size)
           at == PoolStart(w) + used[w]
           R == poolAllocations
           T == With(R, [a \in {at} |-> [pool |-> w, size |-> lines]])
<1>1. /\ w \in Pool /\ used[w] + lines <= PoolLines(w)
      /\ used' = [used EXCEPT ![w] = @ + lines]
      /\ poolAllocations' = T
      /\ fragmentedSpace' = fragmentedSpace
    BY DEF AllocateFromPool, PoolTakes
<1>2. lines \in Nat /\ PoolLines(w) \in Nat /\ used[w] \in Nat /\ at \in Nat
    <2>1. used[w] \in Nat /\ PoolStart(w) \in Nat /\ PoolLines(w) \in Nat
        BY <1>1, Pools, PoolEnds DEF PoolInv, PoolTypeOK
    <2> QED BY <2>1, CountType
<1>3. Typed(R)
    BY DEF PoolInv
<1> HIDE DEF lines, at
<1>4. Typed(T) /\ \A v \in Pool : Recorded(v, T) <= Recorded(v, R) + (IF w = v THEN lines ELSE 0)
    <2>1. DOMAIN T = DOMAIN R \cup {at} /\ (\A b \in DOMAIN R \ {at} : T[b] = R[b])
          /\ T[at].pool = w /\ T[at].size = lines
        BY DEF With
    <2> HIDE DEF T
    <2> QED BY <1>1, <1>2, <1>3, <2>1, RecordedWith
<1> HIDE DEF T
<1>5. /\ DOMAIN used' = Pool /\ used'[w] = used[w] + lines
      /\ \A v \in Pool : v # w => used'[v] = used[v]
    BY <1>1 DEF PoolInv
<1>6. PoolTypeOK'
    <2>1. \A v \in Pool : used'[v] \in 0 .. PoolLines(v)
        BY <1>1, <1>2, <1>5 DEF PoolInv, PoolTypeOK
    <2>2. \A a \in DOMAIN T : T[a].pool \in Pool
        BY <1>4 DEF Typed
    <2> QED BY <1>1, <2>1, <2>2 DEF PoolInv, PoolTypeOK
<1>7. PoolCursorCovers'
    <2> SUFFICES ASSUME NEW v \in Pool PROVE used'[v] >= Recorded(v, T)
        BY <1>1 DEF PoolCursorCovers
    <2>1. /\ used[v] >= Recorded(v, R) /\ Recorded(v, R) \in Nat /\ Recorded(v, T) \in Nat
          /\ used[v] \in Nat
        BY <1>3, <1>4, RecordedType DEF PoolInv, PoolCursorCovers, PoolTypeOK
    <2>2. CASE v = w
        <3>1. Recorded(v, T) <= Recorded(v, R) + lines
            BY <1>4, <2>2
        <3> QED BY <1>2, <1>5, <2>1, <2>2, <3>1
    <2>3. CASE v # w
        <3>1. Recorded(v, T) <= Recorded(v, R) + 0
            BY <1>4, <2>3
        <3> QED BY <1>5, <2>1, <2>3, <3>1
    <2> QED BY <2>2, <2>3
<1> QED BY <1>1, <1>4, <1>5, <1>6, <1>7 DEF PoolInv

\* freeMemory of a pool block: the cursor covers the block, and what compaction leaves.
LEMMA FreeToPoolKeepsPools ==
    ASSUME PoolInv, NEW c \in Client, FreeToPool(c)
    PROVE  PoolInv'
<1> DEFINE R == poolAllocations
           a == held[c].at
           w == R[a].pool
           n == R[a].size
           T == Without(R, {a})
           packed == Compacted(w, T)
           space == fragmentedSpace[w] + n
<1>1. /\ a \in DOMAIN R
      /\ IF space > DefragThreshold
         THEN /\ poolAllocations' = packed.records
              /\ used' = [used EXCEPT ![w] = packed.dest - PoolStart(w)]
              /\ fragmentedSpace' = [fragmentedSpace EXCEPT ![w] = 0]
         ELSE /\ poolAllocations' = T
              /\ used' = [used EXCEPT ![w] = @ - n]
              /\ fragmentedSpace' = [fragmentedSpace EXCEPT ![w] = space]
    BY DEF FreeToPool
<1>2. Typed(R) /\ w \in Pool /\ n \in Nat /\ fragmentedSpace[w] \in Nat /\ space \in Nat
    <2>1. Typed(R) /\ w \in Pool /\ n \in Nat
        BY <1>1 DEF PoolInv, Typed
    <2>2. fragmentedSpace[w] \in Nat
        BY <2>1, UnitAssumption DEF PoolInv, PoolTypeOK
    <2> QED BY <2>1, <2>2
<1> HIDE DEF a, w, n, T
<1>3. Typed(T)
    BY <1>1, <1>2, RecordedWithout DEF T
<1>4. ASSUME NEW v \in Pool
      PROVE  /\ used[v] \in Nat /\ Recorded(v, T) \in Nat /\ used[v] <= PoolLines(v) /\ PoolLines(v) \in Nat
             /\ v # w => used[v] >= Recorded(v, T)
             /\ v = w => used[v] - n >= Recorded(v, T)
    <2>1. /\ used[v] >= Recorded(v, R) /\ Recorded(v, R) \in Nat /\ Recorded(v, T) \in Nat
          /\ used[v] \in Nat /\ used[v] <= PoolLines(v) /\ PoolLines(v) \in Nat
        BY <1>2, <1>3, RecordedType, Pools DEF PoolInv, PoolCursorCovers, PoolTypeOK
    <2>2. Recorded(v, R) = Recorded(v, T) + (IF w = v THEN n ELSE 0)
        BY <1>1, <1>2, RecordedWithout DEF T, w, n
    <2> QED BY <1>2, <2>1, <2>2
<1>5. CASE space > DefragThreshold
    <2>1. /\ packed.dest = PoolStart(w) + Recorded(w, T)
          /\ Typed(packed.records)
          /\ \A v \in Pool : Recorded(v, packed.records) <= Recorded(v, T)
        BY <1>2, <1>3, CompactedRecords
    <2>2. PoolStart(w) \in Nat /\ Recorded(w, T) \in Nat
        BY <1>2, <1>4, PoolEnds
    <2>3. packed.dest - PoolStart(w) = Recorded(w, T)
        BY <2>1, <2>2
    <2> DEFINE U == packed.records
    <2>4. /\ poolAllocations' = U
          /\ DOMAIN used' = Pool /\ DOMAIN fragmentedSpace' = Pool
          /\ used'[w] = Recorded(w, T) /\ fragmentedSpace'[w] = 0
          /\ \A v \in Pool : v # w => used'[v] = used[v] /\ fragmentedSpace'[v] = fragmentedSpace[v]
        BY <1>1, <1>2, <1>5, <2>3 DEF PoolInv
    <2>5. \A v \in Pool : Recorded(v, U) <= Recorded(v, T) /\ Recorded(v, U) \in Nat
        BY <2>1, RecordedType
    <2> HIDE DEF U, packed
    <2>6. \A v \in Pool : used'[v] \in 0 .. PoolLines(v) /\ used'[v] >= Recorded(v, U)
        <3> SUFFICES ASSUME NEW v \in Pool
                     PROVE  used'[v] \in 0 .. PoolLines(v) /\ used'[v] >= Recorded(v, U)
            OBVIOUS
        <3>1. CASE v = w
            BY <1>2, <1>4, <2>4, <2>5, <3>1
        <3>2. CASE v # w
            BY <1>4, <2>4, <2>5, <3>2
        <3> QED BY <3>1, <3>2
    <2>7. \A v \in Pool : fragmentedSpace'[v] \in 0 .. DefragThreshold
        BY <2>4, UnitAssumption DEF PoolInv, PoolTypeOK
    <2>8. Typed(U)
        BY <2>1 DEF U, packed
    <2>9. \A d \in DOMAIN U : U[d].pool \in Pool
        BY <2>8 DEF Typed
    <2> QED BY <2>4, <2>6, <2>7, <2>8, <2>9 DEF PoolInv, PoolTypeOK, PoolCursorCovers
<1>6. CASE ~ (space > DefragThreshold)
    <2>1. /\ poolAllocations' = T
          /\ DOMAIN used' = Pool /\ DOMAIN fragmentedSpace' = Pool
          /\ used'[w] = used[w] - n /\ fragmentedSpace'[w] = space
          /\ \A v \in Pool : v # w => used'[v] = used[v] /\ fragmentedSpace'[v] = fragmentedSpace[v]
        BY <1>1, <1>2, <1>6 DEF PoolInv
    <2>2. \A v \in Pool : used'[v] \in 0 .. PoolLines(v) /\ used'[v] >= Recorded(v, T)
        <3> SUFFICES ASSUME NEW v \in Pool
                     PROVE  used'[v] \in 0 .. PoolLines(v) /\ used'[v] >= Recorded(v, T)
            OBVIOUS
        <3>1. CASE v = w
            BY <1>2, <1>4, <2>1, <3>1
        <3>2. CASE v # w
            BY <1>4, <2>1, <3>2
        <3> QED BY <3>1, <3>2
    <2>3. \A v \in Pool : fragmentedSpace'[v] \in 0 .. DefragThreshold
        BY <1>2, <1>6, <2>1, UnitAssumption DEF PoolInv, PoolTypeOK
    <2>4. \A d \in DOMAIN T : T[d].pool \in Pool
        BY <1>3 DEF Typed
    <2> QED BY <1>3, <2>1, <2>2, <2>3, <2>4 DEF PoolInv, PoolTypeOK, PoolCursorCovers
<1> QED BY <1>5, <1>6

\* The other calls leave the pools alone.
LEMMA PoolsUnchanged ==
    ASSUME PoolInv, UNCHANGED poolVars
    PROVE  PoolInv'
BY DEF PoolInv, poolVars, PoolTypeOK, PoolCursorCovers

-----------------------------------------------------------------------------
\* Addresses and pages.

\* Division with its remainder.
LEMMA Divide ==
    ASSUME NEW P \in Nat \ {0}, NEW a \in Nat
    PROVE  /\ a \div P \in Nat /\ a % P \in Nat /\ a % P < P
           /\ a = (a \div P) * P + (a % P)
OBVIOUS

\* Multiplication keeps the order.
LEMMA Order ==
    ASSUME NEW P \in Nat \ {0}, NEW a \in Nat, NEW b \in Nat, a <= b
    PROVE  a * P <= b * P
OBVIOUS

\* The quotient of a number between two multiples is between theirs.
LEMMA QuotientIn ==
    ASSUME NEW P \in Nat \ {0}, NEW q \in Nat, NEW n \in Nat, NEW a \in Nat,
           q * P <= a, a < (q + n) * P
    PROVE  a \div P \in q .. q + n - 1
<1> DEFINE d == a \div P
           x == d * P
<1>1. d \in Nat /\ a % P \in Nat /\ a % P < P /\ a = x + (a % P)
    BY Divide
<1>2. x \in Nat
    <2> HIDE DEF d
    <2> QED BY <1>1
<1> HIDE DEF d
<1>3. q * P \in Nat /\ (q + n) * P \in Nat /\ q + n \in Nat
    BY SMT
<1>4. ~ (d < q)
    <2> SUFFICES ASSUME d < q PROVE FALSE
        OBVIOUS
    <2>1. d + 1 \in Nat /\ d + 1 <= q
        BY <1>1
    <2>2. (d + 1) * P <= q * P
        BY <2>1, Order
    <2>3. (d + 1) * P = x + P
        BY <1>1
    <2> HIDE DEF x
    <2> DEFINE y == q * P
               z == (d + 1) * P
    <2>4. z <= y /\ z = x + P /\ y <= a
        BY <2>2, <2>3
    <2>5. y \in Nat
        BY <1>3
    <2> HIDE DEF y, z
    <2> QED BY <1>1, <1>2, <2>4, <2>5
<1>5. ~ (q + n <= d)
    <2> SUFFICES ASSUME q + n <= d PROVE FALSE
        OBVIOUS
    <2>1. (q + n) * P <= d * P
        BY <1>1, <1>3, Order
    <2> DEFINE z == (q + n) * P
    <2>2. z <= x /\ z \in Nat /\ a < z
        BY <1>3, <2>1
    <2> HIDE DEF x, z
    <2> QED BY <1>1, <1>2, <2>2
<1>6. d >= q /\ d <= q + n - 1
    BY <1>1, <1>3, <1>4, <1>5
<1> QED BY <1>1, <1>6 DEF d

\* A number rounded up is one of the multiples at least as large.
LEMMA RoundUp ==
    ASSUME NEW P \in Nat \ {0}, NEW a \in Nat
    PROVE  (a + P - 1) \div P \in Nat /\ ((a + P - 1) \div P) * P >= a
<1> DEFINE b == a + P - 1 
           x == (b \div P) * P
<1>1. b \in Nat
  OBVIOUS
<1>2. b \div P \in Nat /\ b % P \in Nat /\ b % P < P /\ b = x + (b % P)
  <2> HIDE DEF b
  <2> QED BY <1>1, Divide
<1>3. x \in Nat
  <2> HIDE DEF b
  <2> QED BY <1>2
<1> HIDE DEF x
<1>4. b = a + P - 1
  OBVIOUS
<1> HIDE DEF b
<1>5. x >= a
  BY <1>2, <1>3, <1>4
<1> QED BY <1>2, <1>5 DEF x, b

\* A multiple is divided without remainder.
LEMMA Multiple ==
    ASSUME NEW P \in Nat \ {0}, NEW q \in Nat
    PROVE  (q * P) \div P = q /\ (q * P) % P = 0 /\ q * P \in Nat
<1> DEFINE a == q * P
<1>1. a \in Nat
    OBVIOUS
<1>2. a < (q + 1) * P
    OBVIOUS
<1>3. a \div P = q
    <2>1. q * P <= a
        BY <1>1
    <2> HIDE DEF a
    <2>2. a \div P \in q .. q + 1 - 1
        BY <1>1, <1>2, <2>1, QuotientIn
    <2> QED BY <2>2
<1>4. a = a + (a % P) /\ a % P \in Nat
    <2> HIDE DEF a
    <2>1. a % P \in Nat /\ a = (a \div P) * P + (a % P)
        BY <1>1, Divide
    <2> QED BY <1>3, <2>1 DEF a
<1>5. a % P = 0
    <2> HIDE DEF a
    <2> QED BY <1>1, <1>4
<1> QED BY <1>1, <1>3, <1>5

-----------------------------------------------------------------------------
\* The actions, for the blocks that are held.

\* A request that does not wrap is for a line at least.
LEMMA LinesOfRequest ==
    ASSUME NEW size \in Sizes, ~ (size + CacheLine - 1 >= SizeLimit)
    PROVE  Lines(size) \in Nat \ {0}
<1> DEFINE sum == size + CacheLine - 1
<1>1. sum \in Nat /\ sum < SizeLimit /\ CacheLine <= sum
    BY Constants
<1> HIDE DEF sum
<1>2. sum % SizeLimit = sum
    BY <1>1, Constants
<1>3. Lines(size) = sum \div CacheLine
    BY <1>2 DEF Lines, sum
<1>4. sum \div CacheLine \in Nat /\ sum = (sum \div CacheLine) * CacheLine + (sum % CacheLine)
      /\ sum % CacheLine < CacheLine /\ sum % CacheLine \in Nat
    BY <1>1, Constants, Divide
<1>5. sum \div CacheLine # 0
    <2> SUFFICES ASSUME sum \div CacheLine = 0 PROVE FALSE
        OBVIOUS
    <2>1. (sum \div CacheLine) * CacheLine = 0
        BY Constants
    <2>2. sum = sum % CacheLine
        BY <1>4, <2>1
    <2> QED BY <1>1, <1>4, <2>2, Constants
<1> QED BY <1>3, <1>4, <1>5

\* Page blocks lie outside the pools; blocks in the pools start in other pages.
LEMMA FirstPages ==
    ASSUME PagesInv
    PROVE  /\ \A p \in DOMAIN pageAllocations : p \in Nat /\ p >= ReservedPages
           /\ \A at, n \in Nat : (n # 0 /\ at + n <= ReservedPages * PageLines)
                                    => at \div PageLines \in 0 .. ReservedPages - 1
<1>1. ASSUME NEW p \in DOMAIN pageAllocations PROVE p \in Nat /\ p >= ReservedPages
    <2>1. p \in Nat /\ pageAllocations[p] \in Nat \ {0} /\ p \in Int
        BY DEF PagesInv, PageTypeOK, Pages
    <2>2. p \in Extent(p, pageAllocations[p])
        BY <2>1 DEF Extent
    <2>3. p \notin Extent(0, ReservedPages)
        BY <2>2 DEF PagesInv, PagesAccounted
    <2> QED BY <2>1, <2>3, Constants DEF Extent
<1>2. ASSUME NEW at \in Nat, NEW n \in Nat, n # 0, at + n <= ReservedPages * PageLines
      PROVE  at \div PageLines \in 0 .. ReservedPages - 1
    <2>1. ReservedPages \in Nat /\ ReservedPages * PageLines \in Nat /\ 0 * PageLines = 0
        BY Constants
    <2>2. 0 * PageLines <= at /\ at < ReservedPages * PageLines
        BY <1>2, <2>1
    <2>3. at < (0 + ReservedPages) * PageLines
        BY <2>1, <2>2
    <2>4. at \div PageLines \in 0 .. 0 + ReservedPages - 1
        BY <2>1, <2>2, <2>3, Constants, QuotientIn
    <2> QED BY <2>1, <2>4
<1> QED BY <1>1, <1>2

\* A client whose block and page record stay has its block where it was.
LEMMA BlockStays ==
    ASSUME NEW d \in Client, held'[d] = held[d],
           InPages(d) => /\ FirstPage(d) \in DOMAIN pageAllocations'
                         /\ pageAllocations'[FirstPage(d)] = pageAllocations[FirstPage(d)]
    PROVE  /\ FirstPage(d)' = FirstPage(d) /\ InPools(d)' = InPools(d)
           /\ InPages(d) => InPages(d)'
BY DEF FirstPage, InPools, InPages, IsPageBlock

\* Nobody holds anything.
LEMMA InitHeldInv == Init => HeldInv
BY DEF Init, HeldInv

\* A new block that lies in the pools.
LEMMA AllocateFromPoolKeepsHeld ==
    ASSUME PagesInv, PoolInv, HeldInv, NEW c \in Client, NEW size \in Sizes, NEW w \in Workload,
           AllocateFromPool(c, size, w)
    PROVE  HeldInv'
<1> DEFINE lines == Lines(size)
           at == PoolStart(w) + used[w]
<1>1. /\ w \in Pool /\ used[w] + lines <= PoolLines(w)
      /\ held' = [held EXCEPT ![c] = [at |-> at, size |-> lines]]
      /\ pageAllocations' = pageAllocations
      /\ ~ wrapped' => ~ wrapped /\ ~ (size + CacheLine - 1 >= SizeLimit)
    BY DEF AllocateFromPool, PoolTakes, Requested, pageVars
<1>2. DOMAIN held' = Client
    BY <1>1 DEF HeldInv
<1> SUFFICES ASSUME ~ wrapped', NEW d \in Client, held'[d] # NoBlock
             PROVE  /\ held'[d].at \in Nat /\ held'[d].size \in Nat \ {0}
                    /\ \/ InPools(d)'
                       \/ /\ InPages(d)'
                          /\ \A e \in Client \ {d} : held'[e] # NoBlock => FirstPage(e)' # FirstPage(d)'
    BY <1>2 DEF HeldInv
<1>3. lines \in Nat \ {0}
    BY <1>1, LinesOfRequest
<1>4. at \in Nat /\ at + lines <= ReservedPages * PageLines
    <2>1. used[w] \in Nat /\ PoolStart(w) \in Nat /\ PoolLines(w) \in Nat
          /\ PoolStart(w) + PoolLines(w) <= ReservedPages * PageLines
          /\ ReservedPages * PageLines \in Nat
        BY <1>1, Pools, PoolEnds, Constants DEF PoolInv, PoolTypeOK
    <2> DEFINE end == ReservedPages * PageLines
    <2> HIDE DEF end, lines
    <2>2. end \in Nat /\ PoolStart(w) + PoolLines(w) <= end
        BY <2>1 DEF end
    <2>3. at \in Nat /\ at + lines <= end
        BY <1>1, <1>3, <2>1, <2>2
    <2> QED BY <2>3 DEF end
<1> HIDE DEF at, lines
<1>5. held'[c].at = at /\ held'[c].size = lines
    BY <1>1 DEF HeldInv
<1>6. CASE d = c
    BY <1>3, <1>4, <1>5, <1>6 DEF InPools
<1>7. CASE d # c
    <2>1. \A e \in Client \ {c} : held'[e] = held[e]
        BY <1>1 DEF HeldInv
    <2>2. /\ FirstPage(d)' = FirstPage(d) /\ InPools(d)' = InPools(d)
          /\ InPages(d) => InPages(d)'
        BY <1>1, <1>7, <2>1, BlockStays DEF InPages, IsPageBlock
    <2>3. /\ held[d].at \in Nat /\ held[d].size \in Nat \ {0}
          /\ \/ InPools(d)
             \/ /\ InPages(d)
                /\ \A e \in Client \ {d} : held[e] # NoBlock => FirstPage(e) # FirstPage(d)
        BY <1>1, <1>7, <2>1 DEF HeldInv
    <2>4. CASE InPools(d)
        BY <1>7, <2>1, <2>2, <2>3, <2>4
    <2>5. CASE /\ InPages(d)
               /\ \A e \in Client \ {d} : held[e] # NoBlock => FirstPage(e) # FirstPage(d)
        <3>1. FirstPage(c)' # FirstPage(d)
            <4>1. FirstPage(c)' \in 0 .. ReservedPages - 1
                BY <1>3, <1>4, <1>5, FirstPages DEF FirstPage
            <4>2. FirstPage(d) \in Nat /\ FirstPage(d) >= ReservedPages
                BY <2>5, FirstPages DEF InPages, IsPageBlock
            <4> QED BY <4>1, <4>2, Constants
        <3>2. \A e \in Client \ {c} : FirstPage(e)' = FirstPage(e)
            BY <2>1 DEF FirstPage
        <3> QED BY <1>7, <2>1, <2>2, <2>3, <2>5, <3>1, <3>2
    <2> QED BY <2>3, <2>4, <2>5
<1> QED BY <1>6, <1>7

\* A new block of pages: its pages were free, so no other block starts in them.
LEMMA AllocateFromPagesKeepsHeld ==
    ASSUME PagesInv, HeldInv, NEW c \in Client, NEW size \in Sizes, NEW w \in Workload,
           AllocateFromPages(c, size, w)
    PROVE  HeldInv'
<1> DEFINE lines == Lines(size)
           n == PageCount(lines)
<1>1. PICK s \in Pages :
        /\ FirstFit(s, n, taken)
        /\ pageAllocations' = With(pageAllocations, [r \in {s} |-> n])
        /\ held' = [held EXCEPT ![c] = [at |-> s * PageLines, size |-> lines]]
    BY DEF AllocateFromPages
<1>2. n \in Nat \ {0} /\ lines \in Nat
      /\ (~ wrapped' => ~ wrapped /\ ~ (size + CacheLine - 1 >= SizeLimit))
    <2>1. n \in Nat \ {0} /\ lines \in Nat
        BY CountType DEF AllocateFromPages
    <2>2. Requested(c, size)
        BY DEF AllocateFromPages
    <2>3. ~ wrapped' => ~ wrapped /\ ~ (size + CacheLine - 1 >= SizeLimit)
        BY <2>2 DEF Requested
    <2> QED BY <2>1, <2>3
<1>3. DOMAIN held' = Client
    BY <1>1 DEF HeldInv
<1> SUFFICES ASSUME ~ wrapped', NEW d \in Client, held'[d] # NoBlock
             PROVE  /\ held'[d].at \in Nat /\ held'[d].size \in Nat \ {0}
                    /\ \/ InPools(d)'
                       \/ /\ InPages(d)'
                          /\ \A e \in Client \ {d} : held'[e] # NoBlock => FirstPage(e)' # FirstPage(d)'
    BY <1>3 DEF HeldInv
<1>4. lines \in Nat \ {0}
    BY <1>2, LinesOfRequest
<1> HIDE DEF n
<1>5. s \in Nat /\ s >= ReservedPages /\ s \notin DOMAIN pageAllocations
    <2>1. s \in Extent(s, n) /\ Extent(s, n) \cap taken = {} /\ s \in Nat
        BY <1>1, <1>2, FitIsFree DEF Pages
    <2>2. s \notin DOMAIN pageTable /\ s \notin Extent(0, ReservedPages)
        BY <2>1 DEF PagesInv, PagesAccounted, PoolsKept
    <2>3. \A r \in DOMAIN pageAllocations : r \in Extent(r, pageAllocations[r])
        BY DEF PagesInv, PageTypeOK, Pages, Extent
    <2>4. s \notin DOMAIN pageAllocations
        BY <2>2, <2>3 DEF PagesInv, PagesAccounted
    <2> QED BY <2>1, <2>2, <2>4, Constants DEF Extent
<1>6. /\ DOMAIN pageAllocations' = DOMAIN pageAllocations \cup {s} /\ pageAllocations'[s] = n
      /\ \A r \in DOMAIN pageAllocations : pageAllocations'[r] = pageAllocations[r]
    BY <1>1, <1>5 DEF With
<1>7. held'[c].at = s * PageLines /\ held'[c].size = lines
    BY <1>1 DEF HeldInv
<1>8. FirstPage(c)' = s /\ InPages(c)' /\ held'[c].at \in Nat
    <2>1. /\ (s * PageLines) \div PageLines = s
          /\ (s * PageLines) % PageLines = 0 /\ s * PageLines \in Nat
        BY <1>5, Constants, Multiple
    <2>2. FirstPage(c)' = s
        BY <1>7, <2>1 DEF FirstPage
    <2>3. IsPageBlock(c)'
        BY <1>6, <1>7, <2>1, <2>2 DEF IsPageBlock
    <2>4. InPages(c)'
        BY <1>6, <1>7, <2>2, <2>3 DEF InPages, n
    <2> QED BY <1>7, <2>1, <2>2, <2>4
<1> HIDE DEF lines
<1>9. /\ \A e \in Client \ {c} : held'[e] = held[e]
      /\ \A e \in Client \ {c} : FirstPage(e)' = FirstPage(e)
    <2>1. \A e \in Client \ {c} : held'[e] = held[e]
        BY <1>1 DEF HeldInv
    <2> QED BY <2>1 DEF FirstPage
<1>10. ASSUME NEW e \in Client \ {c}, held[e] # NoBlock
       PROVE  /\ held[e].at \in Nat /\ held[e].size \in Nat \ {0} /\ FirstPage(e) # s
              /\ \/ InPools(e)
                 \/ /\ InPages(e)
                    /\ \A f \in Client \ {e} : held[f] # NoBlock => FirstPage(f) # FirstPage(e)
    <2>1. /\ held[e].at \in Nat /\ held[e].size \in Nat \ {0}
          /\ \/ InPools(e)
             \/ /\ InPages(e)
                /\ \A f \in Client \ {e} : held[f] # NoBlock => FirstPage(f) # FirstPage(e)
        BY <1>2, <1>10 DEF HeldInv
    <2>2. CASE InPools(e)
        <3>1. FirstPage(e) \in 0 .. ReservedPages - 1
            BY <2>1, <2>2, FirstPages DEF InPools, FirstPage
        <3> QED BY <1>5, <2>1, <3>1, Constants
    <2>3. CASE InPages(e)
        BY <1>5, <2>1, <2>3 DEF InPages, IsPageBlock
    <2> QED BY <2>1, <2>2, <2>3
<1>11. CASE d = c
    BY <1>4, <1>7, <1>8, <1>9, <1>10, <1>11
<1>12. CASE d # c
    <2>1. held[d] # NoBlock
        BY <1>9, <1>12
    <2>2. /\ InPools(d)' = InPools(d)
          /\ InPages(d) => InPages(d)'
        BY <1>6, <1>9, <1>12, BlockStays DEF InPages, IsPageBlock
    <2> QED BY <1>8, <1>9, <1>10, <1>12, <2>1, <2>2
<1> QED BY <1>11, <1>12

\* A block is given back, and the page records of the others stay.
LEMMA FreeKeepsHeld ==
    ASSUME PagesInv, HeldInv, NEW c \in Client,
           FreeToPool(c) \/ FreePages(c) \/ FreeRejected(c)
    PROVE  HeldInv'
<1>1. held' = [held EXCEPT ![c] = NoBlock] /\ wrapped' = wrapped /\ held[c] # NoBlock
    BY DEF FreeToPool, FreePages, FreeRejected
<1>2. DOMAIN held' = Client /\ held'[c] = NoBlock
      /\ \A e \in Client \ {c} : held'[e] = held[e] /\ FirstPage(e)' = FirstPage(e)
    BY <1>1 DEF HeldInv, FirstPage
<1> SUFFICES ASSUME ~ wrapped, NEW d \in Client, held'[d] # NoBlock
             PROVE  /\ held'[d].at \in Nat /\ held'[d].size \in Nat \ {0}
                    /\ \/ InPools(d)'
                       \/ /\ InPages(d)'
                          /\ \A e \in Client \ {d} : held'[e] # NoBlock => FirstPage(e)' # FirstPage(d)'
    BY <1>1, <1>2 DEF HeldInv
<1>3. d # c /\ held'[d] = held[d] /\ held[d] # NoBlock
    BY <1>2
<1>4. /\ held[d].at \in Nat /\ held[d].size \in Nat \ {0}
      /\ \/ InPools(d)
         \/ /\ InPages(d)
            /\ \A e \in Client \ {d} : held[e] # NoBlock => FirstPage(e) # FirstPage(d)
    BY <1>3 DEF HeldInv
<1>5. CASE InPools(d)
    BY <1>3, <1>4, <1>5 DEF InPools
<1>6. CASE /\ InPages(d)
           /\ \A e \in Client \ {d} : held[e] # NoBlock => FirstPage(e) # FirstPage(d)
    <2>1. FirstPage(c) # FirstPage(d)
        BY <1>1, <1>3, <1>6
    <2>2. \/ pageAllocations' = pageAllocations
          \/ pageAllocations' = Without(pageAllocations, {FirstPage(c)})
        BY DEF FreeToPool, FreePages, FreeRejected, pageVars
    <2>3. /\ FirstPage(d) \in DOMAIN pageAllocations'
          /\ pageAllocations'[FirstPage(d)] = pageAllocations[FirstPage(d)]
        BY <1>6, <2>1, <2>2 DEF InPages, IsPageBlock, Without, Restrict
    <2>4. InPages(d)' /\ FirstPage(d)' = FirstPage(d)
        BY <1>3, <1>6, <2>3, BlockStays
    <2> QED BY <1>2, <1>3, <1>4, <1>6, <2>4
<1> QED BY <1>4, <1>5, <1>6

\* Nothing happens.
LEMMA HeldUnchanged ==
    ASSUME HeldInv, UNCHANGED <<held, pageAllocations, wrapped>>
    PROVE  HeldInv'
BY DEF HeldInv, InPools, InPages, IsPageBlock, FirstPage

-----------------------------------------------------------------------------
\* The invariant.

\* It holds at first.
LEMMA InitIndInv == Init => IndInv
BY InitPagesInv, InitPoolInv, InitHeldInv DEF IndInv

\* Every step keeps it.
LEMMA NextIndInv == IndInv /\ [Next]_vars => IndInv'
<1> SUFFICES ASSUME PagesInv, PoolInv, HeldInv, [Next]_vars PROVE IndInv'
    BY DEF IndInv
<1>1. ASSUME NEW c \in Client, NEW size \in Sizes, NEW w \in Workload,
             AllocateFromPool(c, size, w)
      PROVE  IndInv'
    <2>1. UNCHANGED pageVars
        BY <1>1 DEF AllocateFromPool
    <2> QED BY <1>1, <2>1, PagesUnchanged, AllocateFromPoolKeepsPools, AllocateFromPoolKeepsHeld
            DEF IndInv
<1>2. ASSUME NEW c \in Client, NEW size \in Sizes, NEW w \in Workload,
             AllocateFromPages(c, size, w)
      PROVE  IndInv'
    <2>1. UNCHANGED poolVars
        BY <1>2 DEF AllocateFromPages
    <2> QED BY <1>2, <2>1, PoolsUnchanged, AllocateFromPagesKeeps, AllocateFromPagesKeepsHeld
            DEF IndInv
<1>3. ASSUME NEW c \in Client, FreeToPool(c)
      PROVE  IndInv'
    <2>1. UNCHANGED pageVars
        BY <1>3 DEF FreeToPool
    <2> QED BY <1>3, <2>1, PagesUnchanged, FreeToPoolKeepsPools, FreeKeepsHeld DEF IndInv
<1>4. ASSUME NEW c \in Client, FreePages(c)
      PROVE  IndInv'
    <2>1. UNCHANGED poolVars
        BY <1>4 DEF FreePages
    <2> QED BY <1>4, <2>1, PoolsUnchanged, FreePagesKeeps, FreeKeepsHeld DEF IndInv
<1>5. ASSUME NEW c \in Client, FreeRejected(c)
      PROVE  IndInv'
    <2>1. UNCHANGED <<poolVars, pageVars>>
        BY <1>5 DEF FreeRejected
    <2> QED BY <1>5, <2>1, PoolsUnchanged, PagesUnchanged, FreeKeepsHeld DEF IndInv
<1>6. CASE UNCHANGED vars
    <2>1. UNCHANGED poolVars /\ UNCHANGED pageVars /\ UNCHANGED <<held, pageAllocations, wrapped>>
        BY <1>6 DEF vars, pageVars
    <2> QED BY <2>1, PoolsUnchanged, PagesUnchanged, HeldUnchanged DEF IndInv
<1> QED BY <1>1, <1>2, <1>3, <1>4, <1>5, <1>6 DEF Next

\* Hence it holds in every state.
LEMMA Inductive == Spec => []IndInv
<1> QED BY InitIndInv, NextIndInv, PTL DEF Spec

\* A line of a block of pages is in one of its pages.
LEMMA LineOfBlock ==
    ASSUME NEW c \in Client, InPages(c), PagesInv,
           held[c].at \in Nat, held[c].size \in Nat \ {0},
           NEW line \in Extent(held[c].at, held[c].size)
    PROVE  line \div PageLines \in Extent(FirstPage(c), pageAllocations[FirstPage(c)])
<1> DEFINE at == held[c].at
           size == held[c].size
           p == FirstPage(c)
           n == PageCount(size)
<1>1. p \in Nat /\ pageAllocations[p] = n
    BY FirstPages DEF InPages, IsPageBlock
<1>2. at = p * PageLines
    <2>1. at = (at \div PageLines) * PageLines + (at % PageLines)
        BY Constants, Divide
    <2>2. at % PageLines = 0
        BY DEF InPages, IsPageBlock
    <2>3. p = at \div PageLines
        BY DEF FirstPage
    <2> HIDE DEF at, p
    <2>4. p * PageLines \in Nat
        BY <1>1, Constants
    <2> QED BY <2>1, <2>2, <2>3, <2>4
<1>3. n \in Nat /\ n * PageLines >= size
    BY Constants, RoundUp DEF PageCount
<1> HIDE DEF n
<1>4. (p + n) * PageLines = p * PageLines + n * PageLines
      /\ p * PageLines \in Nat /\ n * PageLines \in Nat
    <2> HIDE DEF p
    <2> QED BY <1>1, <1>3, Constants
<1>5. line \in Nat /\ at <= line /\ line < at + size
    BY DEF Extent
<1>6. p * PageLines <= line /\ line < (p + n) * PageLines
    <2> DEFINE x == p * PageLines
               y == n * PageLines
    <2>1. x \in Nat /\ y \in Nat /\ at = x /\ y >= size /\ (p + n) * PageLines = x + y
        BY <1>2, <1>3, <1>4
    <2> HIDE DEF x, y, at, p
    <2>2. x <= line /\ line < x + y
        BY <1>5, <2>1
    <2> QED BY <2>1, <2>2 DEF x
<1>7. line \div PageLines \in p .. p + n - 1
    BY <1>1, <1>3, <1>5, <1>6, Constants, QuotientIn
<1> QED BY <1>1, <1>7 DEF Extent

\* What the invariant says of the pages of a holder.
LEMMA HeldMapped == IndInv => HeldPagesMapped
<1> SUFFICES ASSUME PagesInv, HeldInv, ~ wrapped,
                    NEW c \in Client, held[c] # NoBlock, held[c].at >= ReservedPages * PageLines,
                    NEW line \in Extent(held[c].at, held[c].size)
             PROVE  /\ line \div PageLines \in DOMAIN pageTable
                    /\ \A d \in Client \ {c} :
                          held[d] # NoBlock => line \notin Extent(held[d].at, held[d].size)
    BY DEF IndInv, HeldPagesMapped
<1>1. ReservedPages * PageLines \in Nat
    BY Constants
<1>2. ASSUME NEW d \in Client, held[d] # NoBlock
      PROVE  /\ held[d].at \in Nat /\ held[d].size \in Nat \ {0}
             /\ \/ InPools(d)
                \/ /\ InPages(d)
                   /\ \A e \in Client \ {d} : held[e] # NoBlock => FirstPage(e) # FirstPage(d)
    BY <1>2 DEF HeldInv
<1>3. ~ InPools(c) /\ InPages(c)
    BY <1>1, <1>2 DEF InPools
<1> DEFINE p == FirstPage(c)
<1>4. line \div PageLines \in Extent(p, pageAllocations[p]) /\ p \in DOMAIN pageAllocations
    BY <1>2, <1>3, LineOfBlock DEF InPages, IsPageBlock
<1>5. line \div PageLines \in DOMAIN pageTable
    BY <1>4 DEF PagesInv, PagesAccounted
<1>6. ASSUME NEW d \in Client \ {c}, held[d] # NoBlock, line \in Extent(held[d].at, held[d].size)
      PROVE  FALSE
    <2>1. line \in Nat /\ line >= ReservedPages * PageLines
        BY <1>1, <1>2 DEF Extent
    <2>2. CASE InPools(d)
        <3>1. line < held[d].at + held[d].size
            BY <1>2, <1>6 DEF Extent
        <3>2. held[d].at + held[d].size <= ReservedPages * PageLines
            BY <2>2 DEF InPools
        <3>3. held[d].at + held[d].size \in Nat
            BY <1>2, <1>6
        <3> QED BY <1>1, <2>1, <3>1, <3>2, <3>3
    <2>3. CASE InPages(d)
        <3> DEFINE q == FirstPage(d)
        <3>1. line \div PageLines \in Extent(q, pageAllocations[q]) /\ q \in DOMAIN pageAllocations
            BY <1>2, <1>6, <2>3, LineOfBlock DEF InPages, IsPageBlock
        <3>2. q # p
            <4>1. ~ InPools(d) \/ InPages(d)
                BY <2>3
            <4> QED BY <1>2, <1>3, <1>6
        <3>3. /\ p \in Nat /\ q \in Nat /\ pageAllocations[p] \in Nat /\ pageAllocations[q] \in Nat
              /\ p < q => p + pageAllocations[p] <= q
              /\ q < p => q + pageAllocations[q] <= p
            BY <1>4, <3>1, FirstPages DEF PagesInv, PageTypeOK, PagesAccounted
        <3> HIDE DEF p, q
        <3> QED BY <1>4, <3>1, <3>2, <3>3 DEF Extent
    <2> QED BY <1>2, <1>6, <2>2, <2>3
<1> QED BY <1>5, <1>6

-----------------------------------------------------------------------------
\* What follows for every execution.

\* The bump pointers stay in their pools, and the tables hold what they should.
THEOREM TypesCorrect == Spec => []TypeOK
<1>1. IndInv => TypeOK
    BY DEF IndInv, PagesInv, PoolInv, TypeOK
<1> QED BY <1>1, Inductive, PTL

\* pool.used never falls below what the pool's records add up to, through frees out of
\* order, double records of one address and compaction (MemoryManager.cpp:151-161, 265-305).
THEOREM PoolCursorAlwaysCovers == Spec => []PoolCursorCovers
<1>1. IndInv => PoolCursorCovers
    BY DEF IndInv, PoolInv
<1> QED BY <1>1, Inductive, PTL

\* As long as no request wrapped, every page of a page block is mapped for its holder, and
\* nobody else holds an address in it (MemoryManager.cpp:126-146, 166-185).
THEOREM HeldPagesAlwaysMapped == Spec => []HeldPagesMapped
<1> QED BY HeldMapped, Inductive, PTL

\* A valid TLB entry always says what the page table says: mapPage, unmapPage and the
\* untagged invalidation leave no entry behind (MemoryManager.cpp:240-263).
THEOREM TLBAlwaysCoherent == Spec => []TLBCoherent
<1>1. IndInv => TLBCoherent
    BY DEF IndInv, PagesInv
<1> QED BY <1>1, Inductive, PTL

\* No physical page is mapped twice, or mapped while it is free.
THEOREM PhysicalPagesExclusive == Spec => []PhysicalExclusive
<1>1. IndInv => PhysicalExclusive
    BY DEF IndInv, PagesInv
<1> QED BY <1>1, Inductive, PTL

\* The page table, pageAllocations and the page allocator agree on the pages in use,
\* whatever is asked for and in whatever order blocks are freed.
THEOREM PagesAlwaysAccounted == Spec => []PagesAccounted
<1>1. IndInv => PagesAccounted
    BY DEF IndInv, PagesInv
<1> QED BY <1>1, Inductive, PTL
=============================================================================
