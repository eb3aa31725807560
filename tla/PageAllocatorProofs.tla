------------------------ MODULE PageAllocatorProofs ------------------------
(***************************************************************************)
(* Proofs about PageAllocator, for any set of threads, any number and size *)
(* of pages and any sizes asked for.                                       *)
(***************************************************************************)
EXTENDS PageAllocator, FiniteSetTheorems, TLAPS

-----------------------------------------------------------------------------
\* Arithmetic of sizes and addresses.

\* Taking the first page off a run.
LEMMA ExtentTail ==
    ASSUME NEW a \in Int, NEW k \in Int, NEW n \in Int, k < n
    PROVE  Extent(a + (k + 1), n - (k + 1)) = Extent(a + k, n - k) \ {a + k}
BY SMT DEF Extent

\* The page count of any size_t is a natural number.
LEMMA PageCountType ==
    ASSUME NEW size \in 0 .. SizeLimit - 1
    PROVE  PageCount(size) \in Nat
BY SizeAssumption, LimitAssumption, PagesAssumption, SMT DEF PageCount

\* The wrapped computation (68) agrees with the true number of pages, or gives 0
\* where the true number is more than the memory has.
LEMMA PageCountExact ==
    ASSUME NEW size \in 0 .. SizeLimit - 1
    PROVE  \/ PageCount(size) = Abstract!Need(size)
           \/ PageCount(size) = 0 /\ Abstract!Need(size) > TotalPages
<1> DEFINE sum == size + PageSize - 1
<1>0. /\ PageSize \in Nat \ {0} /\ TotalPages \in Nat /\ SizeLimit \in Nat
      /\ SizeLimit >= (TotalPages + 1) * PageSize
      /\ sum \in Nat
    BY SizeAssumption, LimitAssumption, PagesAssumption
<1>1. CASE sum < SizeLimit
    <2>1. sum % SizeLimit = sum
        BY <1>0, <1>1, SMT
    <2> QED BY <2>1 DEF PageCount, Abstract!Need
<1>2. CASE sum >= SizeLimit
    <2>0. SizeLimit >= PageSize
        BY <1>0, SMT
    <2>1. sum % SizeLimit = sum - SizeLimit
        BY <1>0, <1>2, <2>0, SMT
    <2>2. sum - SizeLimit \in Nat /\ sum - SizeLimit < PageSize
        BY <1>0, <1>2, SMT
    <2>3. (sum - SizeLimit) \div PageSize = 0
        BY <1>0, <2>2, SMT
    <2>4. sum >= (TotalPages + 1) * PageSize
        BY <1>0, <1>2, SMT
    <2>5. sum \div PageSize >= TotalPages + 1
        BY <1>0, <2>4, SMT
    <2>6. sum \div PageSize \in Nat
        BY <1>0, SMT
    <2> QED BY <1>0, <2>1, <2>3, <2>5, <2>6 DEF PageCount, Abstract!Need
<1> QED BY <1>0, <1>1, <1>2

\* Giving back whole pages clears exactly those pages.
LEMMA WholePages ==
    ASSUME NEW n \in 1 .. TotalPages
    PROVE  /\ n * PageSize \in 0 .. SizeLimit - 1
           /\ PageCount(n * PageSize) = n
<1> DEFINE sum == n * PageSize + PageSize - 1
<1>0. /\ PageSize \in Nat \ {0} /\ TotalPages \in Nat /\ SizeLimit \in Nat
      /\ SizeLimit >= (TotalPages + 1) * PageSize
    BY SizeAssumption, LimitAssumption, PagesAssumption
<1>1. sum \in Nat /\ n * PageSize \in Nat /\ sum < SizeLimit
    BY <1>0, SMT
<1>2. sum % SizeLimit = sum
    BY <1>0, <1>1, SMT
<1>3. sum \div PageSize = n
    BY <1>0, SMT
<1> QED BY <1>0, <1>1, <1>2, <1>3 DEF PageCount

\* getPageIndex (27-29) undoes the address computation of allocate (86).
LEMMA RoundTrip ==
    ASSUME NEW p \in Pages
    PROVE  PageIndex(Address(p)) = p
<1>1. /\ PageSize \in Nat \ {0} /\ MemoryStart \in Nat /\ p \in Nat
    BY SizeAssumption, PagesAssumption DEF Pages
<1>2. MemoryStart + p * PageSize - MemoryStart = p * PageSize
    BY <1>1, SMT
<1>3. (p * PageSize) \div PageSize = p
    BY <1>1, SMT
<1> QED BY <1>1, <1>2, <1>3, SMT DEF PageIndex, Address

-----------------------------------------------------------------------------
\* Counting pages.

\* The pages in use are at most all of them, so their number is bounded.
LEMMA UsedFinite ==
    /\ IsFiniteSet(Used)
    /\ Cardinality(Used) \in 0 .. TotalPages
<1>1. IsFiniteSet(Pages) /\ Cardinality(Pages) = TotalPages
    BY FS_Interval, PagesAssumption, SMT DEF Pages
<1>2. Used \in SUBSET Pages
    BY DEF Used
<1>3. IsFiniteSet(Used) /\ Cardinality(Used) <= TotalPages
    BY <1>1, <1>2, FS_Subset
<1> QED BY <1>3, FS_CardinalityType, PagesAssumption

\* Setting a clear bit puts one more page in use, clearing a set bit one fewer.
LEMMA SetBit ==
    ASSUME NEW p \in Pages, bitmap \in [Pages -> BOOLEAN],
           bitmap' = [bitmap EXCEPT ![p] = TRUE]
    PROVE  /\ Used' = Used \cup {p}
           /\ p \notin Used => Cardinality(Used') = Cardinality(Used) + 1
<1>1. Used' = Used \cup {p}
    BY DEF Used
<1> QED BY <1>1, FS_AddElement, UsedFinite

\* The bit of a page is cleared: if it was marked, one fewer is.
LEMMA ClearBit ==
    ASSUME NEW p \in Pages, bitmap \in [Pages -> BOOLEAN],
           bitmap' = [bitmap EXCEPT ![p] = FALSE]
    PROVE  /\ Used' = Used \ {p}
           /\ p \in Used => Cardinality(Used') = Cardinality(Used) - 1
<1>1. Used' = Used \ {p}
    BY DEF Used
<1> QED BY <1>1, FS_RemoveElement, UsedFinite

\* Under the lock protocol only the holder of the lock has pages in transit.
LEMMA TransitOfHolder ==
    ASSUME LockInv
    PROVE  /\ allocationMutex = NoThread => UNION {InTransit(t) : t \in Thread} = {}
           /\ \A t \in Thread : allocationMutex = t =>
                UNION {InTransit(u) : u \in Thread} = InTransit(t)
<1>1. \A t \in Thread : allocationMutex # t => InTransit(t) = {}
    BY DEF LockInv, InTransit
<1> QED BY <1>1, ThreadAssumption

\* One more block covers its own pages more.
LEMMA OneMoreBlock ==
    ASSUME NEW S, NEW b
    PROVE  UNION {Extent(c.start, c.len) : c \in S \cup {b}}
             = (UNION {Extent(c.start, c.len) : c \in S}) \cup Extent(b.start, b.len)
OBVIOUS

-----------------------------------------------------------------------------
\* The inductive invariant holds initially.
LEMMA InitIndInv == Init => IndInv
<1> SUFFICES ASSUME Init PROVE IndInv
    OBVIOUS
<1> USE DEF Init
<1>0. 0 \in 0 .. SizeLimit - 1
    BY PagesAssumption, SizeAssumption, LimitAssumption, SMT
<1>1. TypeOK
    BY <1>0, PagesAssumption DEF TypeOK, Pages
<1>2. LockInv
    BY ThreadAssumption DEF LockInv
<1>3. HeldPages = {} /\ Used = {}
    BY DEF HeldPages, Used
<1>4. HeldDisjoint
    BY <1>3 DEF HeldDisjoint
<1>5. NoLeak
    BY <1>2, <1>3, TransitOfHolder DEF NoLeak
<1>6. FreeCountExact
    BY <1>3, FS_EmptySet, PagesAssumption DEF FreeCountExact
<1>7. ArgumentInv /\ ScanInv /\ BlockInv /\ FirstFitInv
    BY DEF ArgumentInv, ScanInv, BlockInv, FirstFitInv
<1> QED BY <1>1, <1>2, <1>4, <1>5, <1>6, <1>7 DEF IndInv

-----------------------------------------------------------------------------
\* Every step preserves it: one lemma per action.

\* Taking the lock to allocate disturbs only the caller's locals.
LEMMA AllocateCallStep ==
    ASSUME IndInv, NEW t \in Thread, AllocateCall(t)
    PROVE  IndInv'
<1> USE DEF IndInv, AllocateCall, memVars
<1>1. PICK size \in Sizes : Enter(t, "scan", size, 0)
    OBVIOUS
<1>2. size \in 0 .. SizeLimit - 1 /\ PageCount(size) \in Nat
    BY LimitAssumption, PageCountType
<1> USE <1>1 DEF Enter
<1>3. TypeOK'
    BY <1>2, PagesAssumption DEF TypeOK, Pages, Block
<1>4. LockInv'
    BY ThreadAssumption DEF LockInv, TypeOK
<1>5. HeldPages' = HeldPages /\ Used' = Used
    BY DEF HeldPages, Used
<1>6. HeldDisjoint'
    BY <1>5 DEF HeldDisjoint
<1>7. /\ pc'[t] = "scan" /\ InTransit(t)' = {} /\ Lag(t)' = 0
      /\ \A u \in Thread : u # t => pc'[u] = "idle" /\ InTransit(u)' = {}
    BY ThreadAssumption DEF InTransit, Lag, TypeOK, LockInv
<1>8. NoLeak'
    BY <1>5, <1>7, TransitOfHolder DEF NoLeak
<1>9. FreeCountExact'
    BY <1>5, <1>7, ThreadAssumption DEF FreeCountExact
<1>10. ArgumentInv'
    BY <1>2, <1>7 DEF ArgumentInv, TypeOK
<1>11. ScanOK(t)'
    BY <1>2, PagesAssumption DEF ScanOK, TypeOK, Pages
<1>12. ScanInv' /\ BlockInv' /\ FirstFitInv'
    BY <1>7, <1>11 DEF ScanInv, BlockInv, FirstFitInv
<1> QED BY <1>3, <1>4, <1>6, <1>8, <1>9, <1>10, <1>12

\* While t scans, it holds the lock and the pages in use are the held ones.
LEMMA WhileScanning ==
    ASSUME IndInv, NEW t \in Thread, pc[t] = "scan"
    PROVE  /\ allocationMutex = t
           /\ \A u \in Thread : u # t => pc[u] = "idle"
           /\ Used = HeldPages
           /\ ScanOK(t)
           /\ i[t] \in 0 .. TotalPages /\ consecutivePages[t] \in 0 .. TotalPages
           /\ pageCount[t] \in Nat
<1>1. allocationMutex = t /\ \A u \in Thread : u # t => pc[u] = "idle"
    BY DEF IndInv, LockInv
<1>2. InTransit(t) = {}
    BY DEF InTransit
<1>3. Used = HeldPages
    BY <1>1, <1>2, TransitOfHolder DEF IndInv, NoLeak
<1> QED BY <1>1, <1>3 DEF IndInv, ScanInv, TypeOK

\* A free page makes the run longer, or completes the first fit.
LEMMA ScanFreePageStep ==
    ASSUME IndInv, NEW t \in Thread, ScanFreePage(t)
    PROVE  IndInv'
<1> USE DEF ScanFreePage, memVars
<1> DEFINE c == consecutivePages[t]
           k == i[t]
           n == pageCount[t]
<1>0. /\ allocationMutex = t
      /\ \A u \in Thread : u # t => pc[u] = "idle"
      /\ Used = HeldPages
      /\ ScanOK(t)
      /\ k \in 0 .. TotalPages /\ c \in 0 .. TotalPages /\ n \in Nat
      /\ TotalPages \in Nat /\ TypeOK
    BY WhileScanning, PagesAssumption DEF IndInv
<1>1. startPage'[t] = k - c /\ consecutivePages'[t] = c + 1 /\ c <= k /\ k < TotalPages
    BY <1>0 DEF ScanOK, TypeOK
<1>2. TypeOK'
    BY <1>0, <1>1 DEF TypeOK
<1>3. LockInv'
    BY <1>0 DEF IndInv, LockInv, TypeOK
<1>4. HeldPages' = HeldPages /\ Used' = Used
    BY DEF HeldPages, Used
<1>5. HeldDisjoint'
    BY <1>4 DEF IndInv, HeldDisjoint
<1>6. /\ InTransit(t)' = {} /\ Lag(t)' = 0 /\ Lag(t) = 0
      /\ \A u \in Thread : u # t => pc'[u] = "idle" /\ InTransit(u)' = {}
    BY <1>0, <1>1 DEF InTransit, Lag, TypeOK, Extent
<1>7. NoLeak'
    BY <1>0, <1>4, <1>6 DEF NoLeak
<1>8. FreeCountExact'
    BY <1>0, <1>4, <1>6 DEF IndInv, FreeCountExact
<1>9. ArgumentInv'
    BY <1>0, <1>6 DEF IndInv, ArgumentInv, TypeOK
<1>10. CASE c + 1 = n
    <2>1. pc'[t] = "mark" /\ i'[t] = 0
        BY <1>0, <1>10 DEF TypeOK
    <2>2. \A p \in (k - c) .. k : p \in Pages /\ p \notin HeldPages
        BY <1>0, <1>1 DEF ScanOK, Used, Pages
    <2>3. BlockOK(t)'
        BY <1>0, <1>1, <1>4, <1>10, <2>1, <2>2 DEF BlockOK, Extent
    <2>4. ASSUME NEW r \in Pages, r < k - c
          PROVE  Extent(r, n) \cap HeldPages # {}
        <3>1. PICK p \in Extent(r, n) : bitmap[p]
            BY <1>0, <1>10, <2>4 DEF ScanOK, Pages
        <3>2. p \in Used
            BY <1>0, <1>1, <1>10, <2>4, <3>1 DEF Used, Pages, Extent
        <3> QED BY <1>0, <3>1, <3>2
    <2>5. FirstFitOK(t)'
        BY <1>1, <1>4, <2>4 DEF FirstFitOK
    <2>6. ScanInv' /\ BlockInv' /\ FirstFitInv'
        BY <1>6, <2>1, <2>3, <2>5 DEF ScanInv, BlockInv, FirstFitInv
    <2> QED BY <1>2, <1>3, <1>5, <1>7, <1>8, <1>9, <2>6 DEF IndInv
<1>11. CASE c + 1 # n
    <2>1. pc'[t] = "scan" /\ i'[t] = k + 1
        BY <1>0, <1>11 DEF TypeOK
    <2>2. ASSUME NEW r \in Pages, n > 0, r + n <= k + 1
          PROVE  \E p \in Extent(r, n) : bitmap[p]
        <3>1. CASE r + n <= k
            BY <1>0, <2>2, <3>1 DEF ScanOK
        <3>2. CASE r + n = k + 1
            <4>1. c + 1 < n /\ r \in Nat
                BY <1>0, <1>11, <2>2 DEF ScanOK, Pages
            <4>2. k > c /\ k - c - 1 \in Extent(r, n)
                BY <1>0, <3>2, <4>1 DEF Extent
            <4> QED BY <1>0, <4>2 DEF ScanOK
        <3> QED BY <1>0, <2>2, <3>1, <3>2 DEF Pages
    <2>3. ScanOK(t)'
        <3>1. \A p \in Pages : k - c <= p /\ p < k + 1 => ~ bitmap[p]
            BY <1>0 DEF ScanOK, Pages
        <3>2. k > c => bitmap[k - c - 1]
            BY <1>0 DEF ScanOK
        <3>3. n > 0 => c + 1 < n
            BY <1>0, <1>11 DEF ScanOK
        <3> QED BY <1>0, <1>1, <2>1, <2>2, <3>1, <3>2, <3>3 DEF ScanOK
    <2>4. ScanInv' /\ BlockInv' /\ FirstFitInv'
        BY <1>6, <2>1, <2>3 DEF ScanInv, BlockInv, FirstFitInv
    <2> QED BY <1>2, <1>3, <1>5, <1>7, <1>8, <1>9, <2>4 DEF IndInv
<1> QED BY <1>10, <1>11

\* A page in use ends the run: no fit reaches over it.
LEMMA ScanUsedPageStep ==
    ASSUME IndInv, NEW t \in Thread, ScanUsedPage(t)
    PROVE  IndInv'
<1> USE DEF ScanUsedPage, memVars, lockVars
<1> DEFINE k == i[t]
           n == pageCount[t]
<1>0. /\ allocationMutex = t
      /\ \A u \in Thread : u # t => pc[u] = "idle"
      /\ Used = HeldPages
      /\ ScanOK(t)
      /\ k \in 0 .. TotalPages /\ n \in Nat
      /\ TotalPages \in Nat /\ TypeOK
    BY WhileScanning, PagesAssumption DEF IndInv
<1>1. /\ consecutivePages'[t] = 0 /\ i'[t] = k + 1 /\ k < TotalPages
      /\ bitmap[k] /\ k \in Pages /\ pc'[t] = "scan"
    BY <1>0 DEF TypeOK, Pages
<1>2. TypeOK'
    BY <1>0, <1>1 DEF TypeOK
<1>3. LockInv'
    BY <1>0 DEF IndInv, LockInv, TypeOK
<1>4. HeldPages' = HeldPages /\ Used' = Used
    BY DEF HeldPages, Used
<1>5. HeldDisjoint'
    BY <1>4 DEF IndInv, HeldDisjoint
<1>6. /\ InTransit(t)' = {} /\ Lag(t)' = 0 /\ Lag(t) = 0
      /\ \A u \in Thread : u # t => pc'[u] = "idle" /\ InTransit(u)' = {}
    BY <1>0, <1>1 DEF InTransit, Lag, TypeOK
<1>7. NoLeak'
    BY <1>0, <1>4, <1>6 DEF NoLeak
<1>8. FreeCountExact'
    BY <1>0, <1>4, <1>6 DEF IndInv, FreeCountExact
<1>9. ArgumentInv'
    BY <1>0, <1>6 DEF IndInv, ArgumentInv, TypeOK
<1>10. ASSUME NEW r \in Pages, n > 0, r + n <= k + 1
       PROVE  \E p \in Extent(r, n) : bitmap[p]
    <2>1. CASE r + n <= k
        BY <1>0, <1>10, <2>1 DEF ScanOK
    <2>2. CASE r + n = k + 1
        <3>1. k \in Extent(r, n)
            BY <1>0, <1>10, <2>2 DEF Extent, Pages
        <3> QED BY <1>1, <3>1
    <2> QED BY <1>0, <1>10, <2>1, <2>2 DEF Pages
<1>11. ScanOK(t)'
    BY <1>0, <1>1, <1>10 DEF ScanOK, Pages
<1>12. ScanInv' /\ BlockInv' /\ FirstFitInv'
    BY <1>1, <1>6, <1>11 DEF ScanInv, BlockInv, FirstFitInv
<1> QED BY <1>2, <1>3, <1>5, <1>7, <1>8, <1>9, <1>12 DEF IndInv

\* The scan that ran off the end leaves everything as it was.
LEMMA ScanFailedStep ==
    ASSUME IndInv, NEW t \in Thread, ScanFailed(t)
    PROVE  IndInv'
<1> USE DEF ScanFailed, memVars, Leave
<1>0. /\ allocationMutex = t
      /\ \A u \in Thread : u # t => pc[u] = "idle"
      /\ Used = HeldPages
      /\ TypeOK /\ request[t] \in Sizes
    BY WhileScanning DEF IndInv, ArgumentInv
<1>1. \A u \in Thread : pc'[u] = "idle"
    BY <1>0 DEF TypeOK
<1>2. 0 \in 0 .. SizeLimit - 1
    BY PagesAssumption, SizeAssumption, LimitAssumption, SMT
<1>3. TypeOK'
    BY <1>0, <1>2, PagesAssumption DEF TypeOK
<1>4. LockInv'
    BY <1>1, ThreadAssumption DEF LockInv
<1>5. HeldPages' = HeldPages /\ Used' = Used
    BY DEF HeldPages, Used
<1>6. HeldDisjoint'
    BY <1>5 DEF IndInv, HeldDisjoint
<1>7. NoLeak'
    BY <1>0, <1>1, <1>5 DEF NoLeak, InTransit
<1>8. FreeCountExact'
    BY <1>0, <1>5, ThreadAssumption DEF IndInv, FreeCountExact, Lag
<1>9. ArgumentInv' /\ ScanInv' /\ BlockInv' /\ FirstFitInv'
    BY <1>1 DEF ArgumentInv, ScanInv, BlockInv, FirstFitInv
<1> QED BY <1>3, <1>4, <1>6, <1>7, <1>8, <1>9 DEF IndInv

\* While t marks or clears, it holds the lock and works inside its own block.
LEMMA WhileMoving ==
    ASSUME IndInv, NEW t \in Thread, pc[t] \in {"mark", "clear"}
    PROVE  /\ allocationMutex = t
           /\ \A u \in Thread : u # t => pc[u] = "idle"
           /\ Used = HeldPages \cup InTransit(t)
           /\ freePages = TotalPages - Cardinality(Used) + Lag(t)
           /\ BlockOK(t)
           /\ TypeOK
           /\ i[t] \in 0 .. TotalPages /\ startPage[t] \in 0 .. TotalPages
           /\ pageCount[t] \in Nat /\ TotalPages \in Nat
           /\ \A p \in Extent(startPage[t], pageCount[t]) :
                p \in Pages /\ p \notin HeldPages
<1>1. allocationMutex = t /\ \A u \in Thread : u # t => pc[u] = "idle"
    BY DEF IndInv, LockInv
<1>2. Used = HeldPages \cup InTransit(t)
    BY <1>1, TransitOfHolder DEF IndInv, NoLeak
<1>3. freePages = TotalPages - Cardinality(Used) + Lag(t)
    BY <1>1, ThreadAssumption DEF IndInv, FreeCountExact
<1>4. BlockOK(t) /\ TypeOK
    BY DEF IndInv, BlockInv
<1>5. /\ i[t] \in 0 .. TotalPages /\ startPage[t] \in 0 .. TotalPages
      /\ pageCount[t] \in Nat /\ TotalPages \in Nat
    BY <1>4, PagesAssumption DEF TypeOK
<1>6. \A p \in Extent(startPage[t], pageCount[t]) : p \in Pages /\ p \notin HeldPages
    BY <1>4, <1>5 DEF BlockOK, Extent, Pages
<1> QED BY <1>1, <1>2, <1>3, <1>4, <1>5, <1>6

\* Marking moves one page into transit and one bit up.
LEMMA MarkPageStep ==
    ASSUME IndInv, NEW t \in Thread, MarkPage(t)
    PROVE  IndInv'
<1> USE DEF MarkPage, lockVars
<1> DEFINE p == startPage[t] + i[t]
<1>0. /\ allocationMutex = t
      /\ \A u \in Thread : u # t => pc[u] = "idle"
      /\ Used = HeldPages \cup InTransit(t)
      /\ freePages = TotalPages - Cardinality(Used) + Lag(t)
      /\ BlockOK(t) /\ TypeOK
      /\ i[t] \in 0 .. TotalPages /\ startPage[t] \in 0 .. TotalPages
      /\ pageCount[t] \in Nat /\ TotalPages \in Nat
      /\ \A q \in Extent(startPage[t], pageCount[t]) : q \in Pages /\ q \notin HeldPages
    BY WhileMoving
<1>1. p \in Extent(startPage[t], pageCount[t]) /\ p \in Pages /\ p \notin HeldPages
    BY <1>0 DEF Extent
<1>2. InTransit(t) = Extent(startPage[t], i[t]) /\ Lag(t) = i[t]
    BY DEF InTransit, Lag
<1>3. i'[t] = i[t] + 1 /\ i[t] + 1 <= pageCount[t] /\ i[t] + 1 <= TotalPages
    BY <1>0 DEF TypeOK, BlockOK
<1>4. TypeOK'
    <2>1. bitmap' \in [Pages -> BOOLEAN]
        BY <1>0, Zenon DEF TypeOK
    <2>2. i' \in [Thread -> 0 .. TotalPages]
        BY <1>0, <1>3 DEF TypeOK
    <2> QED BY <1>0, <2>1, <2>2 DEF TypeOK
<1>5. LockInv'
    BY DEF IndInv, LockInv
<1>6. HeldPages' = HeldPages
    BY DEF HeldPages
<1>7. HeldDisjoint'
    BY <1>6 DEF IndInv, HeldDisjoint
<1>8. p \notin Used
    BY <1>0, <1>1, <1>2 DEF Extent
<1>9. Used' = Used \cup {p} /\ Cardinality(Used') = Cardinality(Used) + 1
    BY <1>0, <1>1, <1>8, SetBit DEF TypeOK
<1>10. InTransit(t)' = InTransit(t) \cup {p} /\ Lag(t)' = Lag(t) + 1
    BY <1>0, <1>2, <1>3 DEF InTransit, Lag, Extent
<1>11. \A u \in Thread : u # t => InTransit(u)' = {}
    BY <1>0 DEF InTransit
<1>12. NoLeak'
    BY <1>0, <1>6, <1>9, <1>10, <1>11 DEF NoLeak
<1>13. FreeCountExact'
    BY <1>0, <1>2, <1>9, <1>10, UsedFinite, ThreadAssumption DEF FreeCountExact
<1>14. ArgumentInv'
    BY DEF IndInv, ArgumentInv
<1>15. BlockOK(t)'
    BY <1>0, <1>3, <1>6 DEF BlockOK
<1>16. FirstFitOK(t)'
    BY <1>6 DEF IndInv, FirstFitInv, FirstFitOK
<1>17. ScanInv' /\ BlockInv' /\ FirstFitInv'
    BY <1>0, <1>15, <1>16 DEF ScanInv, BlockInv, FirstFitInv
<1> QED BY <1>4, <1>5, <1>7, <1>12, <1>13, <1>14, <1>17 DEF IndInv

\* Clearing takes one page out of transit and one bit down.
LEMMA ClearPageStep ==
    ASSUME IndInv, NEW t \in Thread, ClearPage(t)
    PROVE  IndInv'
<1> USE DEF ClearPage, lockVars
<1> DEFINE p == startPage[t] + i[t]
<1>0. /\ allocationMutex = t
      /\ \A u \in Thread : u # t => pc[u] = "idle"
      /\ Used = HeldPages \cup InTransit(t)
      /\ freePages = TotalPages - Cardinality(Used) + Lag(t)
      /\ BlockOK(t) /\ TypeOK
      /\ i[t] \in 0 .. TotalPages /\ startPage[t] \in 0 .. TotalPages
      /\ pageCount[t] \in Nat /\ TotalPages \in Nat
      /\ \A q \in Extent(startPage[t], pageCount[t]) : q \in Pages /\ q \notin HeldPages
    BY WhileMoving
<1>1. p \in Extent(startPage[t], pageCount[t]) /\ p \in Pages /\ p \notin HeldPages
    BY <1>0 DEF Extent
<1>2. /\ InTransit(t) = Extent(startPage[t] + i[t], pageCount[t] - i[t])
      /\ Lag(t) = 0 - i[t]
    BY DEF InTransit, Lag
<1>3. i'[t] = i[t] + 1 /\ i[t] + 1 <= pageCount[t] /\ i[t] + 1 <= TotalPages
    BY <1>0 DEF TypeOK, BlockOK
<1>4. TypeOK'
    <2>1. bitmap' \in [Pages -> BOOLEAN]
        BY <1>0, Zenon DEF TypeOK
    <2>2. i' \in [Thread -> 0 .. TotalPages]
        BY <1>0, <1>3 DEF TypeOK
    <2> QED BY <1>0, <2>1, <2>2 DEF TypeOK
<1>5. LockInv'
    BY DEF IndInv, LockInv
<1>6. HeldPages' = HeldPages
    BY DEF HeldPages
<1>7. HeldDisjoint'
    BY <1>6 DEF IndInv, HeldDisjoint
<1>8. p \in Used
    BY <1>0, <1>2, <1>3 DEF Extent
<1>9. Used' = Used \ {p} /\ Cardinality(Used') = Cardinality(Used) - 1
    BY <1>0, <1>1, <1>8, ClearBit DEF TypeOK
<1>10. InTransit(t)' = InTransit(t) \ {p} /\ Lag(t)' = Lag(t) - 1
    <2>1. pc'[t] = "clear" /\ startPage' = startPage /\ pageCount' = pageCount
        OBVIOUS
    <2>2. InTransit(t)' = Extent(startPage[t] + (i[t] + 1), pageCount[t] - (i[t] + 1))
        BY <1>3, <2>1 DEF InTransit
    <2>3. Extent(startPage[t] + (i[t] + 1), pageCount[t] - (i[t] + 1))
            = Extent(startPage[t] + i[t], pageCount[t] - i[t]) \ {p}
        <3> HIDE DEF ClearPage
        <3>1. startPage[t] \in Int /\ i[t] \in Int /\ pageCount[t] \in Int
            BY <1>0
        <3>2. i[t] < pageCount[t]
            BY <1>0, <1>3 DEF ClearPage
        <3> QED BY <3>1, <3>2, ExtentTail
    <2>4. Lag(t)' = Lag(t) - 1
        BY <1>0, <1>2, <1>3, <2>1 DEF Lag
    <2> QED BY <1>2, <2>2, <2>3, <2>4
<1>11. \A u \in Thread : u # t => InTransit(u)' = {}
    BY <1>0 DEF InTransit
<1>12. NoLeak'
    BY <1>0, <1>1, <1>6, <1>9, <1>10, <1>11 DEF NoLeak
<1>13. FreeCountExact'
    BY <1>0, <1>2, <1>9, <1>10, UsedFinite, ThreadAssumption DEF FreeCountExact
<1>14. ArgumentInv'
    BY DEF IndInv, ArgumentInv
<1>15. BlockOK(t)'
    BY <1>0, <1>3, <1>6 DEF BlockOK
<1>16. ScanInv' /\ BlockInv' /\ FirstFitInv'
    BY <1>0, <1>15 DEF ScanInv, BlockInv, FirstFitInv
<1> QED BY <1>4, <1>5, <1>7, <1>12, <1>13, <1>14, <1>16 DEF IndInv

\* Handing the block out: the pages in transit become held.
LEMMA AllocateReturnStep ==
    ASSUME IndInv, NEW t \in Thread, AllocateReturn(t)
    PROVE  /\ IndInv'
           /\ HeldPages' = HeldPages \cup Extent(startPage[t], pageCount[t])
<1> USE DEF AllocateReturn, Leave
<1> DEFINE s == startPage[t]
           n == pageCount[t]
           block == [start |-> s, len |-> n]
<1>0. /\ allocationMutex = t
      /\ \A u \in Thread : u # t => pc[u] = "idle"
      /\ Used = HeldPages \cup InTransit(t)
      /\ freePages = TotalPages - Cardinality(Used) + Lag(t)
      /\ BlockOK(t) /\ TypeOK
      /\ i[t] \in 0 .. TotalPages /\ s \in 0 .. TotalPages
      /\ n \in Nat /\ TotalPages \in Nat
      /\ \A q \in Extent(s, n) : q \in Pages /\ q \notin HeldPages
    BY WhileMoving
<1>1. InTransit(t) = Extent(s, n) /\ Lag(t) = n
    BY DEF InTransit, Lag
<1>2. n > 0 /\ n <= TotalPages /\ s + n <= TotalPages /\ s \in Pages
    BY <1>0 DEF BlockOK, Pages
<1>3. block \in Block
    BY <1>0, <1>2 DEF Block
<1>4. HeldPages' = HeldPages \cup Extent(s, n)
    <2>1. held' = held \cup {block} /\ block.start = s /\ block.len = n
        OBVIOUS
    <2>2. UNION {Extent(c.start, c.len) : c \in held \cup {block}}
            = (UNION {Extent(c.start, c.len) : c \in held})
                \cup Extent(block.start, block.len)
        BY OneMoreBlock
    <2> QED BY <2>1, <2>2 DEF HeldPages
<1>5. \A u \in Thread : pc'[u] = "idle"
    BY <1>0 DEF TypeOK
<1>6. TypeOK'
    <2>1. 0 \in 0 .. SizeLimit - 1
        BY PagesAssumption, SizeAssumption, LimitAssumption, SMT
    <2>2. freePages' \in 0 .. TotalPages
        BY <1>0, <1>1, UsedFinite
    <2>3. held' \subseteq Block
        BY <1>0, <1>3 DEF TypeOK
    <2>4. reply' \in [size : Sizes \cup {0}, start : Pages \cup {NoPage}]
        BY <1>2 DEF IndInv, ArgumentInv
    <2> QED BY <1>0, <2>1, <2>2, <2>3, <2>4 DEF TypeOK
<1>7. LockInv'
    BY <1>5, ThreadAssumption DEF LockInv
<1>8. HeldDisjoint'
    <2>1. HeldPages' \subseteq Pages
        BY <1>0, <1>4 DEF IndInv, HeldDisjoint
    <2>2. \A b \in held : Extent(b.start, b.len) \cap Extent(s, n) = {}
        BY <1>0 DEF HeldPages
    <2>3. \A b, c \in held' :
             b # c => Extent(b.start, b.len) \cap Extent(c.start, c.len) = {}
        BY <2>2 DEF IndInv, HeldDisjoint
    <2> QED BY <2>1, <2>3 DEF HeldDisjoint
<1>9. Used' = Used
    BY DEF Used
<1>10. NoLeak'
    BY <1>0, <1>1, <1>4, <1>5, <1>9 DEF NoLeak, InTransit
<1>11. FreeCountExact'
    BY <1>0, <1>1, <1>9, UsedFinite DEF FreeCountExact
<1>12. ArgumentInv' /\ ScanInv' /\ BlockInv' /\ FirstFitInv'
    BY <1>5 DEF ArgumentInv, ScanInv, BlockInv, FirstFitInv
<1> QED BY <1>4, <1>6, <1>7, <1>8, <1>10, <1>11, <1>12 DEF IndInv

\* Giving pages back: the first n pages of a held block go into transit.
LEMMA FreeCallStep ==
    ASSUME IndInv, NEW t \in Thread, FreeCall(t)
    PROVE  /\ IndInv'
           /\ HeldPages = HeldPages' \cup Extent(startPage'[t], pageCount'[t])
<1> USE DEF FreeCall, memVars
<1>a. PICK b \in held : \E n \in 1 .. b.len :
        /\ Enter(t, "clear", n * PageSize, PageIndex(Address(b.start)))
        /\ held' = (held \ {b}) \cup
                     (IF n < b.len
                        THEN {[start |-> b.start + n, len |-> b.len - n]}
                        ELSE {})
    OBVIOUS
<1>1. PICK n \in 1 .. b.len :
        /\ Enter(t, "clear", n * PageSize, PageIndex(Address(b.start)))
        /\ held' = (held \ {b}) \cup
                     (IF n < b.len
                        THEN {[start |-> b.start + n, len |-> b.len - n]}
                        ELSE {})
    BY <1>a
<1> DEFINE tail == [start |-> b.start + n, len |-> b.len - n]
<1>2. /\ TypeOK /\ TotalPages \in Nat
      /\ b.start \in Pages /\ b.len \in 1 .. TotalPages /\ n \in 1 .. TotalPages
      /\ n <= b.len
    BY <1>1, PagesAssumption DEF IndInv, TypeOK, Block
<1>3. /\ n * PageSize \in 0 .. SizeLimit - 1 /\ PageCount(n * PageSize) = n
      /\ PageIndex(Address(b.start)) = b.start
    BY <1>2, WholePages, RoundTrip
<1>4. /\ allocationMutex = NoThread /\ allocationMutex' = t /\ pc[t] = "idle"
      /\ pc' = [pc EXCEPT ![t] = "clear"]
      /\ request' = [request EXCEPT ![t] = n * PageSize]
      /\ pageCount' = [pageCount EXCEPT ![t] = n]
      /\ startPage' = [startPage EXCEPT ![t] = b.start]
      /\ consecutivePages' = [consecutivePages EXCEPT ![t] = 0]
      /\ i' = [i EXCEPT ![t] = 0]
    BY <1>1, <1>3 DEF Enter
<1>5. /\ pc'[t] = "clear" /\ pageCount'[t] = n /\ startPage'[t] = b.start /\ i'[t] = 0
      /\ request'[t] = n * PageSize
      /\ \A u \in Thread : u # t => pc'[u] = "idle"
    BY <1>2, <1>4, ThreadAssumption DEF TypeOK, IndInv, LockInv
<1>6. Extent(b.start, b.len) \subseteq HeldPages /\ b.start + b.len <= TotalPages
    <2>1. Extent(b.start, b.len) \subseteq HeldPages
        BY DEF HeldPages
    <2>2. b.start + b.len - 1 \in Pages
        BY <1>2, <2>1 DEF IndInv, HeldDisjoint, Extent, Pages
    <2> QED BY <1>2, <2>1, <2>2 DEF Pages
<1>7. n < b.len => tail \in Block
    BY <1>2, <1>6 DEF Block, Pages
<1>8. Extent(b.start, b.len) = Extent(b.start, n) \cup Extent(b.start + n, b.len - n)
    BY <1>2 DEF Extent, Pages
<1>9. Extent(b.start, n) \cap Extent(b.start + n, b.len - n) = {}
    BY <1>2 DEF Extent, Pages
<1>10. n = b.len => Extent(b.start + n, b.len - n) = {}
    BY <1>2 DEF Extent, Pages
<1>11. \A c \in held' : c # tail \/ n = b.len => c \in held /\ c # b
    BY <1>1, <1>2
<1>12. \A c \in held \ {b} : Extent(c.start, c.len) \cap Extent(b.start, b.len) = {}
    BY <1>1 DEF IndInv, HeldDisjoint
<1>13. HeldPages' = (UNION {Extent(c.start, c.len) : c \in held \ {b}})
                      \cup Extent(b.start + n, b.len - n)
    <2>1. CASE n < b.len
        <3>1. held' = (held \ {b}) \cup {tail}
            BY <1>1, <2>1
        <3>2. tail.start = b.start + n /\ tail.len = b.len - n
            OBVIOUS
        <3> QED BY <3>1, <3>2, OneMoreBlock DEF HeldPages
    <2>2. CASE n = b.len
        BY <1>1, <1>10, <2>2 DEF HeldPages
    <2> QED BY <1>2, <2>1, <2>2
<1>14. HeldPages = (UNION {Extent(c.start, c.len) : c \in held \ {b}})
                      \cup Extent(b.start, b.len)
    BY <1>1 DEF HeldPages
<1>15. /\ HeldPages = HeldPages' \cup Extent(b.start, n)
       /\ HeldPages' \cap Extent(b.start, n) = {}
    BY <1>8, <1>9, <1>12, <1>13, <1>14
<1>16. TypeOK'
    <2>1. held' \subseteq Block
        BY <1>1, <1>2, <1>7 DEF TypeOK
    <2>2. /\ request' \in [Thread -> 0 .. SizeLimit - 1]
          /\ pageCount' \in [Thread -> Nat]
          /\ startPage' \in [Thread -> 0 .. TotalPages]
          /\ consecutivePages' \in [Thread -> 0 .. TotalPages]
          /\ i' \in [Thread -> 0 .. TotalPages]
        BY <1>2, <1>3, <1>4 DEF TypeOK, Pages
    <2> QED BY <1>2, <1>4, <2>1, <2>2 DEF TypeOK
<1>17. LockInv'
    BY <1>4, <1>5 DEF LockInv
<1>18. HeldDisjoint'
    <2>1. HeldPages' \subseteq Pages
        BY <1>15 DEF IndInv, HeldDisjoint
    <2>2. \A c \in held \ {b} : Extent(c.start, c.len) \cap Extent(tail.start, tail.len) = {}
        BY <1>8, <1>12
    <2>3. \A c, d \in held \ {b} :
             c # d => Extent(c.start, c.len) \cap Extent(d.start, d.len) = {}
        BY DEF IndInv, HeldDisjoint
    <2>4. \A c \in held' : c \in held \ {b} \/ c = tail
        BY <1>1
    <2>5. \A c, d \in held' :
             c # d => Extent(c.start, c.len) \cap Extent(d.start, d.len) = {}
        BY <2>2, <2>3, <2>4
    <2> QED BY <2>1, <2>5 DEF HeldDisjoint
<1>19. Used' = Used /\ Used = HeldPages
    <2>1. UNION {InTransit(u) : u \in Thread} = {}
        BY <1>4, TransitOfHolder DEF IndInv
    <2> QED BY <2>1 DEF IndInv, NoLeak, Used
<1>20. InTransit(t)' = Extent(b.start, n) /\ Lag(t)' = 0
    <2>1. b.start + 0 = b.start /\ n - 0 = n
        BY <1>2 DEF Pages
    <2>2. InTransit(t)' = Extent(b.start + 0, n - 0)
        BY <1>5 DEF InTransit
    <2>3. Lag(t)' = 0
        BY <1>5 DEF Lag
    <2>4. InTransit(t)' = Extent(b.start, n)
        BY <2>1, <2>2
    <2> QED BY <2>3, <2>4
<1>21. \A u \in Thread : u # t => InTransit(u)' = {}
    BY <1>5 DEF InTransit
<1>22. NoLeak'
    BY <1>15, <1>19, <1>20, <1>21 DEF NoLeak
<1>23. FreeCountExact'
    BY <1>4, <1>19, <1>20, ThreadAssumption DEF IndInv, FreeCountExact
<1>24. ArgumentInv'
    BY <1>3, <1>5 DEF ArgumentInv
<1>25. BlockOK(t)'
    BY <1>2, <1>5, <1>6, <1>15 DEF BlockOK, Pages
<1>26. ScanInv' /\ BlockInv' /\ FirstFitInv'
    BY <1>5, <1>25 DEF ScanInv, BlockInv, FirstFitInv
<1> QED BY <1>5, <1>15, <1>16, <1>17, <1>18, <1>22, <1>23, <1>24, <1>26 DEF IndInv

\* The end of free: every page of the block is clear and counted again.
LEMMA FreeReturnStep ==
    ASSUME IndInv, NEW t \in Thread, FreeReturn(t)
    PROVE  IndInv'
<1> USE DEF FreeReturn, Leave
<1>0. /\ allocationMutex = t
      /\ \A u \in Thread : u # t => pc[u] = "idle"
      /\ Used = HeldPages \cup InTransit(t)
      /\ freePages = TotalPages - Cardinality(Used) + Lag(t)
      /\ BlockOK(t) /\ TypeOK
      /\ i[t] \in 0 .. TotalPages /\ startPage[t] \in 0 .. TotalPages
      /\ pageCount[t] \in Nat /\ TotalPages \in Nat
    BY WhileMoving
<1>1. InTransit(t) = {} /\ Lag(t) = 0 - pageCount[t]
    BY <1>0 DEF InTransit, Lag, Extent
<1>2. \A u \in Thread : pc'[u] = "idle"
    BY <1>0 DEF TypeOK
<1>3. freePages' = TotalPages - Cardinality(Used)
    BY <1>0, <1>1, UsedFinite
<1>4. TypeOK'
    <2>1. 0 \in 0 .. SizeLimit - 1
        BY PagesAssumption, SizeAssumption, LimitAssumption, SMT
    <2>2. freePages' \in 0 .. TotalPages
        BY <1>0, <1>3, UsedFinite
    <2> QED BY <1>0, <2>1, <2>2 DEF TypeOK
<1>5. LockInv'
    BY <1>2, ThreadAssumption DEF LockInv
<1>6. HeldPages' = HeldPages /\ Used' = Used
    BY DEF HeldPages, Used
<1>7. HeldDisjoint'
    BY <1>6 DEF IndInv, HeldDisjoint
<1>8. NoLeak'
    BY <1>0, <1>1, <1>2, <1>6 DEF NoLeak, InTransit
<1>9. FreeCountExact'
    BY <1>3, <1>6, UsedFinite, PagesAssumption DEF FreeCountExact
<1>10. ArgumentInv' /\ ScanInv' /\ BlockInv' /\ FirstFitInv'
    BY <1>2 DEF ArgumentInv, ScanInv, BlockInv, FirstFitInv
<1> QED BY <1>4, <1>5, <1>7, <1>8, <1>9, <1>10 DEF IndInv

-----------------------------------------------------------------------------
\* A step that changes nothing keeps the invariant.
LEMMA StutterStep ==
    ASSUME IndInv, UNCHANGED vars
    PROVE  IndInv'
<1> USE DEF vars, memVars, lockVars, localVars
<1>1. TypeOK'
    BY DEF IndInv, TypeOK
<1>2. Used' = Used /\ HeldPages' = HeldPages
    BY DEF Used, HeldPages
<1>3. HeldDisjoint'
    BY <1>2 DEF IndInv, HeldDisjoint
<1>4. \A t \in Thread : InTransit(t)' = InTransit(t) /\ Lag(t)' = Lag(t)
    BY DEF InTransit, Lag
<1>5. NoLeak'
    BY <1>2, <1>4, Zenon DEF IndInv, NoLeak
<1>6. FreeCountExact'
    <2>1. CASE allocationMutex = NoThread
        BY <2>1, <1>2 DEF IndInv, FreeCountExact
    <2>2. CASE allocationMutex # NoThread
        <3>1. allocationMutex \in Thread /\ allocationMutex' = allocationMutex
            BY <2>2 DEF IndInv, TypeOK
        <3>2. Lag(allocationMutex)' = Lag(allocationMutex)
            BY DEF Lag
        <3> QED BY <2>2, <3>1, <3>2, <1>2 DEF IndInv, FreeCountExact
    <2> QED BY <2>1, <2>2
<1>7. LockInv' /\ ArgumentInv'
    BY DEF IndInv, LockInv, ArgumentInv
<1>8. ScanInv'
    BY DEF IndInv, ScanInv, ScanOK
<1>9. BlockInv'
    BY <1>2 DEF IndInv, BlockInv, BlockOK
<1>10. FirstFitInv'
    BY <1>2 DEF IndInv, FirstFitInv, FirstFitOK
<1> QED BY <1>1, <1>3, <1>5, <1>6, <1>7, <1>8, <1>9, <1>10 DEF IndInv

-----------------------------------------------------------------------------
\* The invariant and the properties it contains.

\* IndInv holds in every reachable state.
THEOREM Invariance == Spec => []IndInv
<1>1. Init => IndInv
    BY InitIndInv
<1>2. IndInv /\ [Next]_vars => IndInv'
    <2> SUFFICES ASSUME IndInv, [Next]_vars PROVE IndInv'
        OBVIOUS
    <2>1. CASE UNCHANGED vars
        BY <2>1, StutterStep
    <2>2. ASSUME NEW t \in Thread, AllocateCall(t) \/ FreeCall(t) \/ Working(t)
          PROVE  IndInv'
        BY <2>2, AllocateCallStep, ScanFreePageStep, ScanUsedPageStep, ScanFailedStep,
           MarkPageStep, AllocateReturnStep, FreeCallStep, ClearPageStep, FreeReturnStep
           DEF Working
    <2> QED BY <2>1, <2>2 DEF Next
<1> QED BY <1>1, <1>2, PTL DEF Spec

\* Every variable keeps its type; freePages stays within 0 .. TotalPages.
THEOREM TypeCorrect == Spec => []TypeOK
BY Invariance, PTL DEF IndInv

\* Blocks handed out never overlap nor leave the memory.
THEOREM Exclusion == Spec => []HeldDisjoint
BY Invariance, PTL DEF IndInv

\* A bit is set exactly when its page is held or being moved.
THEOREM Accounting == Spec => []NoLeak
BY Invariance, PTL DEF IndInv

\* The lock-free free count is off by exactly the work in progress.
THEOREM CountExact == Spec => []FreeCountExact
BY Invariance, PTL DEF IndInv

-----------------------------------------------------------------------------
\* The bitmap allocator implements PageMemory.

\* The abstract set: the held pages, and the block that is being cleared.
LEMMA AllocatedNow ==
    ASSUME IndInv
    PROVE  /\ \A t \in Thread : pc[t] = "clear" =>
                Allocated = HeldPages \cup Extent(startPage[t], pageCount[t])
           /\ (\A t \in Thread : pc[t] # "clear") => Allocated = HeldPages
<1>1. \A t, u \in Thread : pc[t] = "clear" /\ pc[u] = "clear" => t = u
    BY DEF IndInv, LockInv
<1> QED BY <1>1 DEF Allocated

\* An allocation that returns a block is the abstract first fit.
LEMMA AllocateReturnMaps ==
    ASSUME IndInv, NEW t \in Thread, AllocateReturn(t)
    PROVE  Abstract!Allocate(request[t])
<1> DEFINE s == startPage[t]
           n == pageCount[t]
<1>1. pc[t] = "mark" /\ n = PageCount(request[t]) /\ request[t] \in 0 .. SizeLimit - 1
    BY DEF AllocateReturn, IndInv, ArgumentInv, TypeOK
<1>2. /\ BlockOK(t) /\ FirstFitOK(t)
      /\ s \in 0 .. TotalPages /\ n \in Nat /\ TotalPages \in Nat
      /\ \A u \in Thread : u # t => pc[u] = "idle"
      /\ TypeOK
    BY <1>1, WhileMoving DEF IndInv, FirstFitInv
<1>3. n > 0 /\ s \in Pages /\ s + n <= TotalPages /\ Abstract!Need(request[t]) = n
    BY <1>1, <1>2, PageCountExact DEF BlockOK, Pages
<1>4. Allocated = HeldPages
    BY <1>1, <1>2, AllocatedNow
<1>5. Allocated' = HeldPages \cup Extent(s, n)
    <2>1. HeldPages' = HeldPages \cup Extent(s, n)
        BY AllocateReturnStep
    <2>2. \A u \in Thread : pc'[u] # "clear"
        BY <1>2 DEF AllocateReturn, Leave, TypeOK
    <2> QED BY <2>1, <2>2 DEF Allocated
<1>6. Abstract!FirstFit(s, n, Allocated)
    BY <1>2, <1>3, <1>4
       DEF Abstract!FirstFit, Abstract!Fits, Abstract!Extent, Abstract!Pages,
           FirstFitOK, BlockOK, Extent, Pages
<1>7. /\ freePages' = freePages - n
      /\ reply' = [size |-> request[t], start |-> s]
    BY DEF AllocateReturn
<1> QED BY <1>3, <1>4, <1>5, <1>6, <1>7
       DEF Abstract!Allocate, Abstract!Extent, Extent, Abstract!Pages, Pages

\* A null answer is an abstract refusal, wrapped sizes included.
LEMMA ScanFailedMaps ==
    ASSUME IndInv, NEW t \in Thread, ScanFailed(t)
    PROVE  Abstract!Refuse(request[t])
<1> DEFINE n == pageCount[t]
           need == Abstract!Need(request[t])
<1>1. /\ pc[t] = "scan" /\ i[t] = TotalPages /\ n = PageCount(request[t])
      /\ request[t] \in 0 .. SizeLimit - 1 /\ TotalPages \in Nat
    BY PagesAssumption DEF ScanFailed, IndInv, ArgumentInv, TypeOK
<1>2. /\ ScanOK(t) /\ Used = HeldPages /\ n \in Nat
      /\ \A u \in Thread : u # t => pc[u] = "idle"
    BY <1>1, WhileScanning
<1>3. Allocated = Used
    BY <1>1, <1>2, AllocatedNow
<1>4. need = 0 \/ \A s \in Pages : ~ Abstract!Fits(s, need, Allocated)
    <2>1. CASE need = n /\ n > 0
        <3>1. ASSUME NEW s \in Pages, s + n <= TotalPages
              PROVE  Extent(s, n) \cap Used # {}
            <4>1. PICK p \in Extent(s, n) : bitmap[p]
                BY <1>1, <1>2, <2>1, <3>1 DEF ScanOK
            <4>2. p \in Used
                BY <1>1, <1>2, <3>1, <4>1 DEF Used, Pages, Extent
            <4> QED BY <4>1, <4>2
        <3> QED BY <1>3, <2>1, <3>1 DEF Abstract!Fits, Abstract!Extent, Extent
    <2>2. CASE need > TotalPages
        BY <1>1, <2>2, SizeAssumption DEF Abstract!Fits, Pages, Abstract!Need
    <2> QED BY <1>1, <1>2, <2>1, <2>2, PageCountExact
<1>5. Allocated' = Allocated
    <2>1. HeldPages' = HeldPages
        BY DEF ScanFailed, HeldPages
    <2>2. \A u \in Thread : pc'[u] # "clear"
        BY <1>2 DEF ScanFailed, Leave, IndInv, TypeOK
    <2> QED BY <1>2, <1>3, <2>1, <2>2 DEF Allocated
<1> QED BY <1>4, <1>5 DEF ScanFailed, memVars, Abstract!Refuse, Abstract!Pages, Pages

\* The end of free is the abstract release of the block.
LEMMA FreeReturnMaps ==
    ASSUME IndInv, NEW t \in Thread, FreeReturn(t)
    PROVE  \E s \in Pages, n \in 1 .. TotalPages : Abstract!Release(s, n)
<1> DEFINE s == startPage[t]
           n == pageCount[t]
<1>1. /\ pc[t] = "clear" /\ BlockOK(t) /\ TypeOK
      /\ s \in 0 .. TotalPages /\ n \in Nat /\ TotalPages \in Nat
      /\ \A u \in Thread : u # t => pc[u] = "idle"
    BY WhileMoving DEF FreeReturn
<1>2. n \in 1 .. TotalPages /\ s \in Pages /\ Extent(s, n) \cap HeldPages = {}
    BY <1>1 DEF BlockOK, Pages
<1>3. Allocated = HeldPages \cup Extent(s, n)
    BY <1>1, AllocatedNow
<1>4. Allocated' = HeldPages
    <2>1. HeldPages' = HeldPages
        BY DEF FreeReturn, HeldPages
    <2>2. \A u \in Thread : pc'[u] # "clear"
        BY <1>1 DEF FreeReturn, Leave, TypeOK
    <2> QED BY <2>1, <2>2 DEF Allocated
<1>5. Allocated' = Allocated \ Extent(s, n) /\ Extent(s, n) \subseteq Allocated
    BY <1>2, <1>3, <1>4
<1>6. Abstract!Release(s, n)
    BY <1>5 DEF FreeReturn, Abstract!Release, Abstract!Extent, Extent
<1> QED BY <1>2, <1>6

\* Every other step leaves the abstract state alone.
LEMMA OtherStepsStutter ==
    ASSUME IndInv, NEW t \in Thread,
           \/ AllocateCall(t) \/ FreeCall(t)
           \/ ScanFreePage(t) \/ ScanUsedPage(t) \/ MarkPage(t) \/ ClearPage(t)
    PROVE  UNCHANGED Abstract!absVars
<1> USE DEF Abstract!absVars, memVars, lockVars
<1>1. CASE FreeCall(t)
    <2>1. /\ HeldPages = HeldPages' \cup Extent(startPage'[t], pageCount'[t])
          /\ pc'[t] = "clear" /\ \A u \in Thread : pc[u] = "idle"
          /\ \A u \in Thread : u # t => pc'[u] = "idle"
        BY <1>1, FreeCallStep, ThreadAssumption
           DEF FreeCall, Enter, IndInv, TypeOK, LockInv
    <2>2. Allocated = HeldPages
        BY <2>1, AllocatedNow
    <2>3. Allocated' = HeldPages' \cup Extent(startPage'[t], pageCount'[t])
        BY <2>1 DEF Allocated
    <2> QED BY <1>1, <2>1, <2>2, <2>3 DEF FreeCall
<1>2. CASE AllocateCall(t)
    <2>1. /\ \A u \in Thread : pc[u] # "clear" /\ pc'[u] # "clear"
          /\ HeldPages' = HeldPages
        BY <1>2, ThreadAssumption
           DEF AllocateCall, Enter, IndInv, TypeOK, LockInv, HeldPages
    <2> QED BY <1>2, <2>1 DEF AllocateCall, Allocated
<1>3. CASE ScanFreePage(t)
    <2>1. /\ \A u \in Thread : pc[u] # "clear" /\ pc'[u] # "clear"
          /\ HeldPages' = HeldPages
        BY <1>3, WhileScanning DEF ScanFreePage, IndInv, TypeOK, HeldPages
    <2> QED BY <1>3, <2>1 DEF ScanFreePage, Allocated
<1>4. CASE ScanUsedPage(t)
    <2>1. /\ \A u \in Thread : pc[u] # "clear" /\ pc'[u] # "clear"
          /\ HeldPages' = HeldPages
        BY <1>4, WhileScanning DEF ScanUsedPage, IndInv, TypeOK, HeldPages
    <2> QED BY <1>4, <2>1 DEF ScanUsedPage, Allocated
<1>5. CASE MarkPage(t) \/ ClearPage(t)
    BY <1>5 DEF MarkPage, ClearPage, Allocated, HeldPages
<1> QED BY <1>1, <1>2, <1>3, <1>4, <1>5

\* The allocator implements its abstract specification.
THEOREM Refinement == Spec => Implements
<1>1. Init => Abstract!Init
    BY DEF Init, Abstract!Init, Allocated, HeldPages
<1>2. IndInv /\ [Next]_vars => [Abstract!Next]_(Abstract!absVars)
    <2> SUFFICES ASSUME IndInv, [Next]_vars
                 PROVE  Abstract!Next \/ UNCHANGED Abstract!absVars
        OBVIOUS
    <2>1. CASE UNCHANGED vars
        BY <2>1 DEF vars, memVars, lockVars, localVars, Abstract!absVars,
                    Allocated, HeldPages
    <2>2. ASSUME NEW t \in Thread, AllocateReturn(t) \/ ScanFailed(t)
          PROVE  Abstract!Next
        <3>1. request[t] \in Sizes
            BY <2>2 DEF AllocateReturn, ScanFailed, IndInv, ArgumentInv
        <3> QED BY <2>2, <3>1, AllocateReturnMaps, ScanFailedMaps DEF Abstract!Next
    <2>3. ASSUME NEW t \in Thread, FreeReturn(t)
          PROVE  Abstract!Next
        BY <2>3, FreeReturnMaps DEF Abstract!Next, Abstract!Pages, Pages
    <2> QED BY <2>1, <2>2, <2>3, OtherStepsStutter DEF Next, Working
<1> QED BY <1>1, <1>2, Invariance, PTL DEF Spec, Implements, Abstract!Spec

============================================================================
