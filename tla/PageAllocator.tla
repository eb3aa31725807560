--------------------------- MODULE PageAllocator ---------------------------
(***************************************************************************)
(* memory/PageAllocator.hpp: a first-fit allocator over a bitmap of pages. *)
(*                                                                         *)
(* allocate and free run under allocationMutex; their loops are modelled   *)
(* one iteration a step, because getFreePageCount and getBit are read by   *)
(* other threads without the lock, so the states in the middle of an       *)
(* operation can be seen.  A client is any thread: it asks for a number of *)
(* bytes, keeps the blocks it was given, and gives back a block or its     *)
(* first pages (free takes an address and a size).                         *)
(***************************************************************************)
EXTENDS PageRuns, FiniteSets

CONSTANTS
    Thread,        \* the threads that call the allocator
    NoThread,      \* allocationMutex is not held
    PageSize,      \* PAGE_SIZE, bytes
    SizeLimit,     \* size_t holds 0 .. SizeLimit - 1
    Sizes,         \* the sizes, in bytes, that clients ask for
    MemoryStart,   \* the address of the first page
    NoPage         \* nullptr

ASSUME ThreadAssumption == NoThread \notin Thread
ASSUME PagesAssumption  == TotalPages \in Nat
ASSUME SizeAssumption   == /\ PageSize \in Nat \ {0}
                           /\ MemoryStart \in Nat
\* The memory, and one page more, can be counted in a size_t.
ASSUME LimitAssumption  == /\ SizeLimit \in Nat
                           /\ SizeLimit >= (TotalPages + 1) * PageSize
                           /\ Sizes \subseteq 0 .. SizeLimit - 1
ASSUME NullAssumption   == NoPage \notin Nat

VARIABLES
    bitmap,            \* [Pages -> BOOLEAN], TRUE: in use
    freePages,
    allocationMutex,   \* its holder
    pc,                \* where each thread is
    request,           \* allocate's argument, and the locals of allocate and
    pageCount,         \* free, one per thread
    startPage,
    consecutivePages,
    i,                 \* the loop counter (i, and j of the marking loop)
    held,              \* history: the blocks handed out and not given back
    reply              \* history: the last answer of allocate

lockVars  == <<allocationMutex, pc>>
localVars == <<request, pageCount, startPage, consecutivePages, i>>
memVars   == <<bitmap, freePages>>
vars == <<memVars, lockVars, localVars, held, reply>>

-----------------------------------------------------------------------------

Block == [start : Pages, len : 1 .. TotalPages]

\* Mutant: the count is rounded down.
PageCountDown(size) == size \div PageSize

\* (size + PAGE_SIZE - 1) / PAGE_SIZE in size_t arithmetic: the sum wraps.
PageCount(size) == ((size + PageSize - 1) % SizeLimit) \div PageSize

\* The address allocate computes, and the way back that free takes.
Address(page) == MemoryStart + page * PageSize
PageIndex(address) == (address - MemoryStart) \div PageSize

Used == {p \in Pages : bitmap[p]}

HeldPages == UNION {Extent(b.start, b.len) : b \in held}

\* initialize: every bit is clear.
Init ==
    /\ bitmap = [p \in Pages |-> FALSE]
    /\ freePages = TotalPages
    /\ allocationMutex = NoThread
    /\ pc = [t \in Thread |-> "idle"]
    /\ request = [t \in Thread |-> 0]
    /\ pageCount = [t \in Thread |-> 0]
    /\ startPage = [t \in Thread |-> 0]
    /\ consecutivePages = [t \in Thread |-> 0]
    /\ i = [t \in Thread |-> 0]
    /\ held = {}
    /\ reply = [size |-> 0, start |-> NoPage]

-----------------------------------------------------------------------------
\* lock_guard: entering with the operation's locals set, and leaving.

\* Mutant: no lock_guard, a second thread walks in.
EnterUnlocked(t, where, size, first) ==
    /\ pc[t] = "idle"
    /\ allocationMutex' = t
    /\ pc' = [pc EXCEPT ![t] = where]
    /\ request' = [request EXCEPT ![t] = size]
    /\ pageCount' = [pageCount EXCEPT ![t] = PageCount(size)]
    /\ startPage' = [startPage EXCEPT ![t] = first]
    /\ consecutivePages' = [consecutivePages EXCEPT ![t] = 0]
    /\ i' = [i EXCEPT ![t] = 0]

Enter(t, where, size, first) ==
    /\ allocationMutex = NoThread
    /\ pc[t] = "idle"
    /\ allocationMutex' = t
    /\ pc' = [pc EXCEPT ![t] = where]
    /\ request' = [request EXCEPT ![t] = size]
    /\ pageCount' = [pageCount EXCEPT ![t] = PageCount(size)]
    /\ startPage' = [startPage EXCEPT ![t] = first]
    /\ consecutivePages' = [consecutivePages EXCEPT ![t] = 0]
    /\ i' = [i EXCEPT ![t] = 0]

\* The locals die with the call: they go back to 0.
Leave(t) ==
    /\ allocationMutex' = NoThread
    /\ pc' = [pc EXCEPT ![t] = "idle"]
    /\ request' = [request EXCEPT ![t] = 0]
    /\ pageCount' = [pageCount EXCEPT ![t] = 0]
    /\ startPage' = [startPage EXCEPT ![t] = 0]
    /\ consecutivePages' = [consecutivePages EXCEPT ![t] = 0]
    /\ i' = [i EXCEPT ![t] = 0]

-----------------------------------------------------------------------------
\* allocate(size)

AllocateCall(t) ==
    /\ \E size \in Sizes : Enter(t, "scan", size, 0)
    /\ UNCHANGED <<memVars, held, reply>>

\* The page under the scan is free: it starts a run or makes it longer, and
\* a run that is long enough ends the scan.
ScanFreePage(t) ==
    /\ pc[t] = "scan"
    /\ i[t] < TotalPages
    /\ ~ bitmap[i[t]]
    /\ startPage' = [startPage EXCEPT ![t] =
                        IF consecutivePages[t] = 0 THEN i[t] ELSE @]
    /\ consecutivePages' = [consecutivePages EXCEPT ![t] = @ + 1]
    /\ IF consecutivePages[t] + 1 = pageCount[t]
         THEN /\ pc' = [pc EXCEPT ![t] = "mark"]
              /\ i' = [i EXCEPT ![t] = 0]
         ELSE /\ i' = [i EXCEPT ![t] = @ + 1]
              /\ UNCHANGED pc
    /\ UNCHANGED <<memVars, allocationMutex, request, pageCount,
                   held, reply>>

\* The page is in use: the run starts over.
ScanUsedPage(t) ==
    /\ pc[t] = "scan"
    /\ i[t] < TotalPages
    /\ bitmap[i[t]]
    /\ consecutivePages' = [consecutivePages EXCEPT ![t] = 0]
    /\ i' = [i EXCEPT ![t] = @ + 1]
    /\ UNCHANGED <<memVars, lockVars, request, pageCount, startPage, held, reply>>

\* Mutant: the pages are charged before the scan and not given back.
ScanFailedCharged(t) ==
    /\ pc[t] = "scan"
    /\ i[t] = TotalPages
    /\ freePages' = freePages - pageCount[t]
    /\ reply' = [size |-> request[t], start |-> NoPage]
    /\ Leave(t)
    /\ UNCHANGED <<bitmap, held>>

\* Mutant: an early return that leaves the mutex locked.
ScanFailedLocked(t) ==
    /\ pc[t] = "scan"
    /\ i[t] = TotalPages
    /\ reply' = [size |-> request[t], start |-> NoPage]
    /\ UNCHANGED <<memVars, lockVars, localVars, held>>

\* The scan ran off the end: nullptr.
ScanFailed(t) ==
    /\ pc[t] = "scan"
    /\ i[t] = TotalPages
    /\ reply' = [size |-> request[t], start |-> NoPage]
    /\ Leave(t)
    /\ UNCHANGED <<memVars, held>>

MarkPage(t) ==
    /\ pc[t] = "mark"
    /\ i[t] < pageCount[t]
    /\ bitmap' = [bitmap EXCEPT ![startPage[t] + i[t]] = TRUE]
    /\ i' = [i EXCEPT ![t] = @ + 1]
    /\ UNCHANGED <<freePages, lockVars, request, pageCount, startPage,
                   consecutivePages, held, reply>>

\* freePages is adjusted and the block is handed out as the lock is released.
AllocateReturn(t) ==
    /\ pc[t] = "mark"
    /\ i[t] = pageCount[t]
    /\ freePages' = freePages - pageCount[t]
    /\ held' = held \cup {[start |-> startPage[t], len |-> pageCount[t]]}
    /\ reply' = [size |-> request[t], start |-> startPage[t]]
    /\ Leave(t)
    /\ UNCHANGED bitmap

-----------------------------------------------------------------------------
\* free(address, size): a client gives back the first n pages of a block it holds.

FreeCall(t) ==
    /\ \E b \in held :
        \E n \in 1 .. b.len :
            /\ Enter(t, "clear", n * PageSize, PageIndex(Address(b.start)))
            /\ held' = (held \ {b}) \cup
                         (IF n < b.len
                            THEN {[start |-> b.start + n, len |-> b.len - n]}
                            ELSE {})
    /\ UNCHANGED <<memVars, reply>>

\* Mutant: the loop clears from the second page on.
ClearPageShifted(t) ==
    /\ pc[t] = "clear"
    /\ i[t] < pageCount[t]
    /\ bitmap' = [p \in Pages |-> p # startPage[t] + i[t] + 1 /\ bitmap[p]]
    /\ i' = [i EXCEPT ![t] = @ + 1]
    /\ UNCHANGED <<freePages, lockVars, request, pageCount, startPage,
                   consecutivePages, held, reply>>

ClearPage(t) ==
    /\ pc[t] = "clear"
    /\ i[t] < pageCount[t]
    /\ bitmap' = [bitmap EXCEPT ![startPage[t] + i[t]] = FALSE]
    /\ i' = [i EXCEPT ![t] = @ + 1]
    /\ UNCHANGED <<freePages, lockVars, request, pageCount, startPage,
                   consecutivePages, held, reply>>

\* Mutant: free forgets to count the pages.
FreeReturnUncounted(t) ==
    /\ pc[t] = "clear"
    /\ i[t] = pageCount[t]
    /\ Leave(t)
    /\ UNCHANGED <<memVars, held, reply>>

FreeReturn(t) ==
    /\ pc[t] = "clear"
    /\ i[t] = pageCount[t]
    /\ freePages' = freePages + pageCount[t]
    /\ Leave(t)
    /\ UNCHANGED <<bitmap, held, reply>>

-----------------------------------------------------------------------------

\* The steps of an operation that holds the lock.
Working(t) ==
    \/ ScanFreePage(t) \/ ScanUsedPage(t) \/ ScanFailed(t)
    \/ MarkPage(t) \/ AllocateReturn(t)
    \/ ClearPage(t) \/ FreeReturn(t)

Next == \E t \in Thread : AllocateCall(t) \/ FreeCall(t) \/ Working(t)

\* A thread inside an operation keeps running; nobody is made to call one.
Fairness == \A t \in Thread : WF_vars(Working(t))

Spec == Init /\ [][Next]_vars /\ Fairness

-----------------------------------------------------------------------------
\* Properties

\* Every variable stays in its range; in particular freePages, a size_t, never
\* wraps below 0 nor passes totalPages.
TypeOK ==
    /\ bitmap \in [Pages -> BOOLEAN]
    /\ freePages \in 0 .. TotalPages
    /\ allocationMutex \in Thread \cup {NoThread}
    /\ pc \in [Thread -> {"idle", "scan", "mark", "clear"}]
    /\ request \in [Thread -> 0 .. SizeLimit - 1]
    /\ pageCount \in [Thread -> Nat]
    /\ startPage \in [Thread -> 0 .. TotalPages]
    /\ consecutivePages \in [Thread -> 0 .. TotalPages]
    /\ i \in [Thread -> 0 .. TotalPages]
    /\ held \subseteq Block
    /\ reply \in [size : Sizes \cup {0}, start : Pages \cup {NoPage}]

\* Two blocks handed out never share a page and none reaches past the end of
\* memory, whatever the order of calls and partial frees (allocate, 66-94).
HeldDisjoint ==
    /\ HeldPages \subseteq Pages
    /\ \A b, c \in held : b # c => Extent(b.start, b.len) \cap Extent(c.start, c.len) = {}

\* The pages an operation has marked and not yet handed out, or was given back
\* and has not yet cleared.
InTransit(t) ==
    IF pc[t] = "mark" THEN Extent(startPage[t], i[t])
    ELSE IF pc[t] = "clear" THEN Extent(startPage[t] + i[t], pageCount[t] - i[t])
    ELSE {}

\* No page leaks: a bit is set exactly when a client holds the page or the
\* operation under way is moving it (setBit, 31-41, in both loops).
NoLeak == Used = HeldPages \cup UNION {InTransit(t) : t \in Thread}

\* What getFreePageCount (107), which takes no lock, can answer: the clear bits,
\* off by the pages the operation under way has marked (too high) or cleared
\* (too low) so far, and exact whenever the lock is free.
Lag(t) ==
    IF pc[t] = "mark" THEN i[t] ELSE IF pc[t] = "clear" THEN 0 - i[t] ELSE 0

FreeCountExact ==
    freePages = TotalPages - Cardinality(Used)
                + (IF allocationMutex = NoThread THEN 0 ELSE Lag(allocationMutex))

\* The inductive invariant: the three above, the lock protocol, and what the
\* loops of the operation under way have established.

LockInv == \A t \in Thread : pc[t] = "idle" <=> allocationMutex # t

ArgumentInv ==
    \A t \in Thread :
        /\ pc[t] # "idle" => pageCount[t] = PageCount(request[t])
        /\ pc[t] \in {"scan", "mark"} => request[t] \in Sizes

\* The scan: the current run ends at i, nothing before it is long enough.
ScanOK(t) ==
    /\ consecutivePages[t] <= i[t]
    /\ consecutivePages[t] > 0 => startPage[t] = i[t] - consecutivePages[t]
    /\ pageCount[t] > 0 => consecutivePages[t] < pageCount[t]
    /\ \A p \in Pages : i[t] - consecutivePages[t] <= p /\ p < i[t] => ~ bitmap[p]
    /\ i[t] > consecutivePages[t] => bitmap[i[t] - consecutivePages[t] - 1]
    /\ \A r \in Pages :
          pageCount[t] > 0 /\ r + pageCount[t] <= i[t]
            => \E p \in Extent(r, pageCount[t]) : bitmap[p]

ScanInv == \A t \in Thread : pc[t] = "scan" => ScanOK(t)

\* Marking and clearing work on a block inside the memory that nobody holds.
BlockOK(t) ==
    /\ pageCount[t] > 0
    /\ i[t] <= pageCount[t]
    /\ startPage[t] + pageCount[t] <= TotalPages
    /\ Extent(startPage[t], pageCount[t]) \cap HeldPages = {}

BlockInv == \A t \in Thread : pc[t] \in {"mark", "clear"} => BlockOK(t)

\* What is being marked is the first fit among the pages nobody holds.
FirstFitOK(t) ==
    \A r \in Pages :
        r < startPage[t] => Extent(r, pageCount[t]) \cap HeldPages # {}

FirstFitInv == \A t \in Thread : pc[t] = "mark" => FirstFitOK(t)

IndInv ==
    /\ TypeOK /\ HeldDisjoint /\ NoLeak /\ FreeCountExact
    /\ LockInv /\ ArgumentInv /\ ScanInv /\ BlockInv /\ FirstFitInv

\* The allocator does what PageMemory promises: the lowest run that holds the
\* size asked for, a refusal only of an empty request or when no run is long
\* enough - also for the sizes on which (size + PAGE_SIZE - 1) wraps (68) - and a
\* free count that follows.
Allocated ==
    HeldPages \cup UNION {Extent(startPage[t], pageCount[t]) :
                            t \in {u \in Thread : pc[u] = "clear"}}

Abstract == INSTANCE PageMemory WITH Requests <- Sizes, allocated <- Allocated

Implements == Abstract!Spec

\* Every operation ends: the lock, once taken, is released.
LockReleased == \A t \in Thread : allocationMutex = t ~> allocationMutex # t
============================================================================
