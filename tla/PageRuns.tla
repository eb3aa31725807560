------------------------------ MODULE PageRuns ------------------------------
(***************************************************************************)
(* Runs of consecutive pages, and which one a first-fit scan finds.  The   *)
(* allocators of memory/ all look for memory with the same loop            *)
(* (PageAllocator.hpp:71-93, MemoryManager.hpp:71-90); PageAllocator       *)
(* models that loop step by step and is shown to return FirstFit.          *)
(***************************************************************************)
EXTENDS Integers

CONSTANT TotalPages   \* pages under management (totalPages)

Pages == 0 .. TotalPages - 1

Extent(start, n) == start .. start + n - 1

\* A run of n free pages starts at s.
Fits(s, n, taken) ==
    /\ s + n <= TotalPages
    /\ Extent(s, n) \cap taken = {}

\* ... and none starts lower.
FirstFit(s, n, taken) ==
    /\ Fits(s, n, taken)
    /\ \A r \in Pages : r < s => ~ Fits(r, n, taken)
=============================================================================
