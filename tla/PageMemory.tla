---------------------------- MODULE PageMemory ----------------------------
(***************************************************************************)
(* What a page allocator promises (memory/PageAllocator.hpp), with no      *)
(* bitmap, no scan and no lock: a set of allocated pages, the free count a *)
(* caller can ask for, and the answer of the last allocation.              *)
(***************************************************************************)
EXTENDS PageRuns

CONSTANTS
    PageSize,     \* bytes in a page
    Requests,     \* the sizes, in bytes, that may be asked for
    NoPage        \* the null answer

VARIABLES
    allocated,    \* pages that belong to some client
    freePages,    \* what getFreePageCount answers
    reply         \* the last answer: [size |-> bytes, start |-> first page or NoPage]

absVars == <<allocated, freePages, reply>>

\* The pages that size bytes take, over the integers.
Need(size) == (size + PageSize - 1) \div PageSize

Init ==
    /\ allocated = {}
    /\ freePages = TotalPages
    /\ reply = [size |-> 0, start |-> NoPage]

\* A successful allocation takes the lowest run that is long enough.
Allocate(size) ==
    /\ Need(size) > 0
    /\ \E s \in Pages :
        /\ FirstFit(s, Need(size), allocated)
        /\ allocated' = allocated \cup Extent(s, Need(size))
        /\ reply' = [size |-> size, start |-> s]
    /\ freePages' = freePages - Need(size)

\* A null answer is given only to an empty request or when no run is long enough.
Refuse(size) ==
    /\ Need(size) = 0 \/ \A s \in Pages : ~ Fits(s, Need(size), allocated)
    /\ reply' = [size |-> size, start |-> NoPage]
    /\ UNCHANGED <<allocated, freePages>>

Release(s, n) ==
    /\ Extent(s, n) \subseteq allocated
    /\ allocated' = allocated \ Extent(s, n)
    /\ freePages' = freePages + n
    /\ UNCHANGED reply

Next ==
    \/ \E size \in Requests : Allocate(size) \/ Refuse(size)
    \/ \E s \in Pages, n \in 1 .. TotalPages : Release(s, n)

Spec == Init /\ [][Next]_absVars
============================================================================
