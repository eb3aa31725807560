-------------------------- MODULE MCMemoryManager --------------------------
(* Small instances of MemoryManager. *)
EXTENDS MemoryManager

MCPoolPages == <<3>>

\* Clients and physical pages are interchangeable (invariants only).
Symmetry == Permutations(Client) \cup Permutations(PhysicalPage)

\* availableMemory is written and never read: states that differ in it alone
\* behave alike.
View == <<poolVars, taken, pageAllocations, pageTable, tlbCache, physicalFree, held, wrapped>>
=============================================================================
