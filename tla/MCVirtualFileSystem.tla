------------------------ MODULE MCVirtualFileSystem ------------------------
(* Small instances of VirtualFileSystem: one file that is read through the
   buffers and one that is mapped; two cache levels. *)
EXTENDS VirtualFileSystem

CONSTANTS small, large, SmallSize, LargeSize

MCFileSize == [p \in Path |-> IF p = small THEN SmallSize ELSE LargeSize]
MCLevelSizes == <<2, 2>>

\* atEnd is written and never read: states that differ in it alone behave alike.
View == <<cacheVars, pool, mappedFiles, pc, file, position, lost, localVars, workVars>>
============================================================================
