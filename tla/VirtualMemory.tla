--------------------------- MODULE VirtualMemory ---------------------------
(***************************************************************************)
(* memory/vmm.hpp: the block list and the page tracker of                  *)
(* VirtualMemoryManager.  allocateVirtualMemory holds memoryMutex; a page  *)
(* fault takes no lock, but touches one page only.                         *)
(*                                                                         *)
(* The repository lacks findBestFitBlock, splitBlock, allocateNewBlock and *)
(* decompress: they are what their names and their callers say.  It has no *)
(* operation that frees a block, so compressing never makes room and the   *)
(* second search (153-160) fails like the first.                           *)
(***************************************************************************)
EXTENDS Integers, SequencesExt, FiniteSetsExt

CONSTANTS
    BlockSizes,      \* requests, in pages, after alignToPage
    FirstBlock,      \* size of the free block the manager starts with
    TotalMemories,   \* values totalMemory can have: nothing assigns it
    MemoryWord,      \* 2^64: size_t wraps around
    MaxBlocks,       \* bound: blocks on the list
    MaxCompressed    \* bound: charged

VARIABLES
    memoryBlocks,      \* [size, isFree], with what pageTracker says of the block:
                       \* isCompressed, and inactive (isInactivePage)
    totalMemory,
    compressedMemory,  \* starts with whatever was in its memory
    charged            \* history: how much was added to compressedMemory

vars == <<memoryBlocks, totalMemory, compressedMemory, charged>>

Block(size, isFree) ==
    [size |-> size, isFree |-> isFree, isCompressed |-> FALSE, inactive |-> FALSE]

Init ==
    /\ memoryBlocks = <<Block(FirstBlock, TRUE)>>
    /\ totalMemory \in TotalMemories
    /\ compressedMemory \in 0 .. MemoryWord - 1 /\ charged = 0

Fitting(size) ==
    {j \in DOMAIN memoryBlocks : memoryBlocks[j].isFree /\ memoryBlocks[j].size >= size}

\* findBestFitBlock, splitBlock and trackPage
AllocateBestFit(size) ==
    \E j \in Fitting(size) :
        /\ \A k \in Fitting(size) : memoryBlocks[j].size <= memoryBlocks[k].size
        /\ LET rest == memoryBlocks[j].size - size IN
             memoryBlocks' = ReplaceAt(memoryBlocks, j, Block(size, FALSE))
                             \o (IF rest = 0 THEN <<>> ELSE <<Block(rest, TRUE)>>)
        /\ UNCHANGED <<totalMemory, compressedMemory, charged>>

Compressible(b) == ~ b.isFree /\ b.inactive /\ ~ b.isCompressed

Compressed(bs) ==
    [j \in DOMAIN bs |-> IF Compressible(bs[j]) THEN [bs[j] EXCEPT !.isCompressed = TRUE] ELSE bs[j]]

SizeOf(bs, positions) == SumFunctionOnSet([j \in DOMAIN bs |-> bs[j].size], positions)

\* Mutant: compressPage packs one page, and one page is charged.
ChargeOnePage(bs) == Cardinality({j \in DOMAIN bs : Compressible(bs[j])})

\* compressInactivePages charges the whole block.
Charge(bs) == SizeOf(bs, {j \in DOMAIN bs : Compressible(bs[j])})

\* compressedMemory < totalMemory * 0.3 is tested before the pass, which has no limit.
MayCompress == compressedMemory * 10 < totalMemory * 3

\* No block fits: compress if allowed, then allocateNewBlock, which can fail.
AllocateNewBlock(size) ==
    LET kept == IF MayCompress THEN Compressed(memoryBlocks) ELSE memoryBlocks IN
    /\ Fitting(size) = {} /\ Len(memoryBlocks) < MaxBlocks
    /\ charged' = charged + (IF MayCompress THEN Charge(memoryBlocks) ELSE 0)
    /\ charged' <= MaxCompressed
    /\ compressedMemory' = (compressedMemory + charged' - charged) % MemoryWord
    /\ memoryBlocks' \in {kept, Append(kept, Block(size, FALSE))}
    /\ UNCHANGED totalMemory

\* INACTIVE_THRESHOLD passes, and the block was accessed less than 100 times.
BecomesInactive(j) ==
    /\ ~ memoryBlocks[j].isFree /\ ~ memoryBlocks[j].inactive
    /\ memoryBlocks' = [memoryBlocks EXCEPT ![j].inactive = TRUE]
    /\ UNCHANGED <<totalMemory, compressedMemory, charged>>

\* decompress, updateAccessStats; nothing takes the block off compressedMemory.
HandlePageFault(j) ==
    /\ ~ memoryBlocks[j].isFree
    /\ memoryBlocks' = [memoryBlocks EXCEPT ![j].isCompressed = FALSE, ![j].inactive = FALSE]
    /\ UNCHANGED <<totalMemory, compressedMemory, charged>>

Next ==
    \/ \E size \in BlockSizes : AllocateBestFit(size) \/ AllocateNewBlock(size)
    \/ \E j \in DOMAIN memoryBlocks : BecomesInactive(j) \/ HandlePageFault(j)

TypeOK ==
    /\ \A j \in DOMAIN memoryBlocks :
          memoryBlocks[j].isFree => ~ memoryBlocks[j].isCompressed /\ ~ memoryBlocks[j].inactive
    /\ totalMemory \in TotalMemories /\ compressedMemory \in 0 .. MemoryWord - 1
    /\ charged \in 0 .. MaxCompressed

\* Whatever compressedMemory started from, and whatever faults decompress in between,
\* what was added to it covers the blocks that are compressed now (154, 217-228).
CompressedCovers ==
    charged >= SizeOf(memoryBlocks, {j \in DOMAIN memoryBlocks : memoryBlocks[j].isCompressed})
=============================================================================
