--------------------------- MODULE ResourcesProofs ---------------------------
(***************************************************************************)
(* Proofs about the managers of Resources, for any sizes of them: the      *)
(* records of one thing agree, what was charged covers what is held, and   *)
(* the shader cache drops its oldest entries.  The managers share no       *)
(* state: each has an inductive invariant of its own.                      *)
(***************************************************************************)
EXTENDS Resources, SumTheorems, SequenceTheorems, TLAPS

\* The cardinality the managers' modules speak of is that of the library.
LEMMA SameCardinality ==
    ASSUME NEW S
    PROVE  /\ Graphics!Cardinality(S) = Cardinality(S)
           /\ Memory!Cardinality(S) = Cardinality(S)
           /\ Shaders!Cardinality(S) = Cardinality(S)
BY DEF Cardinality, Graphics!Cardinality, Memory!Cardinality, Shaders!Cardinality

\* The sums the managers' modules speak of are those of the library.
LEMMA SameSum ==
    ASSUME NEW f, NEW S
    PROVE  /\ Graphics!SumFunctionOnSet(f, S) = SumFunctionOnSet(f, S)
           /\ Virtual!SumFunctionOnSet(f, S) = SumFunctionOnSet(f, S)
           /\ Memory!SumFunctionOnSet(f, S) = SumFunctionOnSet(f, S)
BY SumIsLastPartial
   DEF Graphics!SumFunctionOnSet, Graphics!FoldFunctionOnSet, Graphics!MapThenFoldSet,
       Virtual!SumFunctionOnSet, Virtual!FoldFunctionOnSet, Virtual!MapThenFoldSet,
       Memory!SumFunctionOnSet, Memory!FoldFunctionOnSet, Memory!MapThenFoldSet,
       PartialSums, SumRound, Chosen

\* A sequence of one.
LEMMA Single ==
    ASSUME NEW S, NEW e \in S
    PROVE  <<e>> \in Seq(S) /\ Len(<<e>>) = 1 /\ DOMAIN <<e>> = {1} /\ <<e>>[1] = e
<1>1. <<e>> \in Seq(S) /\ Len(<<e>>) = 1 /\ <<e>>[1] = e
    OBVIOUS
<1>2. DOMAIN <<e>> = 1 .. 1
    BY <1>1
<1> QED BY <1>1, <1>2

\* One element replaced.
LEMMA Replaced ==
    ASSUME NEW S, NEW s \in Seq(S), NEW j \in DOMAIN s, NEW e \in S
    PROVE  LET t == [s EXCEPT ![j] = e] IN
           /\ t \in Seq(S) /\ Len(t) = Len(s) /\ DOMAIN t = DOMAIN s
           /\ t[j] = e /\ \A k \in DOMAIN s \ {j} : t[k] = s[k]
BY ExceptSeq

-----------------------------------------------------------------------------
\* Virtual memory.

\* The sizes of the elements of a sequence of records.
SizesOf(bs) == [j \in DOMAIN bs |-> bs[j].size]

-----------------------------------------------------------------------------
\* Virtual memory.

VirtualBlock == [size : Nat, isFree : BOOLEAN, isCompressed : BOOLEAN, inactive : BOOLEAN]

\* The positions of the blocks that are compressed.
Packed(bs) == {j \in DOMAIN bs : bs[j].isCompressed}

\* A free block is neither compressed nor inactive.
VirtualInv ==
    /\ memoryBlocks \in Seq(VirtualBlock) /\ charged \in Nat
    /\ Virtual!TypeOK
    /\ Virtual!CompressedCovers

\* What the properties call the size of some blocks.
LEMMA SizeIsSum ==
    ASSUME NEW bs, NEW P
    PROVE  Virtual!SizeOf(bs, P) = SumFunctionOnSet(SizesOf(bs), P)
BY SameSum DEF Virtual!SizeOf, SizesOf

\* At first nothing is compressed.
LEMMA VirtualInit == Virtual!Init => VirtualInv
<1> SUFFICES ASSUME Virtual!Init PROVE VirtualInv
    OBVIOUS
<1>1. /\ memoryBlocks = <<Virtual!Block(FirstBlock, TRUE)>> /\ charged = 0
      /\ totalMemory \in TotalMemories /\ compressedMemory \in 0 .. MemoryWord - 1
    BY DEF Virtual!Init
<1>2. /\ Virtual!Block(FirstBlock, TRUE) \in VirtualBlock
      /\ ~ Virtual!Block(FirstBlock, TRUE).isCompressed
      /\ ~ Virtual!Block(FirstBlock, TRUE).inactive
    BY GraphicsAssumption DEF Virtual!Block, VirtualBlock
<1>3. /\ memoryBlocks \in Seq(VirtualBlock) /\ DOMAIN memoryBlocks = {1}
      /\ memoryBlocks[1] = Virtual!Block(FirstBlock, TRUE)
    BY <1>1, <1>2, Single
<1>4. Virtual!TypeOK
    <2>1. \A j \in DOMAIN memoryBlocks :
             memoryBlocks[j].isFree => ~ memoryBlocks[j].isCompressed /\ ~ memoryBlocks[j].inactive
        <3> DEFINE first == Virtual!Block(FirstBlock, TRUE)
        <3>1. \A j \in DOMAIN memoryBlocks : memoryBlocks[j] = first
            BY <1>3
        <3>2. ~ first.isCompressed /\ ~ first.inactive
            BY <1>2
        <3> HIDE DEF first
        <3> QED BY <3>1, <3>2
    <2>2. charged \in 0 .. MaxCompressed
        BY <1>1, GraphicsAssumption
    <2> QED BY <1>1, <2>1, <2>2 DEF Virtual!TypeOK
<1>5. Packed(memoryBlocks) = {}
    <2> SUFFICES ASSUME NEW j \in Packed(memoryBlocks) PROVE FALSE
        OBVIOUS
    <2>1. j \in DOMAIN memoryBlocks /\ memoryBlocks[j].isCompressed
        BY DEF Packed
    <2>2. j = 1
        BY <1>3, <2>1
    <2> QED BY <1>2, <1>3, <2>1, <2>2
<1>6. Virtual!SizeOf(memoryBlocks, Packed(memoryBlocks)) = 0
    BY <1>5, SizeIsSum, SumEmpty
<1>7. Virtual!CompressedCovers
    BY <1>1, <1>6 DEF Virtual!CompressedCovers, Packed
<1> QED BY <1>1, <1>3, <1>4, <1>7 DEF VirtualInv

\* The other managers' steps touch no virtual memory.
LEMMA VirtualStill == VirtualInv /\ UNCHANGED virtualVars => VirtualInv'
BY SizeIsSum DEF VirtualInv, Virtual!TypeOK, Virtual!CompressedCovers, virtualVars, Packed, SizesOf

\* The blocks have a size each, and there are finitely many.
LEMMA BlockSizesType ==
    ASSUME NEW bs \in Seq(VirtualBlock)
    PROVE  /\ IsFiniteSet(DOMAIN bs) /\ IsFiniteSet(Packed(bs)) /\ Packed(bs) \subseteq DOMAIN bs
           /\ \A j \in DOMAIN bs : SizesOf(bs)[j] = bs[j].size /\ bs[j].size \in Nat
<1>1. DOMAIN bs = 1 .. Len(bs) /\ Len(bs) \in Nat
    OBVIOUS
<1>2. IsFiniteSet(DOMAIN bs)
    BY <1>1, FS_Interval
<1>3. Packed(bs) \subseteq DOMAIN bs
    BY DEF Packed
<1>4. \A j \in DOMAIN bs : bs[j] \in VirtualBlock
    OBVIOUS
<1> QED BY <1>2, <1>3, <1>4, FS_Subset DEF SizesOf, VirtualBlock

\* Blocks that keep their size where they are compressed, of which there are no more than
\* there were, are covered as before.
LEMMA StillCovered ==
    ASSUME VirtualInv, UNCHANGED <<totalMemory, compressedMemory, charged>>,
           memoryBlocks' \in Seq(VirtualBlock),
           \A j \in DOMAIN memoryBlocks' :
              memoryBlocks'[j].isFree => ~ memoryBlocks'[j].isCompressed /\ ~ memoryBlocks'[j].inactive,
           \A j \in DOMAIN memoryBlocks' : memoryBlocks'[j].isCompressed =>
              /\ j \in DOMAIN memoryBlocks /\ memoryBlocks[j].isCompressed
              /\ memoryBlocks'[j].size = memoryBlocks[j].size
    PROVE  VirtualInv'
<1>1. /\ Packed(memoryBlocks') \subseteq Packed(memoryBlocks)
      /\ \A j \in Packed(memoryBlocks') : SizesOf(memoryBlocks')[j] = SizesOf(memoryBlocks)[j]
    BY DEF Packed, SizesOf
<1>2. /\ IsFiniteSet(Packed(memoryBlocks)) /\ IsFiniteSet(Packed(memoryBlocks'))
      /\ \A j \in Packed(memoryBlocks) : SizesOf(memoryBlocks)[j] \in Nat
    BY BlockSizesType DEF VirtualInv
<1>3. SumFunctionOnSet(SizesOf(memoryBlocks'), Packed(memoryBlocks'))
        = SumFunctionOnSet(SizesOf(memoryBlocks), Packed(memoryBlocks'))
    BY <1>1, <1>2, SumSame
<1>4. SumFunctionOnSet(SizesOf(memoryBlocks), Packed(memoryBlocks'))
        <= SumFunctionOnSet(SizesOf(memoryBlocks), Packed(memoryBlocks))
    BY <1>1, <1>2, SumOfFewer
<1>5. /\ SumFunctionOnSet(SizesOf(memoryBlocks), Packed(memoryBlocks')) \in Nat
      /\ SumFunctionOnSet(SizesOf(memoryBlocks), Packed(memoryBlocks)) \in Nat
    BY <1>1, <1>2, SumType
<1>6. charged >= SumFunctionOnSet(SizesOf(memoryBlocks), Packed(memoryBlocks))
    BY SizeIsSum DEF VirtualInv, Virtual!CompressedCovers, Packed
<1>7. charged' >= SumFunctionOnSet(SizesOf(memoryBlocks'), Packed(memoryBlocks'))
    BY <1>3, <1>4, <1>5, <1>6 DEF VirtualInv
<1>8. Virtual!CompressedCovers'
    BY <1>7, SizeIsSum DEF Virtual!CompressedCovers, Packed
<1> QED BY <1>8 DEF VirtualInv, Virtual!TypeOK

\* A free block is cut; what is left of it is free.
LEMMA BestFitInv ==
    ASSUME VirtualInv, NEW size \in BlockSizes, Virtual!AllocateBestFit(size)
    PROVE  VirtualInv'
<1>1. PICK j \in Virtual!Fitting(size) :
          memoryBlocks' = Virtual!ReplaceAt(memoryBlocks, j, Virtual!Block(size, FALSE))
              \o (IF memoryBlocks[j].size - size = 0 THEN <<>>
                  ELSE <<Virtual!Block(memoryBlocks[j].size - size, TRUE)>>)
    BY DEF Virtual!AllocateBestFit
<1> DEFINE rest == memoryBlocks[j].size - size
           cut  == Virtual!ReplaceAt(memoryBlocks, j, Virtual!Block(size, FALSE))
           tail == IF rest = 0 THEN <<>> ELSE <<Virtual!Block(rest, TRUE)>>
<1>2. /\ j \in DOMAIN memoryBlocks /\ memoryBlocks[j].isFree /\ memoryBlocks[j].size >= size
      /\ size \in Nat /\ memoryBlocks[j].size \in Nat
    BY BlockSizesType, GraphicsAssumption DEF Virtual!Fitting, VirtualInv
<1>3. rest \in Nat
    BY <1>2
<1>4. \A s \in Nat : \A isFree \in BOOLEAN :
          /\ Virtual!Block(s, isFree) \in VirtualBlock
          /\ ~ Virtual!Block(s, isFree).isCompressed /\ ~ Virtual!Block(s, isFree).inactive
    BY DEF Virtual!Block, VirtualBlock
<1>5. /\ cut \in Seq(VirtualBlock) /\ Len(cut) = Len(memoryBlocks)
      /\ cut[j] = Virtual!Block(size, FALSE) /\ \A k \in DOMAIN memoryBlocks \ {j} : cut[k] = memoryBlocks[k]
    <2> DEFINE given == Virtual!Block(size, FALSE)
    <2>1. given \in VirtualBlock
        BY <1>2, <1>4
    <2>2. cut = [memoryBlocks EXCEPT ![j] = given]
        BY DEF Virtual!ReplaceAt
    <2> HIDE DEF given, cut
    <2>3. cut \in Seq(VirtualBlock) /\ Len(cut) = Len(memoryBlocks)
          /\ cut[j] = given /\ \A k \in DOMAIN memoryBlocks \ {j} : cut[k] = memoryBlocks[k]
        BY <1>2, <2>1, <2>2, Replaced DEF VirtualInv
    <2> QED BY <2>3 DEF given
<1>6. /\ tail \in Seq(VirtualBlock)
      /\ \A k \in DOMAIN tail : ~ tail[k].isCompressed /\ ~ tail[k].inactive
    <2> HIDE DEF rest
    <2>1. CASE rest = 0
        BY <2>1
    <2>2. CASE rest # 0
        <3> DEFINE left == Virtual!Block(rest, TRUE)
        <3>1. tail = <<left>>
            BY <2>2
        <3>2. left \in VirtualBlock /\ ~ left.isCompressed /\ ~ left.inactive
            BY <1>3, <1>4
        <3> HIDE DEF tail, left
        <3>3. tail \in Seq(VirtualBlock) /\ DOMAIN tail = {1} /\ tail[1] = left
            BY <3>1, <3>2, Single
        <3> QED BY <3>2, <3>3
    <2> QED BY <2>1, <2>2
<1> HIDE DEF cut, tail
<1>7. memoryBlocks' = cut \o tail
    BY <1>1 DEF cut, tail, rest
<1>8. memoryBlocks' \in Seq(VirtualBlock)
    BY <1>5, <1>6, <1>7, ConcatProperties
<1>9. \A k \in DOMAIN memoryBlocks' :
         \/ k \in DOMAIN memoryBlocks \ {j} /\ memoryBlocks'[k] = memoryBlocks[k]
         \/ ~ memoryBlocks'[k].isCompressed /\ ~ memoryBlocks'[k].inactive
    <2> SUFFICES ASSUME NEW k \in DOMAIN memoryBlocks'
                 PROVE  \/ k \in DOMAIN memoryBlocks \ {j} /\ memoryBlocks'[k] = memoryBlocks[k]
                        \/ ~ memoryBlocks'[k].isCompressed /\ ~ memoryBlocks'[k].inactive
        OBVIOUS
    <2>1. /\ DOMAIN memoryBlocks = 1 .. Len(cut) /\ k \in 1 .. Len(cut) + Len(tail)
          /\ k \in Nat /\ Len(cut) \in Nat /\ Len(tail) \in Nat /\ DOMAIN tail = 1 .. Len(tail)
        BY <1>5, <1>6, <1>7, <1>8, ConcatProperties DEF VirtualInv
    <2>2. CASE k <= Len(cut)
        <3>1. memoryBlocks'[k] = cut[k] /\ k \in DOMAIN memoryBlocks
            BY <1>5, <1>6, <1>7, <2>1, <2>2, ConcatProperties
        <3> QED BY <1>2, <1>4, <1>5, <3>1
    <2>3. CASE k > Len(cut)
        <3>1. memoryBlocks'[k] = tail[k - Len(cut)] /\ k - Len(cut) \in DOMAIN tail
            BY <1>5, <1>6, <1>7, <2>1, <2>3, ConcatProperties
        <3> QED BY <1>6, <3>1
    <2> QED BY <2>1, <2>2, <2>3
<1>10. UNCHANGED <<totalMemory, compressedMemory, charged>>
    BY DEF Virtual!AllocateBestFit
<1> QED BY <1>8, <1>9, <1>10, StillCovered DEF VirtualInv, Virtual!TypeOK

\* compressInactivePages charges the blocks it compresses, all of each.
LEMMA NewBlockInv ==
    ASSUME VirtualInv, NEW size \in BlockSizes, Virtual!AllocateNewBlock(size)
    PROVE  VirtualInv'
<1> DEFINE kept == IF Virtual!MayCompress THEN Virtual!Compressed(memoryBlocks) ELSE memoryBlocks
           more == IF Virtual!MayCompress
                     THEN {j \in DOMAIN memoryBlocks : Virtual!Compressible(memoryBlocks[j])} ELSE {}
           fresh == Virtual!Block(size, FALSE)
<1>0. memoryBlocks \in Seq(VirtualBlock)
    BY DEF VirtualInv
<1>1. /\ kept \in Seq(VirtualBlock) /\ DOMAIN kept = DOMAIN memoryBlocks
      /\ \A j \in DOMAIN memoryBlocks :
            /\ kept[j].size = memoryBlocks[j].size
            /\ kept[j].isFree <=> memoryBlocks[j].isFree
            /\ kept[j].inactive <=> memoryBlocks[j].inactive
            /\ kept[j].isCompressed <=> memoryBlocks[j].isCompressed \/ j \in more
    <2>1. CASE Virtual!MayCompress
        <3>1. kept = [j \in DOMAIN memoryBlocks |->
                        IF Virtual!Compressible(memoryBlocks[j])
                          THEN [memoryBlocks[j] EXCEPT !.isCompressed = TRUE] ELSE memoryBlocks[j]]
            BY <2>1 DEF Virtual!Compressed
        <3>2. \A j \in DOMAIN memoryBlocks :
                 j \in more <=> Virtual!Compressible(memoryBlocks[j])
            BY <2>1
        <3> HIDE DEF kept, more
        <3>3. \A j \in DOMAIN memoryBlocks :
                 /\ kept[j] \in VirtualBlock
                 /\ kept[j].size = memoryBlocks[j].size
                 /\ kept[j].isFree <=> memoryBlocks[j].isFree
                 /\ kept[j].inactive <=> memoryBlocks[j].inactive
                 /\ kept[j].isCompressed <=> memoryBlocks[j].isCompressed \/ j \in more
            <4> SUFFICES ASSUME NEW j \in DOMAIN memoryBlocks
                         PROVE  /\ kept[j] \in VirtualBlock
                                /\ kept[j].size = memoryBlocks[j].size
                                /\ kept[j].isFree <=> memoryBlocks[j].isFree
                                /\ kept[j].inactive <=> memoryBlocks[j].inactive
                                /\ kept[j].isCompressed <=> memoryBlocks[j].isCompressed \/ j \in more
                OBVIOUS
            <4>1. memoryBlocks[j] \in VirtualBlock
                BY <1>0
            <4>2. CASE Virtual!Compressible(memoryBlocks[j])
                BY <3>1, <3>2, <4>1, <4>2 DEF VirtualBlock
            <4>3. CASE ~ Virtual!Compressible(memoryBlocks[j])
                BY <3>1, <3>2, <4>1, <4>3 DEF VirtualBlock
            <4> QED BY <4>2, <4>3
        <3>4. DOMAIN kept = 1 .. Len(memoryBlocks) /\ Len(memoryBlocks) \in Nat
            BY <1>0, <3>1
        <3>5. kept \in Seq(VirtualBlock)
            <4>1. kept = [j \in 1 .. Len(memoryBlocks) |-> kept[j]]
                BY <1>0, <3>1
            <4> QED BY <3>3, <3>4, <4>1
        <3> QED BY <3>1, <3>3, <3>5
    <2>2. CASE ~ Virtual!MayCompress
        BY <1>0, <2>2
    <2> QED BY <2>1, <2>2
<1>2. more \subseteq DOMAIN memoryBlocks /\ more \cap Packed(memoryBlocks) = {}
      /\ \A j \in more : ~ memoryBlocks[j].isFree
    BY DEF Packed, Virtual!Compressible
<1>3. charged' = charged + SumFunctionOnSet(SizesOf(memoryBlocks), more)
    <2>1. CASE Virtual!MayCompress
        BY <2>1, SizeIsSum DEF Virtual!AllocateNewBlock, Virtual!Charge
    <2>2. CASE ~ Virtual!MayCompress
        BY <2>2, SumEmpty DEF Virtual!AllocateNewBlock
    <2> QED BY <2>1, <2>2
<1>4. /\ memoryBlocks' \in {kept, Append(kept, fresh)} /\ charged' <= MaxCompressed
      /\ totalMemory' = totalMemory
      /\ compressedMemory' = (compressedMemory + charged' - charged) % MemoryWord
    BY DEF Virtual!AllocateNewBlock
<1>5. fresh \in VirtualBlock /\ ~ fresh.isCompressed /\ ~ fresh.inactive
    BY GraphicsAssumption DEF Virtual!Block, VirtualBlock
<1> HIDE DEF kept, more, fresh
<1>6. /\ memoryBlocks' \in Seq(VirtualBlock)
      /\ DOMAIN memoryBlocks \subseteq DOMAIN memoryBlocks'
      /\ \A j \in DOMAIN memoryBlocks : memoryBlocks'[j] = kept[j]
      /\ \A j \in DOMAIN memoryBlocks' \ DOMAIN memoryBlocks :
            ~ memoryBlocks'[j].isCompressed /\ ~ memoryBlocks'[j].inactive
    <2>1. CASE memoryBlocks' = kept
        BY <1>1, <2>1
    <2>2. CASE memoryBlocks' = Append(kept, fresh)
        <3>1. /\ memoryBlocks' \in Seq(VirtualBlock) /\ Len(kept) \in Nat
              /\ DOMAIN memoryBlocks' = 1 .. Len(kept) + 1 /\ DOMAIN kept = 1 .. Len(kept)
              /\ \A j \in 1 .. Len(kept) : memoryBlocks'[j] = kept[j]
              /\ memoryBlocks'[Len(kept) + 1] = fresh
            BY <1>1, <1>5, <2>2, AppendProperties
        <3>2. \A j \in DOMAIN memoryBlocks' \ DOMAIN memoryBlocks : memoryBlocks'[j] = fresh
            BY <1>1, <3>1
        <3>3. \A j \in DOMAIN memoryBlocks : j \in DOMAIN memoryBlocks' /\ memoryBlocks'[j] = kept[j]
            BY <1>1, <3>1
        <3> QED BY <1>5, <3>1, <3>2, <3>3
    <2> QED BY <1>4, <2>1, <2>2
<1>7. /\ Packed(memoryBlocks') = Packed(memoryBlocks) \cup more
      /\ \A j \in DOMAIN memoryBlocks : SizesOf(memoryBlocks')[j] = SizesOf(memoryBlocks)[j]
    BY <1>1, <1>2, <1>6 DEF Packed, SizesOf
<1>8. /\ IsFiniteSet(Packed(memoryBlocks)) /\ IsFiniteSet(more)
      /\ Packed(memoryBlocks) \subseteq DOMAIN memoryBlocks
      /\ \A j \in DOMAIN memoryBlocks : SizesOf(memoryBlocks)[j] \in Nat
    BY <1>0, <1>2, BlockSizesType, FS_Subset
<1>9. SumFunctionOnSet(SizesOf(memoryBlocks'), Packed(memoryBlocks'))
        = SumFunctionOnSet(SizesOf(memoryBlocks), Packed(memoryBlocks))
            + SumFunctionOnSet(SizesOf(memoryBlocks), more)
    <2>1. SumFunctionOnSet(SizesOf(memoryBlocks), Packed(memoryBlocks) \cup more)
            = SumFunctionOnSet(SizesOf(memoryBlocks), Packed(memoryBlocks))
                + SumFunctionOnSet(SizesOf(memoryBlocks), more)
        BY <1>2, <1>8, SumUnion
    <2>2. IsFiniteSet(Packed(memoryBlocks'))
        BY <1>6, BlockSizesType
    <2>3. SumFunctionOnSet(SizesOf(memoryBlocks'), Packed(memoryBlocks'))
            = SumFunctionOnSet(SizesOf(memoryBlocks), Packed(memoryBlocks'))
        BY <1>2, <1>7, <1>8, <2>2, SumSame
    <2> QED BY <1>7, <2>1, <2>3
<1>10. /\ SumFunctionOnSet(SizesOf(memoryBlocks), Packed(memoryBlocks)) \in Nat
       /\ SumFunctionOnSet(SizesOf(memoryBlocks), more) \in Nat
    BY <1>2, <1>8, SumType
<1>11. charged >= SumFunctionOnSet(SizesOf(memoryBlocks), Packed(memoryBlocks))
    BY SizeIsSum DEF VirtualInv, Virtual!CompressedCovers, Packed
<1>12. charged' \in Nat
       /\ charged' >= SumFunctionOnSet(SizesOf(memoryBlocks'), Packed(memoryBlocks'))
    BY <1>3, <1>9, <1>10, <1>11 DEF VirtualInv
<1>13. Virtual!CompressedCovers'
    BY <1>12, SizeIsSum DEF Virtual!CompressedCovers, Packed
<1>14. \A j \in DOMAIN memoryBlocks' :
          memoryBlocks'[j].isFree => ~ memoryBlocks'[j].isCompressed /\ ~ memoryBlocks'[j].inactive
    BY <1>1, <1>2, <1>6 DEF VirtualInv, Virtual!TypeOK
<1>15. compressedMemory' \in 0 .. MemoryWord - 1
    <2>1. compressedMemory' = (compressedMemory + charged' - charged) % MemoryWord
        BY DEF Virtual!AllocateNewBlock
    <2>2. compressedMemory \in Int /\ charged \in Nat /\ MemoryWord \in Nat \ {0}
        BY GraphicsAssumption DEF VirtualInv, Virtual!TypeOK
    <2>3. compressedMemory + charged' - charged \in Int
        BY <1>12, <2>2
    <2>4. \A n \in Int : n % MemoryWord \in 0 .. MemoryWord - 1
        BY <2>2
    <2> QED BY <2>1, <2>3, <2>4
<1>16. Virtual!TypeOK'
    <2>1. totalMemory' = totalMemory /\ charged' <= MaxCompressed
        BY DEF Virtual!AllocateNewBlock
    <2>2. charged' \in 0 .. MaxCompressed
        BY <1>12, <2>1, GraphicsAssumption
    <2> QED BY <1>14, <1>15, <2>1, <2>2 DEF VirtualInv, Virtual!TypeOK
<1> QED BY <1>6, <1>12, <1>13, <1>16 DEF VirtualInv

\* A used block that grows old or is touched keeps its size, and is not compressed by that.
LEMMA TouchInv ==
    ASSUME VirtualInv, NEW j \in DOMAIN memoryBlocks,
           Virtual!BecomesInactive(j) \/ Virtual!HandlePageFault(j)
    PROVE  VirtualInv'
<1>0. memoryBlocks \in Seq(VirtualBlock) /\ memoryBlocks[j] \in VirtualBlock
    BY DEF VirtualInv
<1>1. PICK b \in VirtualBlock :
          /\ memoryBlocks' = [memoryBlocks EXCEPT ![j] = b]
          /\ ~ b.isFree /\ b.size = memoryBlocks[j].size
          /\ b.isCompressed => memoryBlocks[j].isCompressed
    <2>1. CASE Virtual!BecomesInactive(j)
        <3> DEFINE b == [memoryBlocks[j] EXCEPT !.inactive = TRUE]
        <3>1. memoryBlocks' = [memoryBlocks EXCEPT ![j] = b]
            BY <2>1 DEF Virtual!BecomesInactive
        <3>2. /\ b \in VirtualBlock /\ ~ b.isFree /\ b.size = memoryBlocks[j].size
              /\ b.isCompressed => memoryBlocks[j].isCompressed
            BY <1>0, <2>1 DEF Virtual!BecomesInactive, VirtualBlock
        <3> HIDE DEF b
        <3> QED BY <3>1, <3>2
    <2>2. CASE Virtual!HandlePageFault(j)
        <3> DEFINE b == [[memoryBlocks[j] EXCEPT !.isCompressed = FALSE] EXCEPT !.inactive = FALSE]
        <3>1. memoryBlocks' = [memoryBlocks EXCEPT ![j] = b]
            BY <2>2 DEF Virtual!HandlePageFault
        <3>2. /\ b \in VirtualBlock /\ ~ b.isFree /\ b.size = memoryBlocks[j].size
              /\ b.isCompressed => memoryBlocks[j].isCompressed
            BY <1>0, <2>2 DEF Virtual!HandlePageFault, VirtualBlock
        <3> HIDE DEF b
        <3> QED BY <3>1, <3>2
    <2> QED BY <2>1, <2>2
<1>2. /\ memoryBlocks' \in Seq(VirtualBlock) /\ DOMAIN memoryBlocks' = DOMAIN memoryBlocks
      /\ memoryBlocks'[j] = b /\ \A k \in DOMAIN memoryBlocks \ {j} : memoryBlocks'[k] = memoryBlocks[k]
    BY <1>0, <1>1, Replaced
<1>3. UNCHANGED <<totalMemory, compressedMemory, charged>>
    BY DEF Virtual!BecomesInactive, Virtual!HandlePageFault
<1>4. \A k \in DOMAIN memoryBlocks :
         memoryBlocks[k].isFree => ~ memoryBlocks[k].isCompressed /\ ~ memoryBlocks[k].inactive
    BY DEF VirtualInv, Virtual!TypeOK
<1>5. \A k \in DOMAIN memoryBlocks' :
         /\ memoryBlocks'[k].isFree => ~ memoryBlocks'[k].isCompressed /\ ~ memoryBlocks'[k].inactive
         /\ memoryBlocks'[k].isCompressed =>
               /\ k \in DOMAIN memoryBlocks /\ memoryBlocks[k].isCompressed
               /\ memoryBlocks'[k].size = memoryBlocks[k].size
    BY <1>1, <1>2, <1>4
<1> QED BY <1>2, <1>3, <1>5, StillCovered

\* Every operation of the virtual memory manager keeps compressed memory covered.
LEMMA VirtualSteps == VirtualInv /\ Virtual!Next => VirtualInv'
BY BestFitInv, NewBlockInv, TouchInv DEF Virtual!Next

-----------------------------------------------------------------------------
\* Textures and their trackers.

\* A handle names the texture it belongs to, so no two trackers have the same.
Tracker(p) == [handle : {p} \X (0 .. 1), isInUse : BOOLEAN, isPriority : BOOLEAN, old : BOOLEAN]

GraphicsInv ==
    /\ crashed \in BOOLEAN /\ textureCharge \in Int /\ IsFiniteSet(DOMAIN trackers)
    /\ ~ crashed => \A p \in DOMAIN trackers : trackers[p].handle = <<p, 0>>
    /\ DOMAIN trackers \subseteq textureCache
    /\ \A p \in DOMAIN trackers : trackers[p] \in Tracker(p)
    /\ Graphics!TrackersHaveInfos

\* Before the first texture there is neither tracker nor info.
LEMMA GraphicsInit == Graphics!Init => GraphicsInv
<1> SUFFICES ASSUME Graphics!Init PROVE GraphicsInv
    OBVIOUS
<1>1. /\ DOMAIN trackers = {} /\ infos = {} /\ textureCache = {}
      /\ crashed = FALSE /\ textureCharge = 0
    BY DEF Graphics!Init
<1>2. IsFiniteSet(DOMAIN trackers)
    BY <1>1, FS_EmptySet
<1>3. infos = {trackers[p].handle : p \in DOMAIN trackers}
    BY <1>1
<1>4. textureCharge \in Int
    BY <1>1
<1>5. crashed \in BOOLEAN
    BY <1>1, Zenon
<1> QED BY <1>1, <1>2, <1>3, <1>4, <1>5, Zenon DEF GraphicsInv, Graphics!TrackersHaveInfos

\* The other managers' steps touch no texture.
LEMMA GraphicsStill == GraphicsInv /\ UNCHANGED graphicsVars => GraphicsInv'
BY DEF GraphicsInv, Graphics!TrackersHaveInfos, graphicsVars

\* A texture that is loaded gets a tracker and an info of the same handle; since it is
\* not in the cache, it has neither.
LEMMA LoadNewInv ==
    ASSUME GraphicsInv, ~ crashed, NEW path, NEW isInUse \in BOOLEAN, NEW isPriority \in BOOLEAN,
           Graphics!LoadNew(path, isInUse, isPriority)
    PROVE  GraphicsInv'
<1>1. path \notin DOMAIN trackers /\ DOMAIN trackers' = DOMAIN trackers \cup {path}
    BY DEF GraphicsInv, Graphics!LoadNew
<1>2. /\ trackers'[path] = [handle |-> <<path, 0>>, isInUse |-> isInUse,
                            isPriority |-> isPriority, old |-> FALSE]
      /\ \A p \in DOMAIN trackers : trackers'[p] = trackers[p]
    BY <1>1 DEF Graphics!LoadNew
<1>3. infos' = {trackers'[p].handle : p \in DOMAIN trackers'}
    <2>1. trackers'[path].handle = <<path, 0>>
        BY <1>2
    <2>2. infos' = {trackers[p].handle : p \in DOMAIN trackers} \cup {<<path, 0>>}
        BY DEF GraphicsInv, Graphics!LoadNew, Graphics!TrackersHaveInfos
    <2> QED BY <1>1, <1>2, <2>1, <2>2
<1>4. \A p \in DOMAIN trackers' : trackers'[p] \in Tracker(p) /\ trackers'[p].handle = <<p, 0>>
    <2>1. trackers'[path] \in Tracker(path) /\ trackers'[path].handle = <<path, 0>>
        BY <1>2 DEF Tracker
    <2> QED BY <1>1, <1>2, <2>1 DEF GraphicsInv
<1>5. DOMAIN trackers' \subseteq textureCache' /\ IsFiniteSet(DOMAIN trackers')
    BY <1>1, FS_AddElement DEF GraphicsInv, Graphics!LoadNew
<1>6. textureCharge' \in Int /\ crashed' \in BOOLEAN
    <2>1. TextureSize \in Int /\ textureCharge \in Int
        BY GraphicsAssumption DEF GraphicsInv
    <2>2. textureCharge' \in {textureCharge, textureCharge + TextureSize}
        BY DEF Graphics!LoadNew
    <2> QED BY <2>1, <2>2 DEF GraphicsInv, Graphics!LoadNew
<1> QED BY <1>3, <1>4, <1>5, <1>6 DEF GraphicsInv, Graphics!TrackersHaveInfos

\* A change of marks leaves the handles alone.
LEMMA MarkInv ==
    ASSUME GraphicsInv, UNCHANGED <<textureCharge, textureCache, infos, crashed>>,
           DOMAIN trackers' = DOMAIN trackers,
           \A p \in DOMAIN trackers :
              trackers'[p] \in Tracker(p) /\ trackers'[p].handle = trackers[p].handle
    PROVE  GraphicsInv'
BY DEF GraphicsInv, Graphics!TrackersHaveInfos

\* Trackers that go take their infos with them, and no other tracker's.
LEMMA DropInv ==
    ASSUME GraphicsInv, Graphics!CollectGarbage
    PROVE  GraphicsInv'
<1> USE DEF GraphicsInv, Graphics!TrackersHaveInfos
<1> DEFINE paths == Graphics!LowPriority
<1>1. \A p, q \in DOMAIN trackers : trackers[p].handle = trackers[q].handle => p = q
    BY DEF Tracker
<1>2. paths \subseteq DOMAIN trackers
    BY DEF Graphics!LowPriority, Graphics!Idle
<1>3. /\ DOMAIN trackers' = DOMAIN trackers \ paths
      /\ \A p \in DOMAIN trackers' : trackers'[p] = trackers[p]
      /\ infos' = infos \ {trackers[p].handle : p \in paths}
      /\ UNCHANGED <<textureCache, crashed>>
    BY DEF Graphics!CollectGarbage
<1>4. textureCharge' \in Int
    <2>1. IsFiniteSet(paths)
        BY <1>2, FS_Subset
    <2>2. Cardinality(paths) \in Nat
        BY <2>1, FS_CardinalityType
    <2>3. textureCharge' = textureCharge - TextureSize * Cardinality(paths)
        BY SameCardinality DEF Graphics!CollectGarbage
    <2> HIDE DEF paths
    <2> QED BY <2>2, <2>3, GraphicsAssumption
<1> HIDE DEF paths
<1>5. infos' = {trackers'[p].handle : p \in DOMAIN trackers'}
    BY <1>1, <1>2, <1>3
<1>6. IsFiniteSet(DOMAIN trackers')
    BY <1>3, FS_Subset
<1> QED BY <1>3, <1>4, <1>5, <1>6

\* A move gives each moved texture its next handle in both records, and the others keep
\* theirs.  The process has no step after it.
LEMMA MoveInv ==
    ASSUME GraphicsInv, ~ crashed, NEW paths \in SUBSET DOMAIN trackers,
           UNCHANGED <<textureCharge, textureCache>>, crashed',
           Graphics!UpdateResourceLocation(paths)
    PROVE  GraphicsInv'
<1>1. \A p, q \in DOMAIN trackers : trackers[p].handle = trackers[q].handle => p = q
    BY DEF GraphicsInv, Tracker
<1>2. \A p \in paths : Graphics!NextHandle(p) = <<p, 1>>
    <2>1. \A p \in paths : trackers[p].handle = <<p, 0>>
        BY DEF GraphicsInv
    <2> QED BY <2>1 DEF Graphics!NextHandle
<1>3. /\ DOMAIN trackers' = DOMAIN trackers
      /\ \A p \in DOMAIN trackers' \ paths : trackers'[p] = trackers[p]
      /\ \A p \in paths : trackers'[p] = [trackers[p] EXCEPT !.handle = Graphics!NextHandle(p)]
    BY DEF Graphics!UpdateResourceLocation
<1>4. \A p \in paths : trackers'[p] \in Tracker(p) /\ trackers'[p].handle = Graphics!NextHandle(p)
    <2> SUFFICES ASSUME NEW p \in paths
                 PROVE  trackers'[p] \in Tracker(p) /\ trackers'[p].handle = Graphics!NextHandle(p)
        OBVIOUS
    <2>1. trackers[p] \in Tracker(p)
        BY DEF GraphicsInv
    <2>2. Graphics!NextHandle(p) \in {p} \X (0 .. 1)
        BY <1>2
    <2>3. trackers'[p] = [trackers[p] EXCEPT !.handle = Graphics!NextHandle(p)]
        BY <1>3
    <2> QED BY <2>1, <2>2, <2>3 DEF Tracker
<1>5. infos' = (infos \ {trackers[p].handle : p \in paths})
                 \cup {Graphics!NextHandle(p) : p \in paths}
    BY DEF Graphics!UpdateResourceLocation
<1>6. infos' = {trackers'[p].handle : p \in DOMAIN trackers'}
    BY <1>1, <1>3, <1>4, <1>5 DEF GraphicsInv, Graphics!TrackersHaveInfos
<1>7. \A p \in DOMAIN trackers' : trackers'[p] \in Tracker(p)
    BY <1>3, <1>4 DEF GraphicsInv
<1> QED BY <1>3, <1>6, <1>7 DEF GraphicsInv, Graphics!TrackersHaveInfos

\* Every operation of the graphics resource manager keeps trackers and infos together.
LEMMA GraphicsSteps == GraphicsInv /\ Graphics!Next => GraphicsInv'
<1> SUFFICES ASSUME GraphicsInv, Graphics!Next PROVE GraphicsInv'
    OBVIOUS
<1>0. ~ crashed
    BY DEF Graphics!Next
<1>1. CASE \E id \in ResourceIds :
              \/ \E isPriority \in BOOLEAN : Graphics!SetCachePriority(id, isPriority)
              \/ \E size \in ResourceSizes : Graphics!PreloadResource(id, size)
    <2>1. UNCHANGED <<textureCharge, textureCache, trackers, infos, crashed>>
        BY <1>1 DEF Graphics!SetCachePriority, Graphics!PreloadResource, Graphics!textureVars
    <2> QED BY <2>1 DEF GraphicsInv, Graphics!TrackersHaveInfos
<1>2. CASE \E path \in TexturePaths : Graphics!LoadCached(path)
    <2>1. PICK path \in TexturePaths : trackers' = Graphics!Used(path)
        BY <1>2 DEF Graphics!LoadCached
    <2>2. UNCHANGED <<textureCharge, textureCache, infos, crashed>>
        BY <1>2 DEF Graphics!LoadCached
    <2>3. CASE path \in DOMAIN trackers /\ trackers[path].handle = <<path, 0>>
        <3> DEFINE fresh == [trackers EXCEPT ![path].old = FALSE]
        <3>1. /\ DOMAIN fresh = DOMAIN trackers
              /\ \A p \in DOMAIN trackers : /\ fresh[p] \in Tracker(p)
                                            /\ fresh[p].handle = trackers[p].handle
            BY <2>3 DEF GraphicsInv, Tracker
        <3>2. trackers' = [fresh EXCEPT ![path].isInUse = TRUE]
            BY <2>1, <2>3 DEF Graphics!Used
        <3> HIDE DEF fresh
        <3>3. /\ DOMAIN trackers' = DOMAIN trackers
              /\ \A p \in DOMAIN trackers : /\ trackers'[p] \in Tracker(p)
                                            /\ trackers'[p].handle = fresh[p].handle
            <4>1. DOMAIN trackers' = DOMAIN trackers
                BY <3>1, <3>2
            <4>2. ASSUME NEW p \in DOMAIN trackers
                  PROVE  trackers'[p] \in Tracker(p) /\ trackers'[p].handle = fresh[p].handle
                <5>1. fresh[p] \in Tracker(p) /\ p \in DOMAIN fresh
                    BY <3>1
                <5>2. CASE p # path
                    BY <3>2, <5>1, <5>2
                <5>3. CASE p = path
                    <6>1. trackers'[p] = [fresh[p] EXCEPT !.isInUse = TRUE]
                        BY <3>2, <5>1, <5>3
                    <6> QED BY <5>1, <6>1 DEF Tracker
                <5> QED BY <5>2, <5>3
            <4> QED BY <4>1, <4>2
        <3> QED BY <2>2, <3>1, <3>3, MarkInv
    <2>4. CASE UNCHANGED trackers
        BY <2>2, <2>4 DEF GraphicsInv, Graphics!TrackersHaveInfos
    <2> QED BY <2>1, <2>3, <2>4 DEF Graphics!Used
<1>3. CASE \E path \in TexturePaths : Graphics!Timeout(path)
    <2>1. /\ DOMAIN trackers' = DOMAIN trackers
          /\ \A p \in DOMAIN trackers : /\ trackers'[p] \in Tracker(p)
                                        /\ trackers'[p].handle = trackers[p].handle
        <3>1. PICK path \in DOMAIN trackers : trackers' = [trackers EXCEPT ![path].old = TRUE]
            BY <1>3 DEF Graphics!Timeout
        <3> QED BY <3>1 DEF GraphicsInv, Tracker
    <2>2. UNCHANGED <<textureCharge, textureCache, infos, crashed>>
        BY <1>3 DEF Graphics!Timeout
    <2> QED BY <2>1, <2>2, MarkInv
<1>4. CASE \E path \in TexturePaths : \E isInUse, isPriority \in BOOLEAN :
              Graphics!LoadNew(path, isInUse, isPriority)
    BY <1>0, <1>4, LoadNewInv
<1>5. CASE Graphics!CollectGarbage
    BY <1>5, DropInv
<1>6. CASE Graphics!AllocateGameResources
    <2>1. Graphics!LowPriority \subseteq DOMAIN trackers
        BY DEF Graphics!LowPriority, Graphics!Idle
    <2>2. PICK moved \in SUBSET DOMAIN trackers : Graphics!UpdateResourceLocation(moved)
        BY <1>6, <2>1 DEF Graphics!AllocateGameResources, Graphics!MoveToSharedMemory
    <2>3. crashed' /\ UNCHANGED <<textureCharge, textureCache>>
        BY <1>6 DEF Graphics!AllocateGameResources
    <2> QED BY <1>0, <2>2, <2>3, MoveInv
<1>7. CASE Graphics!OptimizeMemoryAllocation
    BY <1>7 DEF Graphics!OptimizeMemoryAllocation, Graphics!textureVars, GraphicsInv,
       Graphics!TrackersHaveInfos
<1> QED BY <1>1, <1>2, <1>3, <1>4, <1>5, <1>6, <1>7 DEF Graphics!Next

-----------------------------------------------------------------------------
\* The charge of the graphics cache.

Entry == [id : ResourceIds, size : ResourceSizes, isPriority : BOOLEAN]

TotalOf(s) == SumFunctionOnSet(SizesOf(s), DOMAIN s)

\* An id has one entry, and what preloading charged covers the entries.
ChargeInv ==
    /\ gpuCache \in Seq(Entry)
    /\ \A i, j \in DOMAIN gpuCache : gpuCache[i].id = gpuCache[j].id => i = j
    /\ textureCache \subseteq TexturePaths
    /\ preloadCharge \in 0 .. MaxCharge
    /\ Graphics!ChargeCovers

\* What the properties call the size of some entries.
LEMMA EntriesSum ==
    ASSUME NEW s, NEW P
    PROVE  Graphics!TotalSize(s, P) = SumFunctionOnSet(SizesOf(s), P)
BY SameSum DEF Graphics!TotalSize, SizesOf

\* The charge, in terms of the library.
LEMMA Covering == Graphics!ChargeCovers <=> preloadCharge >= TotalOf(gpuCache)
BY EntriesSum DEF Graphics!ChargeCovers, TotalOf

\* Entries have sizes that add up.
LEMMA EntrySizes ==
    ASSUME NEW s \in Seq(Entry)
    PROVE  /\ IsFiniteSet(DOMAIN s) /\ \A j \in DOMAIN s : SizesOf(s)[j] = s[j].size /\ s[j].size \in Nat
           /\ TotalOf(s) \in Nat
<1>1. DOMAIN s = 1 .. Len(s) /\ Len(s) \in Nat
    OBVIOUS
<1>2. IsFiniteSet(DOMAIN s)
    BY <1>1, FS_Interval
<1>3. \A j \in DOMAIN s : SizesOf(s)[j] = s[j].size /\ s[j].size \in Nat
    <2>1. \A j \in DOMAIN s : s[j] \in Entry
        OBVIOUS
    <2> QED BY <2>1, GraphicsAssumption DEF SizesOf, Entry
<1>4. TotalOf(s) \in Nat
    BY <1>2, <1>3, SumType DEF TotalOf
<1> QED BY <1>2, <1>3, <1>4

\* An element taken out of a sequence: the later ones move up.
LEMMA Removed ==
    ASSUME NEW S, NEW s \in Seq(S), NEW i \in DOMAIN s
    PROVE  LET t == Graphics!RemoveAt(s, i) IN
           /\ t \in Seq(S) /\ DOMAIN t = 1 .. Len(s) - 1
           /\ \A k \in 1 .. Len(s) - 1 : t[k] = s[IF k < i THEN k ELSE k + 1]
<1> DEFINE before == SubSeq(s, 1, i - 1)
           after  == SubSeq(s, i + 1, Len(s))
           t == Graphics!RemoveAt(s, i)
<1>1. i \in Nat /\ 1 <= i /\ i <= Len(s) /\ Len(s) \in Nat
    OBVIOUS
<1>2. /\ before \in Seq(S) /\ Len(before) = i - 1
      /\ \A k \in 1 .. i - 1 : before[k] = s[k]
    <2>1. \A k \in 1 .. i - 1 : s[k] \in S
        BY <1>1
    <2> QED BY <1>1, SubSeqProperties
<1>3. /\ after \in Seq(S) /\ Len(after) = Len(s) - i
      /\ \A k \in 1 .. Len(s) - i : after[k] = s[k + i]
    BY <1>1, SubSeqProperties
<1>4. t = before \o after
    BY DEF Graphics!RemoveAt
<1> HIDE DEF before, after, t
<1>5. t \in Seq(S) /\ Len(t) = Len(s) - 1
    BY <1>1, <1>2, <1>3, <1>4, ConcatProperties
<1>6. DOMAIN t = 1 .. Len(s) - 1
    BY <1>5
<1>7. ASSUME NEW k \in 1 .. Len(s) - 1 PROVE t[k] = s[IF k < i THEN k ELSE k + 1]
    <2>1. CASE k < i
        <3>1. k \in 1 .. Len(before) /\ k \in 1 .. i - 1
            BY <1>1, <1>2, <2>1
        <3>2. t[k] = before[k]
            BY <1>2, <1>3, <1>4, <3>1, ConcatProperties
        <3> QED BY <1>2, <2>1, <3>1, <3>2
    <2>2. CASE ~ (k < i)
        <3>1. k - (i - 1) \in 1 .. Len(s) - i /\ (k - (i - 1)) + i = k + 1
              /\ k \in 1 .. Len(before) + Len(after) /\ ~ (k <= Len(before)) /\ k > Len(before)
            BY <1>1, <1>2, <1>3, <2>2
        <3>2. t[k] = after[k - Len(before)]
            BY <1>2, <1>3, <1>4, <3>1, ConcatProperties
        <3>3. t[k] = after[k - (i - 1)]
            BY <1>2, <3>2
        <3> QED BY <1>3, <2>2, <3>1, <3>3
    <2> QED BY <2>1, <2>2
<1> QED BY <1>5, <1>6, <1>7 DEF t

\* Without the entry of an id, if there is one, the others stay as they are.
LEMMA WithoutIs ==
    ASSUME NEW s \in Seq(Entry), NEW id
    PROVE  \/ /\ Graphics!Without(s, id) = s /\ \A j \in DOMAIN s : s[j].id # id
           \/ \E i \in DOMAIN s : s[i].id = id /\ Graphics!Without(s, id) = Graphics!RemoveAt(s, i)
<1>1. DOMAIN s = 1 .. Len(s) /\ Len(s) \in Nat
    OBVIOUS
<1> DEFINE I == {i \in 1 .. Len(s) : s[i].id = id}
<1>2. Graphics!Without(s, id) = IF \E i \in 1 .. Len(s) : s[i].id = id
                                  THEN Graphics!RemoveAt(s, IF I # {} THEN Graphics!Min(I) ELSE 0) ELSE s
    BY DEF Graphics!Without, Graphics!RemoveFirstMatch, Graphics!SelectInSeq
<1>3. CASE I = {}
    BY <1>1, <1>2, <1>3
<1>4. CASE I # {}
    <2>1. PICK i \in I : \A k \in I : i <= k
        <3>1. I \in SUBSET Nat
            BY <1>1
        <3> HIDE DEF I
        <3> QED BY <1>4, <3>1, LeastNumber
    <2>2. Graphics!Min(I) \in I
        <3> HIDE DEF I
        <3> QED BY <2>1 DEF Graphics!Min
    <2>3. Graphics!Without(s, id) = Graphics!RemoveAt(s, Graphics!Min(I))
        BY <1>2, <1>4
    <2>4. Graphics!Min(I) \in DOMAIN s /\ s[Graphics!Min(I)].id = id
        BY <1>1, <2>2
    <2> HIDE DEF I
    <2> QED BY <2>3, <2>4
<1> QED BY <1>3, <1>4

\* ... and the total is what it was without that entry, or less.
LEMMA WithoutCosts ==
    ASSUME NEW s \in Seq(Entry), NEW id,
           \A i, j \in DOMAIN s : s[i].id = s[j].id => i = j
    PROVE  LET t == Graphics!Without(s, id) IN
           /\ t \in Seq(Entry)
           /\ \A i, j \in DOMAIN t : t[i].id = t[j].id => i = j
           /\ \A i \in DOMAIN t : t[i].id # id
           /\ TotalOf(t) <= TotalOf(s)
           /\ \A i \in DOMAIN s : s[i].id = id => TotalOf(t) <= TotalOf(s) - s[i].size
<1> DEFINE t == Graphics!Without(s, id)
<1>0. /\ IsFiniteSet(DOMAIN s) /\ TotalOf(s) \in Nat
      /\ \A j \in DOMAIN s : SizesOf(s)[j] = s[j].size /\ s[j].size \in Nat
    BY EntrySizes
<1>1. CASE t = s /\ \A j \in DOMAIN s : s[j].id # id
    BY <1>0, <1>1
<1>2. CASE \E i \in DOMAIN s : s[i].id = id /\ t = Graphics!RemoveAt(s, i)
    <2>1. PICK i \in DOMAIN s : s[i].id = id /\ t = Graphics!RemoveAt(s, i)
        BY <1>2
    <2> DEFINE g == [k \in DOMAIN t |-> IF k < i THEN k ELSE k + 1]
    <2> HIDE DEF t
    <2>2. /\ t \in Seq(Entry) /\ DOMAIN t = 1 .. Len(s) - 1
          /\ \A k \in 1 .. Len(s) - 1 : t[k] = s[IF k < i THEN k ELSE k + 1]
        BY <2>1, Removed
    <2>3. DOMAIN s = 1 .. Len(s) /\ Len(s) \in Nat /\ i \in Nat
        OBVIOUS
    <2>4. /\ DOMAIN g = DOMAIN t
          /\ \A k \in DOMAIN t : g[k] \in DOMAIN s \ {i} /\ t[k] = s[g[k]]
          /\ \A k, l \in DOMAIN t : g[k] = g[l] => k = l
        BY <2>2, <2>3
    <2>5. g \in [DOMAIN t -> DOMAIN s \ {i}]
        BY <2>4
    <2>6. IsInjective(g)
        <3> HIDE DEF g
        <3> QED BY <2>4 DEF IsInjective
    <2> HIDE DEF g
    <2>7. /\ IsFiniteSet(DOMAIN t) /\ TotalOf(t) \in Nat
          /\ \A j \in DOMAIN t : SizesOf(t)[j] = t[j].size /\ t[j].size \in Nat
        BY <2>2, EntrySizes
    <2>8. IsFiniteSet(DOMAIN s \ {i})
        BY <1>0, FS_RemoveElement
    <2>9. TotalOf(t) <= SumFunctionOnSet(SizesOf(s), DOMAIN s \ {i})
        <3>1. /\ \A k \in DOMAIN t : SizesOf(t)[k] = SizesOf(s)[g[k]]
              /\ \A j \in DOMAIN s \ {i} : SizesOf(s)[j] \in Nat
            BY <1>0, <2>4, <2>7
        <3> QED BY <2>5, <2>6, <2>7, <2>8, <3>1, SumOverImage DEF TotalOf
    <2>10. TotalOf(s) = s[i].size + SumFunctionOnSet(SizesOf(s), DOMAIN s \ {i})
        <3>1. \A j \in DOMAIN s : SizesOf(s)[j] \in Int
            BY <1>0
        <3>2. SumFunctionOnSet(SizesOf(s), DOMAIN s)
                = SizesOf(s)[i] + SumFunctionOnSet(SizesOf(s), DOMAIN s \ {i})
            BY <1>0, <3>1, SumTakeOut
        <3> QED BY <1>0, <3>2 DEF TotalOf
    <2>11. SumFunctionOnSet(SizesOf(s), DOMAIN s \ {i}) \in Nat /\ s[i].size \in Nat
        BY <1>0, <2>8, SumType
    <2>12. TotalOf(t) <= TotalOf(s) - s[i].size /\ TotalOf(t) <= TotalOf(s)
        BY <1>0, <2>7, <2>9, <2>10, <2>11
    <2>13. /\ \A k, l \in DOMAIN t : t[k].id = t[l].id => k = l
           /\ \A k \in DOMAIN t : t[k].id # id
        BY <2>1, <2>4
    <2>14. \A j \in DOMAIN s : s[j].id = id => j = i
        BY <2>1
    <2> QED BY <2>2, <2>12, <2>13, <2>14 DEF t
<1> QED BY <1>1, <1>2, WithoutIs

\* An entry more.
LEMMA OneMore ==
    ASSUME NEW s \in Seq(Entry), NEW e \in Entry,
           \A i, j \in DOMAIN s : s[i].id = s[j].id => i = j, \A i \in DOMAIN s : s[i].id # e.id
    PROVE  /\ Append(s, e) \in Seq(Entry)
           /\ \A i, j \in DOMAIN Append(s, e) : Append(s, e)[i].id = Append(s, e)[j].id => i = j
           /\ TotalOf(Append(s, e)) = TotalOf(s) + e.size
<1> DEFINE t == Append(s, e)
           n == Len(s) + 1
<1>1. /\ t \in Seq(Entry) /\ DOMAIN t = DOMAIN s \cup {n} /\ n \notin DOMAIN s
      /\ \A k \in DOMAIN s : t[k] = s[k]
      /\ t[n] = e
    <2>1. /\ t \in Seq(Entry) /\ Len(t) = n /\ DOMAIN t = 1 .. n /\ Len(s) \in Nat
          /\ DOMAIN s = 1 .. Len(s) /\ \A k \in 1 .. Len(s) : t[k] = s[k]
          /\ t[n] = e
        BY AppendProperties
    <2> HIDE DEF t
    <2> QED BY <2>1
<1> HIDE DEF t, n
<1>2. /\ IsFiniteSet(DOMAIN s) /\ TotalOf(s) \in Nat
      /\ \A j \in DOMAIN s : SizesOf(s)[j] = s[j].size /\ s[j].size \in Nat
    BY EntrySizes
<1>3. \A j \in DOMAIN t : SizesOf(t)[j] = t[j].size /\ t[j].size \in Nat
    BY <1>1, EntrySizes
<1>4. TotalOf(t) = e.size + SumFunctionOnSet(SizesOf(t), DOMAIN s)
    <2>1. /\ \A j \in DOMAIN s : SizesOf(t)[j] \in Int
          /\ SizesOf(t)[n] \in Int /\ SizesOf(t)[n] = e.size
        BY <1>1, <1>3
    <2>2. SumFunctionOnSet(SizesOf(t), DOMAIN s \cup {n}) = SizesOf(t)[n] + SumFunctionOnSet(SizesOf(t), DOMAIN s)
        BY <1>1, <1>2, <2>1, SumAdd
    <2> QED BY <1>1, <2>1, <2>2 DEF TotalOf
<1>5. SumFunctionOnSet(SizesOf(t), DOMAIN s) = TotalOf(s)
    <2>1. \A j \in DOMAIN s : SizesOf(t)[j] = SizesOf(s)[j]
        BY <1>1, <1>2, <1>3
    <2> QED BY <1>2, <2>1, SumSame DEF TotalOf
<1>6. \A i, j \in DOMAIN t : t[i].id = t[j].id => i = j
    BY <1>1
<1>7. e.size \in Nat
    BY <1>1, <1>3
<1> QED BY <1>1, <1>2, <1>4, <1>5, <1>6, <1>7 DEF t

\* Whatever charges at least as much more as the cache costs more is covered.
LEMMA ChargeKept ==
    ASSUME NEW cache \in Seq(Entry), NEW total \in Nat, total = TotalOf(cache),
           NEW charge \in Nat, charge <= MaxCharge, UNCHANGED textureCache,
           gpuCache' = cache, preloadCharge' = charge, ChargeInv,
           \A i, j \in DOMAIN cache : cache[i].id = cache[j].id => i = j,
           charge - total >= preloadCharge - TotalOf(gpuCache)
    PROVE  ChargeInv'
<1>1. preloadCharge >= TotalOf(gpuCache) /\ TotalOf(gpuCache) \in Nat /\ preloadCharge \in Nat
    BY Covering, EntrySizes DEF ChargeInv
<1>2. charge >= total
    BY <1>1
<1>3. Graphics!ChargeCovers'
    BY <1>2, EntriesSum DEF Graphics!ChargeCovers, TotalOf
<1> QED BY <1>3, GraphicsAssumption DEF ChargeInv

\* Priority is no matter of size.
LEMMA PriorityCharge ==
    ASSUME ChargeInv, NEW id \in ResourceIds, NEW isPriority \in BOOLEAN,
           Graphics!SetCachePriority(id, isPriority)
    PROVE  ChargeInv'
<1>1. gpuCache' = [j \in DOMAIN gpuCache |->
          IF gpuCache[j].id = id THEN [gpuCache[j] EXCEPT !.isPriority = isPriority] ELSE gpuCache[j]]
    BY DEF Graphics!SetCachePriority
<1>2. \A j \in DOMAIN gpuCache : gpuCache[j] \in Entry
    BY DEF ChargeInv
<1>3. \A j \in DOMAIN gpuCache : /\ gpuCache'[j] \in Entry
                                 /\ gpuCache'[j].id = gpuCache[j].id
                                 /\ gpuCache'[j].size = gpuCache[j].size
    BY <1>1, <1>2 DEF Entry
<1>4. gpuCache' \in Seq(Entry) /\ DOMAIN gpuCache' = DOMAIN gpuCache
    <2>1. DOMAIN gpuCache = 1 .. Len(gpuCache) /\ Len(gpuCache) \in Nat
        BY DEF ChargeInv
    <2>2. gpuCache' = [j \in 1 .. Len(gpuCache) |-> gpuCache'[j]]
        BY <1>1, <2>1
    <2> QED BY <1>1, <1>3, <2>1, <2>2
<1>5. TotalOf(gpuCache') = TotalOf(gpuCache)
    <2>1. \A j \in DOMAIN gpuCache : SizesOf(gpuCache')[j] = SizesOf(gpuCache)[j]
        BY <1>3, <1>4 DEF SizesOf
    <2>2. IsFiniteSet(DOMAIN gpuCache)
        BY EntrySizes DEF ChargeInv
    <2> QED BY <1>4, <2>1, <2>2, SumSame DEF TotalOf
<1>6. TotalOf(gpuCache) \in Nat
    BY EntrySizes DEF ChargeInv
<1>7. /\ UNCHANGED textureCache /\ preloadCharge' = preloadCharge
      /\ preloadCharge \in Nat /\ preloadCharge <= MaxCharge
    BY GraphicsAssumption DEF Graphics!SetCachePriority, Graphics!textureVars, ChargeInv
<1>8. \A i, j \in DOMAIN gpuCache' : gpuCache'[i].id = gpuCache'[j].id => i = j
    BY <1>3, <1>4 DEF ChargeInv
<1> QED BY <1>4, <1>5, <1>6, <1>7, <1>8, ChargeKept

\* What evicting takes off the charge is the size of the entry that goes, if one goes.
LEMMA TargetCosts ==
    ASSUME ChargeInv
    PROVE  LET kept == IF Graphics!Target # 0 THEN Graphics!Without(gpuCache, Graphics!Target)
                                              ELSE gpuCache
           IN  /\ kept \in Seq(Entry)
               /\ \A i, j \in DOMAIN kept : kept[i].id = kept[j].id => i = j
               /\ Graphics!TargetSize \in Nat
               /\ TotalOf(kept) <= TotalOf(gpuCache) - Graphics!TargetSize
<1> DEFINE target == Graphics!Target
           positions == {j \in DOMAIN gpuCache : gpuCache[j].id = target /\ target # 0}
<1>1. Graphics!TargetSize = SumFunctionOnSet(SizesOf(gpuCache), positions)
    BY EntriesSum DEF Graphics!TargetSize
<1>2. /\ gpuCache \in Seq(Entry) /\ IsFiniteSet(DOMAIN gpuCache) /\ TotalOf(gpuCache) \in Nat
      /\ \A j \in DOMAIN gpuCache : SizesOf(gpuCache)[j] = gpuCache[j].size /\ gpuCache[j].size \in Nat
      /\ \A i, j \in DOMAIN gpuCache : gpuCache[i].id = gpuCache[j].id => i = j
    BY EntrySizes DEF ChargeInv
<1>3. CASE positions = {}
    <2>1. Graphics!TargetSize = 0
        <3> HIDE DEF positions
        <3> QED BY <1>1, <1>3, SumEmpty
    <2>2. target # 0 => /\ Graphics!Without(gpuCache, target) \in Seq(Entry)
                        /\ LET t == Graphics!Without(gpuCache, target) IN
                              \A i, j \in DOMAIN t : t[i].id = t[j].id => i = j
                        /\ TotalOf(Graphics!Without(gpuCache, target)) <= TotalOf(gpuCache)
        <3> HIDE DEF target
        <3> QED BY <1>2, WithoutCosts
    <2>3. target # 0 => TotalOf(Graphics!Without(gpuCache, target)) \in Nat
        BY <2>2, EntrySizes
    <2> HIDE DEF target
    <2> QED BY <1>2, <2>1, <2>2, <2>3 DEF target
<1>4. CASE positions # {}
    <2>1. PICK i \in DOMAIN gpuCache : gpuCache[i].id = target /\ target # 0
        BY <1>4
    <2>2. positions = {i}
        BY <1>2, <2>1
    <2> HIDE DEF positions, target
    <2>3. Graphics!TargetSize = gpuCache[i].size
        <3>1. SumFunctionOnSet(SizesOf(gpuCache), {i})
                = SizesOf(gpuCache)[i] + SumFunctionOnSet(SizesOf(gpuCache), {i} \ {i})
            <4>1. IsFiniteSet({i})
                BY <1>2, FS_Subset
            <4>2. \A j \in {i} : SizesOf(gpuCache)[j] \in Int
                BY <1>2
            <4> QED BY <4>1, <4>2, SumTakeOut
        <3>2. SumFunctionOnSet(SizesOf(gpuCache), {i} \ {i}) = 0
            <4>1. {i} \ {i} = {}
                OBVIOUS
            <4> QED BY <4>1, SumEmpty
        <3> QED BY <1>1, <1>2, <2>2, <3>1, <3>2
    <2> DEFINE t == Graphics!Without(gpuCache, target)
    <2>4. /\ t \in Seq(Entry)
          /\ \A k, j \in DOMAIN t : t[k].id = t[j].id => k = j
          /\ TotalOf(t) <= TotalOf(gpuCache) - gpuCache[i].size
        BY <1>2, <2>1, WithoutCosts
    <2> HIDE DEF t
    <2> QED BY <1>2, <2>1, <2>3, <2>4 DEF t, target
<1> QED BY <1>3, <1>4

\* A preloaded resource is charged; what was evicted for it is not any more, and what it
\* replaces still is.
LEMMA PreloadCharge ==
    ASSUME ChargeInv, NEW id \in ResourceIds, NEW size \in ResourceSizes,
           Graphics!PreloadResource(id, size)
    PROVE  ChargeInv'
<1> DEFINE full == (Graphics!CurrentCacheSize + size) % WordSize > CacheSize
           kept == IF full /\ Graphics!Target # 0 THEN Graphics!Without(gpuCache, Graphics!Target)
                                                  ELSE gpuCache
           given == IF full THEN Graphics!TargetSize ELSE 0
           entry == [id |-> id, size |-> size, isPriority |-> FALSE]
<1>1. /\ gpuCache' = Append(Graphics!Without(kept, id), entry)
      /\ preloadCharge' = preloadCharge - given + size
      /\ preloadCharge + size <= MaxCharge /\ UNCHANGED textureCache
    BY DEF Graphics!PreloadResource, Graphics!textureVars
<1>2. TotalOf(gpuCache) \in Nat /\ gpuCache \in Seq(Entry) /\ preloadCharge \in Nat /\ size \in Nat
      /\ \A i, j \in DOMAIN gpuCache : gpuCache[i].id = gpuCache[j].id => i = j
    BY EntrySizes, GraphicsAssumption DEF ChargeInv
<1>3. /\ kept \in Seq(Entry)
      /\ \A i, j \in DOMAIN kept : kept[i].id = kept[j].id => i = j
      /\ given \in Nat
      /\ TotalOf(kept) <= TotalOf(gpuCache) - given
    <2>1. CASE full
        BY <2>1, TargetCosts
    <2>2. CASE ~ full
        BY <1>2, <2>2
    <2> QED BY <2>1, <2>2
<1>4. entry \in Entry /\ entry.id = id /\ entry.size = size
    BY DEF Entry
<1> HIDE DEF kept, given, entry
<1> DEFINE rest == Graphics!Without(kept, id)
<1>5. /\ rest \in Seq(Entry)
      /\ \A i, j \in DOMAIN rest : rest[i].id = rest[j].id => i = j
      /\ \A i \in DOMAIN rest : rest[i].id # id
      /\ TotalOf(rest) <= TotalOf(kept)
    BY <1>3, WithoutCosts
<1> HIDE DEF rest
<1>6. /\ gpuCache' \in Seq(Entry)
      /\ \A i, j \in DOMAIN gpuCache' : gpuCache'[i].id = gpuCache'[j].id => i = j
      /\ TotalOf(gpuCache') = TotalOf(rest) + size
    BY <1>1, <1>4, <1>5, OneMore DEF rest
<1>7. TotalOf(rest) \in Nat /\ TotalOf(kept) \in Nat /\ TotalOf(gpuCache') \in Nat
    BY <1>3, <1>5, <1>6, EntrySizes
<1>8. preloadCharge >= TotalOf(gpuCache)
    BY Covering DEF ChargeInv
<1>9. /\ preloadCharge' \in Nat /\ preloadCharge' <= MaxCharge
      /\ preloadCharge' - TotalOf(gpuCache') >= preloadCharge - TotalOf(gpuCache)
    <2>1. ASSUME NEW c \in Nat, NEW all \in Nat, NEW keptTotal \in Nat, NEW restTotal \in Nat,
                 NEW gone \in Nat, NEW more \in Nat,
                 c >= all, keptTotal <= all - gone, restTotal <= keptTotal, c + more <= MaxCharge
          PROVE  /\ c - gone + more \in Nat /\ c - gone + more <= MaxCharge
                 /\ (c - gone + more) - (restTotal + more) >= c - all
        BY <2>1, GraphicsAssumption
    <2> DEFINE all == TotalOf(gpuCache)
               keptTotal == TotalOf(kept)
               restTotal == TotalOf(rest)
    <2>2. /\ preloadCharge \in Nat /\ all \in Nat /\ keptTotal \in Nat /\ restTotal \in Nat
          /\ given \in Nat /\ size \in Nat
        BY <1>2, <1>3, <1>7
    <2>3. /\ preloadCharge >= all /\ keptTotal <= all - given
          /\ restTotal <= keptTotal /\ preloadCharge + size <= MaxCharge
        BY <1>1, <1>3, <1>5, <1>8
    <2>4. TotalOf(gpuCache') = restTotal + size
        BY <1>6
    <2> HIDE DEF all, keptTotal, restTotal
    <2>5. /\ preloadCharge - given + size \in Nat /\ preloadCharge - given + size <= MaxCharge
          /\ (preloadCharge - given + size) - (restTotal + size) >= preloadCharge - all
        BY <2>1, <2>2, <2>3
    <2> QED BY <1>1, <2>4, <2>5 DEF all
<1> QED BY <1>1, <1>6, <1>7, <1>9, ChargeKept

\* Steps that leave what is preloaded alone.
LEMMA SameEntries ==
    ASSUME ChargeInv, UNCHANGED <<gpuCache, preloadCharge>>, textureCache' \subseteq TexturePaths
    PROVE  ChargeInv'
BY DEF ChargeInv, Graphics!ChargeCovers, Graphics!TotalSize

\* Every operation of the graphics resource manager keeps what is preloaded charged.
LEMMA ChargeSteps == ChargeInv /\ Graphics!Next => ChargeInv'
<1> SUFFICES ASSUME ChargeInv, Graphics!Next PROVE ChargeInv'
    OBVIOUS
<1>1. ASSUME NEW id \in ResourceIds, NEW isPriority \in BOOLEAN, Graphics!SetCachePriority(id, isPriority)
      PROVE  ChargeInv'
    BY <1>1, PriorityCharge
<1>2. ASSUME NEW id \in ResourceIds, NEW size \in ResourceSizes, Graphics!PreloadResource(id, size)
      PROVE  ChargeInv'
    BY <1>2, PreloadCharge
<1>3. ASSUME \/ \E path \in TexturePaths : Graphics!LoadCached(path) \/ Graphics!Timeout(path)
             \/ Graphics!CollectGarbage
             \/ Graphics!AllocateGameResources
             \/ Graphics!OptimizeMemoryAllocation
      PROVE  ChargeInv'
    <2>1. UNCHANGED <<gpuCache, preloadCharge, textureCache>>
        BY <1>3 DEF Graphics!LoadCached, Graphics!Timeout, Graphics!CollectGarbage,
           Graphics!AllocateGameResources, Graphics!OptimizeMemoryAllocation,
           Graphics!cacheVars, Graphics!textureVars
    <2> QED BY <2>1, SameEntries DEF ChargeInv
<1>4. ASSUME NEW path \in TexturePaths, NEW isInUse \in BOOLEAN, NEW isPriority \in BOOLEAN,
             Graphics!LoadNew(path, isInUse, isPriority)
      PROVE  ChargeInv'
    BY <1>4, SameEntries DEF ChargeInv, Graphics!LoadNew, Graphics!cacheVars
<1> QED BY <1>1, <1>2, <1>3, <1>4 DEF Graphics!Next

\* At first there is nothing to charge.
LEMMA ChargeInit == Graphics!Init => ChargeInv
<1> SUFFICES ASSUME Graphics!Init PROVE ChargeInv
    OBVIOUS
<1>1. gpuCache = <<>> /\ preloadCharge = 0 /\ textureCache = {}
    BY DEF Graphics!Init
<1>2. gpuCache \in Seq(Entry) /\ DOMAIN gpuCache = {}
    BY <1>1
<1>3. TotalOf(gpuCache) = 0
    BY <1>2, SumEmpty DEF TotalOf
<1>4. Graphics!ChargeCovers
    BY <1>1, <1>3, Covering
<1> QED BY <1>1, <1>2, <1>4, GraphicsAssumption DEF ChargeInv

\* The other managers' steps change no charge.
LEMMA ChargeStill == ChargeInv /\ UNCHANGED graphicsVars => ChargeInv'
BY SameEntries DEF graphicsVars, ChargeInv

\* So the types are as stated.
LEMMA GraphicsTyped == GraphicsInv /\ ChargeInv => Graphics!TypeOK
<1> SUFFICES ASSUME GraphicsInv, ChargeInv PROVE Graphics!TypeOK
    OBVIOUS
<1>1. \A j \in DOMAIN gpuCache : gpuCache[j].id \in ResourceIds
    <2>1. \A j \in DOMAIN gpuCache : gpuCache[j] \in Entry
        BY DEF ChargeInv
    <2> QED BY <2>1 DEF Entry
<1>2. infos \subseteq TexturePaths \X (0 .. 1)
    <2>1. ASSUME NEW p \in DOMAIN trackers
          PROVE  trackers[p].handle \in TexturePaths \X (0 .. 1)
        BY DEF GraphicsInv, ChargeInv, Tracker
    <2> QED BY <2>1 DEF GraphicsInv, Graphics!TrackersHaveInfos
<1> QED BY <1>1, <1>2 DEF GraphicsInv, ChargeInv, Graphics!TypeOK

-----------------------------------------------------------------------------
\* Game memory and graphics resources.

\* A resource is a record, and every block has its owner.
GameInv ==
    /\ \A n \in DOMAIN resources : resources[n] \in [data : Pointers, isLocked : BOOLEAN]
    /\ Memory!HeapOwned

\* At first nothing is allocated.
LEMMA GameInit == Memory!GameInit => GameInv
BY DEF Memory!GameInit, GameInv, Memory!HeapOwned, Memory!Data

\* The other managers' steps touch no game memory.
LEMMA GameStill == GameInv /\ UNCHANGED gameVars => GameInv'
BY DEF GameInv, Memory!HeapOwned, Memory!Data, gameVars

\* malloc returns no block that is in use, so the new block has one owner.
LEMMA AllocateGameInv ==
    ASSUME GameInv, NEW ptr \in Pointers, NEW size, Memory!AllocateGameMemory(ptr, size)
    PROVE  GameInv'
<1>1. /\ ptr \notin DOMAIN memoryMap /\ ptr \notin Memory!Data \cup overwritten
      /\ heap' = heap \cup {ptr} /\ UNCHANGED <<resources, overwritten>>
      /\ allocations' = memoryMap' /\ DOMAIN memoryMap' = DOMAIN memoryMap \cup {ptr}
    BY DEF GameInv, Memory!HeapOwned, Memory!AllocateGameMemory, Memory!Put, Memory!resourceVars
<1>2. Memory!Data' = Memory!Data
    BY <1>1 DEF Memory!Data
<1> QED BY <1>1, <1>2 DEF GameInv, Memory!HeapOwned

\* A block that is freed leaves both records and the heap.
LEMMA FreeGameInv ==
    ASSUME GameInv, NEW ptr \in Pointers, Memory!FreeGameMemory(ptr)
    PROVE  GameInv'
<1>1. ptr \in DOMAIN memoryMap /\ ptr \in DOMAIN allocations
    BY DEF GameInv, Memory!HeapOwned, Memory!FreeGameMemory
<1>2. /\ heap' = heap \ {ptr} /\ UNCHANGED <<resources, overwritten>>
      /\ allocations' = memoryMap' /\ DOMAIN memoryMap' = DOMAIN memoryMap \ {ptr}
    BY <1>1 DEF GameInv, Memory!HeapOwned, Memory!FreeGameMemory, Memory!Deallocate,
       Memory!Erased, Memory!resourceVars
<1>3. Memory!Data' = Memory!Data
    BY <1>2 DEF Memory!Data
<1> QED BY <1>1, <1>2, <1>3 DEF GameInv, Memory!HeapOwned

\* A name that is used again leaves its block to nobody, and no other name had it.
LEMMA AllocateResourceInv ==
    ASSUME GameInv, NEW name, NEW ptr \in Pointers, Memory!AllocateGraphicsResource(name, ptr)
    PROVE  GameInv'
<1>1. /\ ptr \notin DOMAIN memoryMap /\ ptr \notin Memory!Data \cup overwritten
      /\ heap' = heap \cup {ptr} /\ UNCHANGED <<allocations, memoryMap>>
    BY DEF GameInv, Memory!HeapOwned, Memory!AllocateGraphicsResource, Memory!recordVars
<1>2. /\ DOMAIN resources' = DOMAIN resources \cup {name}
      /\ resources'[name] = [data |-> ptr, isLocked |-> FALSE]
      /\ \A n \in DOMAIN resources \ {name} : resources'[n] = resources[n]
    BY DEF Memory!AllocateGraphicsResource, Memory!Put
<1>3. /\ resources'[name].data = ptr
      /\ \A n \in DOMAIN resources' : resources'[n] \in [data : Pointers, isLocked : BOOLEAN]
    <2>1. resources'[name] \in [data : Pointers, isLocked : BOOLEAN] /\ resources'[name].data = ptr
        BY <1>2
    <2>2. \A n \in DOMAIN resources : resources[n] \in [data : Pointers, isLocked : BOOLEAN]
        BY DEF GameInv
    <2>3. ASSUME NEW n \in DOMAIN resources'
          PROVE  resources'[n] \in [data : Pointers, isLocked : BOOLEAN]
        <3>1. CASE n = name
            BY <2>1, <3>1
        <3>2. CASE n # name
            <4>1. n \in DOMAIN resources /\ resources'[n] = resources[n]
                BY <1>2, <2>3, <3>2
            <4> QED BY <2>2, <4>1
        <3> QED BY <3>1, <3>2
    <2> QED BY <2>1, <2>3
<1>4. \A n, m \in DOMAIN resources' : resources'[n].data = resources'[m].data => n = m
    BY <1>1, <1>2, <1>3 DEF GameInv, Memory!HeapOwned, Memory!Data
<1>5. CASE name \in DOMAIN resources
    <2>1. overwritten' = overwritten \cup {resources[name].data}
        BY <1>5 DEF Memory!AllocateGraphicsResource
    <2>2. Memory!Data' = (Memory!Data \ {resources[name].data}) \cup {ptr}
        BY <1>2, <1>3, <1>5 DEF Memory!Data, GameInv, Memory!HeapOwned
    <2>3. resources[name].data \in Memory!Data
        BY <1>5 DEF Memory!Data
    <2> QED BY <1>1, <1>3, <1>4, <2>1, <2>2, <2>3 DEF GameInv, Memory!HeapOwned
<1>6. CASE name \notin DOMAIN resources
    <2>1. overwritten' = overwritten
        BY <1>6 DEF Memory!AllocateGraphicsResource
    <2>2. Memory!Data' = Memory!Data \cup {ptr}
        BY <1>2, <1>3, <1>6 DEF Memory!Data
    <2> QED BY <1>1, <1>3, <1>4, <2>1, <2>2 DEF GameInv, Memory!HeapOwned
<1> QED BY <1>5, <1>6

\* A lock says nothing of where the data is.
LEMMA LockInv ==
    ASSUME GameInv, NEW name, NEW locked \in BOOLEAN, Memory!SetLocked(name, locked)
    PROVE  GameInv'
<1>1. /\ name \in DOMAIN resources /\ resources' = [resources EXCEPT ![name].isLocked = locked]
      /\ UNCHANGED <<heap, allocations, memoryMap, overwritten>>
    BY DEF Memory!SetLocked, Memory!recordVars
<1>2. /\ DOMAIN resources' = DOMAIN resources
      /\ \A n \in DOMAIN resources : /\ resources'[n] \in [data : Pointers, isLocked : BOOLEAN]
                                     /\ resources'[n].data = resources[n].data
    BY <1>1 DEF GameInv
<1>3. Memory!Data' = Memory!Data
    BY <1>2 DEF Memory!Data
<1> QED BY <1>1, <1>2, <1>3 DEF GameInv, Memory!HeapOwned

\* Every operation of the game memory manager leaves each block with one owner.
LEMMA GameSteps == GameInv /\ Memory!GameNext => GameInv'
BY AllocateGameInv, FreeGameInv, AllocateResourceInv, LockInv
   DEF Memory!GameNext, Memory!LockGraphicsResource, Memory!UnlockGraphicsResource

\* The sizes recorded are those that were asked for, and their sum is the total.
TotalInv ==
    /\ IsFiniteSet(DOMAIN memoryMap) /\ \A p \in DOMAIN memoryMap : memoryMap[p] \in Nat
    /\ Memory!TotalsAgree
    /\ Memory!TypeOK

\* What the properties call the total of the record.
LEMMA TotalIsSum ==
    ASSUME NEW f
    PROVE  Memory!SumFunction(f) = SumFunctionOnSet(f, DOMAIN f)
BY SameSum DEF Memory!SumFunction

\* At first nothing is allocated, and that adds up.
LEMMA TotalInit == Memory!GameInit => TotalInv
<1> SUFFICES ASSUME Memory!GameInit PROVE TotalInv
    OBVIOUS
<1>1. /\ DOMAIN memoryMap = {} /\ totalAllocated = 0 /\ peakUsage = 0
      /\ heap = {} /\ overwritten = {} /\ DOMAIN resources = {}
    BY DEF Memory!GameInit
<1>2. Memory!SumFunction(memoryMap) = 0
    BY <1>1, TotalIsSum, SumEmpty
<1> QED BY <1>1, <1>2, FS_EmptySet DEF TotalInv, Memory!TotalsAgree, Memory!TypeOK

\* The other managers' steps allocate no game memory.
LEMMA TotalStill == TotalInv /\ UNCHANGED gameVars => TotalInv'
<1> SUFFICES ASSUME TotalInv, UNCHANGED gameVars PROVE TotalInv'
    OBVIOUS
<1>1. Memory!SumFunction(memoryMap)' = Memory!SumFunction(memoryMap)
    BY TotalIsSum DEF gameVars
<1> QED BY <1>1 DEF TotalInv, Memory!TotalsAgree, Memory!TypeOK, gameVars

\* A block more: its size is added to the total, which the peak follows.
LEMMA AllocateTotal ==
    ASSUME GameInv, TotalInv, NEW ptr \in Pointers, NEW size \in GameSizes,
           Memory!AllocateGameMemory(ptr, size)
    PROVE  TotalInv'
<1>1. /\ ptr \notin DOMAIN memoryMap /\ DOMAIN memoryMap' = DOMAIN memoryMap \cup {ptr}
      /\ memoryMap'[ptr] = size /\ \A p \in DOMAIN memoryMap : memoryMap'[p] = memoryMap[p]
      /\ totalAllocated' = totalAllocated + size /\ size \in Nat
      /\ peakUsage' = IF totalAllocated' > peakUsage THEN totalAllocated' ELSE peakUsage
      /\ heap' = heap \cup {ptr} /\ UNCHANGED <<resources, overwritten>>
    BY GraphicsAssumption
       DEF GameInv, Memory!HeapOwned, Memory!AllocateGameMemory, Memory!Put, Memory!resourceVars
<1>2. /\ IsFiniteSet(DOMAIN memoryMap) /\ IsFiniteSet(DOMAIN memoryMap')
      /\ \A p \in DOMAIN memoryMap' : memoryMap'[p] \in Nat
    BY <1>1, FS_AddElement DEF TotalInv
<1>3. SumFunctionOnSet(memoryMap', DOMAIN memoryMap')
        = size + SumFunctionOnSet(memoryMap, DOMAIN memoryMap)
    <2>1. SumFunctionOnSet(memoryMap', DOMAIN memoryMap \cup {ptr})
            = memoryMap'[ptr] + SumFunctionOnSet(memoryMap', DOMAIN memoryMap)
        <3>1. (\A p \in DOMAIN memoryMap : memoryMap'[p] \in Int) /\ memoryMap'[ptr] \in Int
            BY <1>1, <1>2
        <3> QED BY <1>1, <1>2, <3>1, SumAdd
    <2>2. SumFunctionOnSet(memoryMap', DOMAIN memoryMap) = SumFunctionOnSet(memoryMap, DOMAIN memoryMap)
        BY <1>1, <1>2, SumSame
    <2> QED BY <1>1, <2>1, <2>2
<1>4. /\ totalAllocated = SumFunctionOnSet(memoryMap, DOMAIN memoryMap)
      /\ totalAllocated \in Nat /\ peakUsage \in Nat /\ peakUsage >= totalAllocated
    BY TotalIsSum DEF TotalInv, Memory!TotalsAgree, Memory!TypeOK
<1>5. totalAllocated' = SumFunctionOnSet(memoryMap', DOMAIN memoryMap')
    BY <1>1, <1>3, <1>4
<1>6. totalAllocated' \in Nat /\ peakUsage' \in Nat /\ peakUsage' >= totalAllocated'
    BY <1>1, <1>4
<1> QED BY <1>1, <1>2, <1>5, <1>6, TotalIsSum DEF TotalInv, Memory!TotalsAgree, Memory!TypeOK

\* A block less: what was recorded for it is taken off.
LEMMA FreeTotal ==
    ASSUME GameInv, TotalInv, NEW ptr \in Pointers, Memory!FreeGameMemory(ptr)
    PROVE  TotalInv'
<1>1. /\ ptr \in DOMAIN memoryMap /\ DOMAIN memoryMap' = DOMAIN memoryMap \ {ptr}
      /\ \A p \in DOMAIN memoryMap' : memoryMap'[p] = memoryMap[p]
      /\ totalAllocated' = totalAllocated - memoryMap[ptr] /\ UNCHANGED <<peakUsage, resources, overwritten>>
      /\ heap' \subseteq heap
    BY DEF Memory!FreeGameMemory, Memory!Deallocate, Memory!Erased, Memory!resourceVars
<1>2. /\ IsFiniteSet(DOMAIN memoryMap) /\ IsFiniteSet(DOMAIN memoryMap')
      /\ \A p \in DOMAIN memoryMap : memoryMap[p] \in Nat
    BY <1>1, FS_RemoveElement DEF TotalInv
<1>3. SumFunctionOnSet(memoryMap, DOMAIN memoryMap)
        = memoryMap[ptr] + SumFunctionOnSet(memoryMap', DOMAIN memoryMap')
    <2>1. SumFunctionOnSet(memoryMap, DOMAIN memoryMap)
            = memoryMap[ptr] + SumFunctionOnSet(memoryMap, DOMAIN memoryMap \ {ptr})
        BY <1>1, <1>2, SumTakeOut
    <2>2. SumFunctionOnSet(memoryMap', DOMAIN memoryMap') = SumFunctionOnSet(memoryMap, DOMAIN memoryMap')
        BY <1>1, <1>2, SumSame
    <2> QED BY <1>1, <2>1, <2>2
<1>4. SumFunctionOnSet(memoryMap', DOMAIN memoryMap') \in Nat /\ memoryMap[ptr] \in Nat
    BY <1>1, <1>2, SumType
<1>5. /\ totalAllocated = SumFunctionOnSet(memoryMap, DOMAIN memoryMap)
      /\ totalAllocated \in Nat /\ peakUsage \in Nat /\ peakUsage >= totalAllocated
    BY TotalIsSum DEF TotalInv, Memory!TotalsAgree, Memory!TypeOK
<1>6. totalAllocated' = SumFunctionOnSet(memoryMap', DOMAIN memoryMap')
    BY <1>1, <1>3, <1>4, <1>5
<1>7. totalAllocated' \in Nat /\ peakUsage' >= totalAllocated'
    BY <1>1, <1>3, <1>4, <1>5
<1> QED BY <1>1, <1>2, <1>5, <1>6, <1>7, TotalIsSum DEF TotalInv, Memory!TotalsAgree, Memory!TypeOK

\* Resources are not counted.
LEMMA ResourceTotal ==
    ASSUME GameInv, TotalInv, NEW name \in ResourceNames,
           \/ \E ptr \in Pointers : Memory!AllocateGraphicsResource(name, ptr)
           \/ \E locked \in BOOLEAN : Memory!SetLocked(name, locked)
    PROVE  TotalInv'
<1>1. /\ UNCHANGED <<memoryMap, totalAllocated, peakUsage>>
      /\ heap' \subseteq Pointers /\ overwritten' \subseteq Pointers /\ DOMAIN resources' \subseteq ResourceNames
    <2>1. CASE \E ptr \in Pointers : Memory!AllocateGraphicsResource(name, ptr)
        <3>1. PICK ptr \in Pointers : Memory!AllocateGraphicsResource(name, ptr)
            BY <2>1
        <3>2. \A n \in DOMAIN resources : resources[n].data \in Pointers
            BY DEF GameInv
        <3> QED BY <3>1, <3>2
               DEF Memory!AllocateGraphicsResource, Memory!recordVars, Memory!Put, TotalInv, Memory!TypeOK
    <2>2. CASE \E locked \in BOOLEAN : Memory!SetLocked(name, locked)
        BY <2>2 DEF Memory!SetLocked, Memory!recordVars, TotalInv, Memory!TypeOK
    <2> QED BY <2>1, <2>2
<1>2. Memory!SumFunction(memoryMap)' = Memory!SumFunction(memoryMap)
    BY <1>1, TotalIsSum
<1> QED BY <1>1, <1>2 DEF TotalInv, Memory!TotalsAgree, Memory!TypeOK

\* Every operation of the game memory manager keeps its books.
LEMMA TotalSteps == GameInv /\ TotalInv /\ Memory!GameNext => TotalInv'
BY AllocateTotal, FreeTotal, ResourceTotal
   DEF Memory!GameNext, Memory!LockGraphicsResource, Memory!UnlockGraphicsResource

-----------------------------------------------------------------------------
\* Pages of two sizes.

\* Where a block starts and how many units it has.
HugeInv ==
    /\ bitmap \subseteq Memory!Pages
    /\ \A r \in regions :
          /\ r \in [address : Nat, size : Sizes]
          /\ \E s \in Memory!Pages :
                LET unit == Memory!UnitFor(r.size)
                IN  /\ r.address = MemoryStart + s * unit
                    /\ Memory!Extent(s, Memory!PageCount(r.size, unit)) \subseteq bitmap
    /\ Memory!SmallPagesApart

\* At first every page is free.
LEMMA HugeInit == Memory!HugeInit => HugeInv
BY SameCardinality, FS_EmptySet, ResourcesAssumption DEF Memory!HugeInit, HugeInv, Memory!SmallPagesApart

\* The other managers' steps touch no page.
LEMMA HugeStill == HugeInv /\ UNCHANGED hugeVars => HugeInv'
BY SameCardinality DEF HugeInv, Memory!SmallPagesApart, hugeVars

\* A number of units that holds the bytes asked for, and at least one.
LEMMA Units ==
    ASSUME NEW size \in Sizes
    PROVE  LET unit == Memory!UnitFor(size) IN
           /\ unit \in Nat \ {0} /\ size \in Nat \ {0}
           /\ Memory!PageCount(size, unit) \in Nat \ {0}
           /\ Memory!PageCount(size, unit) * unit >= size
<1> DEFINE unit == Memory!UnitFor(size)
           count == Memory!PageCount(size, unit)
<1>1. unit \in Nat \ {0} /\ size \in Nat \ {0}
    BY ResourcesAssumption DEF Memory!UnitFor
<1>2. count = (size + unit - 1) \div unit
    BY DEF Memory!PageCount
<1> HIDE DEF unit, count
<1>3. count \in Nat /\ count * unit >= size
    BY <1>1, <1>2
<1>4. count # 0
    BY <1>1, <1>3
<1> QED BY <1>1, <1>3, <1>4 DEF unit, count

\* Of two blocks of one unit, the one that starts behind the other's pages starts behind
\* its bytes.
LEMMA Behind ==
    ASSUME NEW s \in Nat, NEW t \in Nat, NEW count \in Nat, NEW unit \in Nat, NEW size \in Nat,
           NEW start \in Nat, s + count <= t, count * unit >= size
    PROVE  start + s * unit + size <= start + t * unit
<1>1. (s + count) * unit <= t * unit
    OBVIOUS
<1>2. (s + count) * unit = s * unit + count * unit
    OBVIOUS
<1>3. s * unit \in Nat /\ t * unit \in Nat /\ count * unit \in Nat
    OBVIOUS
<1> QED BY <1>1, <1>2, <1>3

\* The pages of a new block were clear, so its bytes are apart from those of every block of
\* its unit, though the bits of the other unit lie between them.
LEMMA AllocateInv == ASSUME HugeInv, Memory!AllocateMemory PROVE HugeInv'
<1>1. PICK size \in Sizes : Memory!Allocate(size, Memory!UnitFor(size))
    BY DEF Memory!AllocateMemory
<1> DEFINE unit == Memory!UnitFor(size)
           count == Memory!PageCount(size, unit)
<1>2. PICK s \in Memory!Pages :
          /\ Memory!FirstFit(s, count, bitmap)
          /\ bitmap' = bitmap \cup Memory!Extent(s, count)
          /\ freePages' = freePages - count
          /\ regions' = regions \cup {[address |-> MemoryStart + s * unit, size |-> size]}
    BY <1>1 DEF Memory!Allocate
<1> DEFINE block == [address |-> MemoryStart + s * unit, size |-> size]
<1>3. /\ unit \in Nat \ {0} /\ size \in Nat \ {0} /\ count \in Nat \ {0} /\ count * unit >= size
    BY Units
<1>4. s \in Nat /\ s + count <= TotalPages /\ Memory!Extent(s, count) \cap bitmap = {}
    BY <1>2 DEF Memory!FirstFit, Memory!Fits, Memory!Pages
<1>5. MemoryStart \in Nat /\ TotalPages \in Nat /\ Sizes \subseteq Nat
    BY ResourcesAssumption
<1>6. block.size = size /\ block.address = MemoryStart + s * unit /\ block.address \in Nat
    <2> HIDE DEF unit, count
    <2> QED BY <1>3, <1>4, <1>5
<1>7. bitmap' \subseteq Memory!Pages
    <2> HIDE DEF unit, count
    <2> QED BY <1>2, <1>3, <1>4, <1>5 DEF HugeInv, Memory!Pages, Memory!Extent
<1>8. \A r \in regions' :
         /\ r \in [address : Nat, size : Sizes]
         /\ \E t \in Memory!Pages :
               LET u == Memory!UnitFor(r.size)
               IN  /\ r.address = MemoryStart + t * u
                   /\ Memory!Extent(t, Memory!PageCount(r.size, u)) \subseteq bitmap'
    <2>1. block \in [address : Nat, size : Sizes]
        BY <1>6
    <2> QED BY <1>2, <1>6, <2>1 DEF HugeInv
<1>9. freePages' = TotalPages - Memory!Cardinality(bitmap')
    <2> HIDE DEF unit, count
    <2>1. IsFiniteSet(bitmap)
        <3>1. IsFiniteSet(0 .. TotalPages - 1)
            BY <1>5, FS_Interval
        <3>2. bitmap \in SUBSET (0 .. TotalPages - 1)
            BY DEF HugeInv, Memory!Pages
        <3> QED BY <3>1, <3>2, FS_Subset
    <2>2. IsFiniteSet(Memory!Extent(s, count)) /\ Cardinality(Memory!Extent(s, count)) = count
        <3>1. s \in Int /\ s + count - 1 \in Int
            BY <1>3, <1>4
        <3>2. /\ IsFiniteSet(s .. s + count - 1)
              /\ Cardinality(s .. s + count - 1) = IF s > s + count - 1 THEN 0
                                                   ELSE (s + count - 1) - s + 1
            BY <3>1, FS_Interval
        <3> QED BY <1>3, <1>4, <3>2 DEF Memory!Extent
    <2>3. Cardinality(bitmap \cap Memory!Extent(s, count)) = 0
        BY <1>4, FS_EmptySet
    <2>4. Cardinality(bitmap') = Cardinality(bitmap) + count
        <3>1. Cardinality(bitmap \cup Memory!Extent(s, count)) =
                  Cardinality(bitmap) + count - Cardinality(bitmap \cap Memory!Extent(s, count))
            BY <2>1, <2>2, FS_Union
        <3>2. Cardinality(bitmap) \in Nat
            BY <2>1, FS_CardinalityType
        <3> QED BY <1>2, <1>3, <2>3, <3>1, <3>2
    <2>5. freePages = TotalPages - Cardinality(bitmap)
        BY SameCardinality DEF HugeInv, Memory!SmallPagesApart
    <2> QED BY <1>2, <1>3, <1>5, <2>1, <2>4, <2>5, FS_CardinalityType, SameCardinality
<1>10. ASSUME NEW r \in regions, Memory!UnitFor(r.size) = unit
       PROVE  r.address + r.size <= block.address \/ block.address + size <= r.address
    <2>1. PICK t \in Memory!Pages :
              /\ r.address = MemoryStart + t * unit
              /\ Memory!Extent(t, Memory!PageCount(r.size, unit)) \subseteq bitmap
        BY <1>10 DEF HugeInv
    <2> DEFINE other == Memory!PageCount(r.size, unit)
    <2>2. r.size \in Sizes /\ r.size \in Nat /\ other \in Nat \ {0} /\ other * unit >= r.size
        BY <1>10, Units DEF HugeInv
    <2>3. t \in Nat
        BY <1>5 DEF Memory!Pages
    <2> HIDE DEF unit, count, other
    <2>4. t + other <= s \/ s + count <= t
        <3>1. s \in Memory!Extent(s, count) /\ t \in Memory!Extent(t, other)
            BY <1>3, <1>4, <2>2, <2>3 DEF Memory!Extent
        <3>2. Memory!Extent(t, other) \cap Memory!Extent(s, count) = {}
            BY <1>4, <2>1 DEF other
        <3> QED BY <1>3, <1>4, <2>2, <2>3, <3>1, <3>2 DEF Memory!Extent
    <2>5. CASE t + other <= s
        BY <1>3, <1>4, <1>5, <1>6, <2>1, <2>2, <2>3, <2>5, Behind
    <2>6. CASE s + count <= t
        BY <1>3, <1>4, <1>5, <1>6, <2>1, <2>2, <2>3, <2>6, Behind
    <2> QED BY <2>4, <2>5, <2>6
<1>11. unit = PageSize => block.address + size <= MemoryStart + TotalPages * PageSize
    <2> HIDE DEF unit, count
    <2> QED BY <1>3, <1>4, <1>5, <1>6, Behind
<1>12. \A r \in regions' : Memory!UnitFor(r.size) = PageSize =>
           r.address + r.size <= MemoryStart + TotalPages * PageSize
    BY <1>2, <1>6, <1>11 DEF HugeInv, Memory!SmallPagesApart
<1>13. ASSUME NEW r \in regions', NEW q \in regions',
              Memory!UnitFor(r.size) = PageSize, Memory!UnitFor(q.size) = PageSize,
              r.address <= q.address, r # q
       PROVE  r.address + r.size <= q.address
    <2>1. r.address \in Nat /\ q.address \in Nat /\ r.size \in Nat \ {0} /\ q.size \in Nat \ {0}
        BY <1>8, <1>5, ResourcesAssumption
    <2>2. CASE r \in regions /\ q \in regions
        BY <1>13, <2>2 DEF HugeInv, Memory!SmallPagesApart
    <2>3. CASE r \in regions /\ q = block
        <3>1. r.address + r.size <= block.address \/ block.address + size <= r.address
            BY <1>6, <1>10, <1>13, <2>3
        <3> HIDE DEF block
        <3> QED BY <1>3, <1>6, <1>13, <2>1, <2>3, <3>1
    <2>4. CASE q \in regions /\ r = block
        <3>1. q.address + q.size <= block.address \/ block.address + size <= q.address
            BY <1>6, <1>10, <1>13, <2>4
        <3>2. r.address = block.address /\ r.size = size /\ r.address <= q.address
            BY <1>6, <1>13, <2>4
        <3>3. ~ (q.address + q.size <= r.address)
            BY <2>1, <3>2
        <3> QED BY <3>1, <3>2, <3>3
    <2> QED BY <1>2, <1>13, <2>2, <2>3, <2>4
<1>14. Memory!SmallPagesApart'
    BY <1>9, <1>12, <1>13 DEF Memory!SmallPagesApart
<1> QED BY <1>7, <1>8, <1>14 DEF HugeInv

-----------------------------------------------------------------------------
\* The shader cache.

\* An entry is a shader with the time of its last use, which has been.
Entries(cache) ==
    /\ IsFiniteSet(DOMAIN cache) /\ Cardinality(DOMAIN cache) <= MaxCacheSize
    /\ \A k \in DOMAIN cache :
          /\ cache[k] = [shader |-> cache[k].shader, lastUsed |-> cache[k].lastUsed]
          /\ cache[k].lastUsed \in Nat /\ cache[k].lastUsed <= now

ShaderInv == now \in Nat /\ Entries(shaderCache)

\* At first nothing is cached.
LEMMA ShaderInit == Shaders!Init => ShaderInv
BY FS_EmptySet, ResourcesAssumption DEF Shaders!Init, ShaderInv, Entries

\* The other managers' steps touch no shader.
LEMMA ShaderStill == ShaderInv /\ UNCHANGED shaderVars => ShaderInv'
BY DEF ShaderInv, Entries, shaderVars

\* What the cache has dropped on the way from shaderCache to cache was not used after
\* any entry that cache has, and what stayed was not used less.
Dropping(cache) ==
    /\ Entries(cache)
    /\ \A k \in DOMAIN shaderCache \cap DOMAIN cache :
          shaderCache[k].lastUsed <= cache[k].lastUsed
    /\ \A k \in DOMAIN shaderCache \ DOMAIN cache : \A j \in DOMAIN cache :
          shaderCache[k].lastUsed <= cache[j].lastUsed

\* Without one of the oldest entries, the cache has one entry less, and what it has
\* dropped is still older than the rest.
LEMMA RemoveOldestDrops ==
    ASSUME ShaderInv, NEW cache, Dropping(cache), NEW next \in Shaders!RemoveOldestEntry(cache)
    PROVE  /\ Dropping(next)
           /\ Cardinality(DOMAIN next) <= MaxCacheSize - 1
<1>1. PICK oldest \in Shaders!Oldest(cache) : next = Shaders!Without(cache, oldest)
    BY DEF Shaders!RemoveOldestEntry
<1>2. /\ oldest \in DOMAIN cache
      /\ \A j \in DOMAIN cache : cache[oldest].lastUsed <= cache[j].lastUsed
    BY <1>1 DEF Shaders!Oldest
<1>3. DOMAIN next = DOMAIN cache \ {oldest} /\ \A k \in DOMAIN next : next[k] = cache[k]
    BY <1>1 DEF Shaders!Without
<1>4. /\ IsFiniteSet(DOMAIN next)
      /\ Cardinality(DOMAIN next) = Cardinality(DOMAIN cache) - 1
      /\ Cardinality(DOMAIN cache) \in Nat
    BY <1>2, <1>3, FS_RemoveElement, FS_CardinalityType DEF Dropping, Entries
<1>5. Entries(next)
    BY <1>3, <1>4, ResourcesAssumption DEF Dropping, Entries
<1>6. ASSUME NEW k \in DOMAIN shaderCache \ DOMAIN next, NEW j \in DOMAIN next
      PROVE  shaderCache[k].lastUsed <= next[j].lastUsed
    <2>1. /\ shaderCache[k].lastUsed \in Nat /\ cache[j].lastUsed \in Nat
          /\ cache[oldest].lastUsed \in Nat /\ next[j] = cache[j] /\ j \in DOMAIN cache
        BY <1>2, <1>3 DEF Dropping, Entries, ShaderInv
    <2>2. CASE k = oldest
        <3>1. shaderCache[k].lastUsed <= cache[oldest].lastUsed
            BY <1>2, <2>2 DEF Dropping
        <3> QED BY <1>2, <2>1, <3>1
    <2>3. CASE k # oldest
        BY <1>3, <2>1, <2>3 DEF Dropping
    <2> QED BY <2>2, <2>3
<1>7. Cardinality(DOMAIN next) <= MaxCacheSize - 1
    BY <1>4, ResourcesAssumption DEF Dropping, Entries
<1>8. \A k \in DOMAIN shaderCache \cap DOMAIN next : shaderCache[k].lastUsed <= next[k].lastUsed
    BY <1>3 DEF Dropping
<1> QED BY <1>5, <1>6, <1>7, <1>8 DEF Dropping

\* cacheShader puts an entry used now into a cache that has room for it, or makes room.
LEMMA CacheShaderDrops ==
    ASSUME ShaderInv, NEW caches, \A c \in caches : Dropping(c), NEW key, NEW shader,
           NEW next \in Shaders!CacheShader(caches, key, shader)
    PROVE  Dropping(next)
<1>1. CASE shader = NoShader
    BY <1>1 DEF Shaders!CacheShader
<1>2. CASE shader # NoShader
    <2>1. PICK c \in caches : \E roomy \in
              (IF Shaders!Cardinality(DOMAIN c) >= MaxCacheSize THEN Shaders!RemoveOldestEntry(c)
                                                                ELSE {c}) :
              next = [k \in DOMAIN roomy \cup {key} |->
                        IF k = key THEN [shader |-> shader, lastUsed |-> now] ELSE roomy[k]]
        BY <1>2 DEF Shaders!CacheShader
    <2>2. PICK roomy :
              /\ next = [k \in DOMAIN roomy \cup {key} |->
                           IF k = key THEN [shader |-> shader, lastUsed |-> now] ELSE roomy[k]]
              /\ Dropping(roomy) /\ Cardinality(DOMAIN roomy) <= MaxCacheSize - 1
        <3>1. CASE Shaders!Cardinality(DOMAIN c) >= MaxCacheSize
            BY <2>1, <3>1, RemoveOldestDrops
        <3>2. CASE ~ (Shaders!Cardinality(DOMAIN c) >= MaxCacheSize)
            BY <2>1, <3>2, SameCardinality, FS_CardinalityType, ResourcesAssumption
               DEF Dropping, Entries
        <3> QED BY <3>1, <3>2
    <2>3. /\ DOMAIN next = DOMAIN roomy \cup {key}
          /\ next[key] = [shader |-> shader, lastUsed |-> now]
          /\ \A k \in DOMAIN roomy \ {key} : next[k] = roomy[k]
        BY <2>2
    <2>4. next[key].lastUsed = now /\ next[key].shader = shader
        BY <2>3
    <2>5. /\ IsFiniteSet(DOMAIN next) /\ Cardinality(DOMAIN next) <= Cardinality(DOMAIN roomy) + 1
          /\ Cardinality(DOMAIN next) \in Nat /\ Cardinality(DOMAIN roomy) \in Nat
        <3>1. IsFiniteSet(DOMAIN roomy)
            BY <2>2 DEF Dropping, Entries
        <3>2. /\ IsFiniteSet(DOMAIN roomy \cup {key})
              /\ Cardinality(DOMAIN roomy \cup {key}) =
                     IF key \in DOMAIN roomy THEN Cardinality(DOMAIN roomy)
                                             ELSE Cardinality(DOMAIN roomy) + 1
            BY <3>1, FS_AddElement
        <3>3. Cardinality(DOMAIN roomy) \in Nat
            BY <3>1, FS_CardinalityType
        <3> QED BY <2>3, <3>2, <3>3
    <2>6. Entries(next)
        BY <2>2, <2>3, <2>4, <2>5, ResourcesAssumption DEF Dropping, Entries, ShaderInv
    <2>7. \A k \in DOMAIN shaderCache : shaderCache[k].lastUsed <= now
        BY DEF ShaderInv, Entries
    <2>8. \A k \in DOMAIN shaderCache \cap DOMAIN next : shaderCache[k].lastUsed <= next[k].lastUsed
        BY <2>2, <2>3, <2>4, <2>7 DEF Dropping
    <2>9. \A k \in DOMAIN shaderCache \ DOMAIN next : \A j \in DOMAIN next :
              shaderCache[k].lastUsed <= next[j].lastUsed
        BY <2>2, <2>3, <2>4, <2>7 DEF Dropping
    <2> QED BY <2>6, <2>8, <2>9 DEF Dropping
<1> QED BY <1>1, <1>2

\* cleanupCache drops what is older than anything it keeps.
LEMMA FreshDrops ==
    ASSUME ShaderInv, NEW cache, Dropping(cache)
    PROVE  Dropping(Shaders!Fresh(cache))
<1> DEFINE next == Shaders!Fresh(cache)
<1>1. /\ DOMAIN next = {j \in DOMAIN cache : now - cache[j].lastUsed <= CacheTimeout}
      /\ \A k \in DOMAIN next : next[k] = cache[k]
    BY DEF Shaders!Fresh
<1> HIDE DEF next
<1>2. DOMAIN next \in SUBSET DOMAIN cache
    BY <1>1
<1>3. /\ IsFiniteSet(DOMAIN next) /\ Cardinality(DOMAIN next) <= Cardinality(DOMAIN cache)
      /\ Cardinality(DOMAIN next) \in Nat /\ Cardinality(DOMAIN cache) \in Nat
    BY <1>2, FS_Subset, FS_CardinalityType DEF Dropping, Entries
<1>4. Entries(next)
    BY <1>1, <1>2, <1>3, ResourcesAssumption DEF Dropping, Entries
<1>5. ASSUME NEW k \in DOMAIN shaderCache \ DOMAIN next, NEW j \in DOMAIN next
      PROVE  shaderCache[k].lastUsed <= next[j].lastUsed
    <2>1. /\ shaderCache[k].lastUsed \in Nat /\ cache[j].lastUsed \in Nat /\ now \in Nat
          /\ next[j] = cache[j] /\ j \in DOMAIN cache /\ now - cache[j].lastUsed <= CacheTimeout
        BY <1>1, <1>2 DEF Dropping, Entries, ShaderInv
    <2>2. CASE k \in DOMAIN cache
        <3>1. ~ (now - cache[k].lastUsed <= CacheTimeout)
            BY <1>1, <1>5, <2>2
        <3>2. shaderCache[k].lastUsed <= cache[k].lastUsed /\ cache[k].lastUsed \in Nat
            BY <2>2 DEF Dropping, Entries
        <3> QED BY <2>1, <3>1, <3>2, ResourcesAssumption
    <2>3. CASE k \notin DOMAIN cache
        BY <2>1, <2>3 DEF Dropping
    <2> QED BY <2>2, <2>3
<1> QED BY <1>1, <1>2, <1>4, <1>5 DEF Dropping, next

\* Whatever the cache becomes in a step drops no entry that is younger than one it keeps.
LEMMA ShaderDrops ==
    ASSUME ShaderInv, Shaders!Next
    PROVE  ShaderInv' /\ (now' = now => Dropping(shaderCache')) /\ (UNCHANGED shaderCache \/ now' = now)
<1>0. Dropping(shaderCache)
    BY DEF Dropping, ShaderInv, Entries
<1>1. ASSUME now' = now, Dropping(shaderCache')
      PROVE  ShaderInv' /\ (now' = now => Dropping(shaderCache')) /\ (UNCHANGED shaderCache \/ now' = now)
    BY <1>1 DEF ShaderInv, Dropping, Entries
<1>2. CASE \E key \in Keys : Shaders!GetCached(key)
    <2>1. PICK key \in DOMAIN shaderCache :
              shaderCache' = [shaderCache EXCEPT ![key].lastUsed = now] /\ now' = now
        BY <1>2 DEF Shaders!GetCached
    <2>2. /\ DOMAIN shaderCache' = DOMAIN shaderCache
          /\ \A k \in DOMAIN shaderCache \ {key} : shaderCache'[k] = shaderCache[k]
          /\ shaderCache'[key] = [shaderCache[key] EXCEPT !.lastUsed = now]
        BY <2>1
    <2>3. /\ shaderCache'[key] = [shader |-> shaderCache'[key].shader,
                                  lastUsed |-> shaderCache'[key].lastUsed]
          /\ shaderCache'[key].lastUsed = now
        <3>1. shaderCache[key] = [shader |-> shaderCache[key].shader,
                                  lastUsed |-> shaderCache[key].lastUsed]
            BY DEF ShaderInv, Entries
        <3>2. shaderCache'[key] = [shader |-> shaderCache[key].shader, lastUsed |-> now]
            BY <2>2, <3>1
        <3> QED BY <3>2
    <2>4. Entries(shaderCache')
        BY <2>2, <2>3 DEF ShaderInv, Entries
    <2>5. Dropping(shaderCache')
        BY <2>2, <2>3, <2>4 DEF Dropping, ShaderInv, Entries
    <2> QED BY <1>1, <2>1, <2>5
<1>3. CASE \E key \in Keys, source \in Sources, type \in Types :
              Shaders!GetCompiled(key, source, type)
    <2>1. PICK key, shader : shaderCache' \in Shaders!CacheShader({shaderCache}, key, shader)
        BY <1>3 DEF Shaders!GetCompiled
    <2>2. now' = now
        BY <1>3 DEF Shaders!GetCompiled
    <2> QED BY <1>0, <1>1, <2>1, <2>2, CacheShaderDrops
<1>4. CASE (\E source \in Sources, type \in Types : Shaders!CompileShader(source, type))
    BY <1>0, <1>1, <1>4 DEF Shaders!CompileShader
<1>5. CASE Shaders!InitializeShaderSystem
    <2>1. PICK s : \E cache \in Shaders!Loaded(s) : shaderCache' = Shaders!Fresh(cache)
        BY <1>5 DEF Shaders!InitializeShaderSystem
    <2>2. PICK cache \in Shaders!Loaded(s) : shaderCache' = Shaders!Fresh(cache)
        BY <2>1
    <2> DEFINE first  == Shaders!CacheShader({shaderCache}, "default_vertex", s[1])
               second == Shaders!CacheShader(first, "default_fragment", s[2])
               third  == Shaders!CacheShader(second, "post_process", s[3])
    <2>3. cache \in Shaders!CacheShader(third, "shadow_vertex", s[4])
        BY <2>2 DEF Shaders!Loaded
    <2>4. \A c \in first : Dropping(c)
        BY <1>0, CacheShaderDrops
    <2> HIDE DEF first
    <2>5. \A c \in second : Dropping(c)
        BY <2>4, CacheShaderDrops
    <2> HIDE DEF second
    <2>6. \A c \in third : Dropping(c)
        BY <2>5, CacheShaderDrops
    <2> HIDE DEF third
    <2>7. Dropping(cache)
        BY <2>3, <2>6, CacheShaderDrops
    <2>8. now' = now
        BY <1>5 DEF Shaders!InitializeShaderSystem
    <2> QED BY <1>1, <2>2, <2>7, <2>8, FreshDrops
<1>6. CASE Shaders!Tick
    BY <1>6 DEF Shaders!Tick, ShaderInv, Entries
<1> QED BY <1>2, <1>3, <1>4, <1>5, <1>6 DEF Shaders!Next

\* The size of the cache is part of the invariant.
LEMMA SizeKept == ShaderInv => Shaders!CacheBounded
BY SameCardinality DEF ShaderInv, Entries, Shaders!CacheBounded

\* Entries are kept under the keys there are, and binaries are of sources there are.
ShaderTypes ==
    /\ DOMAIN shaderCache \subseteq Keys
    /\ binaries \subseteq Sources \X Types
    /\ now \in 0 .. MaxTime

\* At first nothing is cached, neither a shader nor a binary.
LEMMA ShaderTypesInit == Shaders!Init => ShaderTypes
BY ShaderAssumption DEF Shaders!Init, ShaderTypes

\* The other managers' steps touch neither.
LEMMA ShaderTypesStill == ShaderTypes /\ UNCHANGED shaderVars => ShaderTypes'
BY DEF ShaderTypes, shaderVars

\* What becomes known by compiling is the source and type that were compiled.
LEMMA KnownAs ==
    ASSUME NEW source, NEW type, NEW known, NEW shader \in Shaders!Compile(source, type, known)
    PROVE  Shaders!Known(shader) \subseteq {<<source, type>>}
<1>1. shader = NoShader \/ \E valid \in BOOLEAN : shader = Shaders!Shader(source, type, valid)
    BY DEF Shaders!Compile, Shaders!CompileStage, Shaders!CreateShaderFromBinary
<1>2. ASSUME NEW valid \in BOOLEAN, shader = Shaders!Shader(source, type, valid)
      PROVE  shader.source = source /\ shader.type = type
    BY <1>2 DEF Shaders!Shader
<1> QED BY <1>1, <1>2 DEF Shaders!Known

\* Caching adds no key but its own.
LEMMA KeysKept ==
    ASSUME NEW caches, \A c \in caches : DOMAIN c \subseteq Keys, NEW key \in Keys, NEW shader,
           NEW next \in Shaders!CacheShader(caches, key, shader)
    PROVE  DOMAIN next \subseteq Keys
<1>1. CASE shader = NoShader
    BY <1>1 DEF Shaders!CacheShader
<1>2. CASE shader # NoShader
    <2>1. PICK c \in caches : \E roomy \in
              (IF Shaders!Cardinality(DOMAIN c) >= MaxCacheSize THEN Shaders!RemoveOldestEntry(c)
                                                                ELSE {c}) :
              next = [k \in DOMAIN roomy \cup {key} |->
                        IF k = key THEN [shader |-> shader, lastUsed |-> now] ELSE roomy[k]]
        BY <1>2 DEF Shaders!CacheShader
    <2>2. PICK roomy \in Shaders!RemoveOldestEntry(c) \cup {c} : DOMAIN next = DOMAIN roomy \cup {key}
        BY <2>1
    <2>3. DOMAIN roomy \subseteq DOMAIN c
        BY <2>2 DEF Shaders!RemoveOldestEntry, Shaders!Without
    <2> QED BY <2>1, <2>2, <2>3
<1> QED BY <1>1, <1>2

\* Every operation of the shader manager keeps to its keys and its compiler to its sources.
LEMMA ShaderTypesSteps == ShaderTypes /\ Shaders!Next => ShaderTypes'
<1> SUFFICES ASSUME ShaderTypes, Shaders!Next PROVE ShaderTypes'
    OBVIOUS
<1>1. CASE \E key \in Keys : Shaders!GetCached(key)
    BY <1>1 DEF Shaders!GetCached, ShaderTypes
<1>2. CASE \E key \in Keys, source \in Sources, type \in Types :
              Shaders!GetCompiled(key, source, type)
    <2>1. PICK key \in Keys, source \in Sources, type \in Types :
              Shaders!GetCompiled(key, source, type)
        BY <1>2
    <2>2. PICK shader \in Shaders!Compile(source, type, binaries) :
              /\ binaries' = binaries \cup Shaders!Known(shader)
              /\ shaderCache' \in Shaders!CacheShader({shaderCache}, key, shader)
        BY <2>1 DEF Shaders!GetCompiled
    <2>3. Shaders!Known(shader) \subseteq {<<source, type>>}
        BY <2>2, KnownAs
    <2>4. DOMAIN shaderCache' \subseteq Keys
        BY <2>2, KeysKept DEF ShaderTypes
    <2>5. now' = now
        BY <2>1 DEF Shaders!GetCompiled
    <2> QED BY <2>2, <2>3, <2>4, <2>5 DEF ShaderTypes
<1>3. CASE \E source \in Sources, type \in Types : Shaders!CompileShader(source, type)
    <2>1. PICK source \in Sources, type \in Types : Shaders!CompileShader(source, type)
        BY <1>3
    <2>2. PICK shader \in Shaders!Compile(source, type, binaries) :
              binaries' = binaries \cup Shaders!Known(shader)
        BY <2>1 DEF Shaders!CompileShader
    <2>3. Shaders!Known(shader) \subseteq {<<source, type>>}
        BY <2>2, KnownAs
    <2>4. UNCHANGED <<shaderCache, now>>
        BY <2>1 DEF Shaders!CompileShader
    <2> QED BY <2>2, <2>3, <2>4 DEF ShaderTypes
<1>4. CASE Shaders!InitializeShaderSystem
    <2>1. PICK s1 \in Shaders!CompileDefault(1), s2 \in Shaders!CompileDefault(2),
               s3 \in Shaders!CompileDefault(3), s4 \in Shaders!CompileDefault(4) :
              /\ binaries' = UNION {Shaders!Known(<<s1, s2, s3, s4>>[j]) : j \in 1 .. 4}
              /\ \E cache \in Shaders!Loaded(<<s1, s2, s3, s4>>) : shaderCache' = Shaders!Fresh(cache)
        BY <1>4 DEF Shaders!InitializeShaderSystem
    <2>2. \A j \in 1 .. 4 : Shaders!Known(<<s1, s2, s3, s4>>[j]) \subseteq Sources \X Types
        <3>1. /\ s1 \in Shaders!Compile("good", "vertex", {}) /\ s2 \in Shaders!Compile("good", "fragment", {})
              /\ s3 \in Shaders!Compile("good", "fragment", {}) /\ s4 \in Shaders!Compile("good", "vertex", {})
            BY <2>1 DEF Shaders!CompileDefault
        <3>2. /\ Shaders!Known(s1) \subseteq {<<"good", "vertex">>}
              /\ Shaders!Known(s2) \subseteq {<<"good", "fragment">>}
              /\ Shaders!Known(s3) \subseteq {<<"good", "fragment">>}
              /\ Shaders!Known(s4) \subseteq {<<"good", "vertex">>}
            BY <3>1, KnownAs
        <3>3. <<"good", "vertex">> \in Sources \X Types /\ <<"good", "fragment">> \in Sources \X Types
            BY ShaderAssumption
        <3> QED BY <3>2, <3>3
    <2>3. binaries' \subseteq Sources \X Types
        BY <2>1, <2>2
    <2>4. PICK cache \in Shaders!Loaded(<<s1, s2, s3, s4>>) : shaderCache' = Shaders!Fresh(cache)
        BY <2>1
    <2> DEFINE first  == Shaders!CacheShader({shaderCache}, "default_vertex", s1)
               second == Shaders!CacheShader(first, "default_fragment", s2)
               third  == Shaders!CacheShader(second, "post_process", s3)
    <2>5. cache \in Shaders!CacheShader(third, "shadow_vertex", s4)
        BY <2>4 DEF Shaders!Loaded
    <2>6. \A c \in first : DOMAIN c \subseteq Keys
        BY KeysKept, ShaderAssumption DEF ShaderTypes
    <2> HIDE DEF first
    <2>7. \A c \in second : DOMAIN c \subseteq Keys
        BY <2>6, KeysKept, ShaderAssumption
    <2> HIDE DEF second
    <2>8. \A c \in third : DOMAIN c \subseteq Keys
        BY <2>7, KeysKept, ShaderAssumption
    <2> HIDE DEF third
    <2>9. DOMAIN cache \subseteq Keys
        BY <2>5, <2>8, KeysKept, ShaderAssumption
    <2>10. DOMAIN shaderCache' \subseteq Keys
        BY <2>4, <2>9 DEF Shaders!Fresh
    <2>11. now' = now
        BY <1>4 DEF Shaders!InitializeShaderSystem
    <2> QED BY <2>3, <2>10, <2>11 DEF ShaderTypes
<1>5. CASE Shaders!Tick
    BY <1>5, ShaderAssumption DEF Shaders!Tick, ShaderTypes
<1> QED BY <1>1, <1>2, <1>3, <1>4, <1>5 DEF Shaders!Next

\* So the types are as stated.
LEMMA ShadersTyped == ShaderInv /\ ShaderTypes => Shaders!TypeOK
BY DEF ShaderInv, Entries, ShaderTypes, Shaders!TypeOK

-----------------------------------------------------------------------------
\* The elements of a sequence.

Elements(s) == {s[i] : i \in DOMAIN s}

Distinct(s) == \A a, b \in DOMAIN s : s[a] = s[b] => a = b

\* Appending adds one, which makes no two equal when it is new.
LEMMA Appended ==
    ASSUME NEW S, NEW s \in Seq(S), NEW e
    PROVE  /\ Elements(Append(s, e)) = Elements(s) \cup {e}
           /\ Distinct(s) /\ e \notin Elements(s) => Distinct(Append(s, e))
<1>1. /\ DOMAIN s = 1 .. Len(s) /\ Len(s) \in Nat /\ DOMAIN Append(s, e) = 1 .. Len(s) + 1
      /\ \A i \in 1 .. Len(s) : Append(s, e)[i] = s[i]
      /\ Append(s, e)[Len(s) + 1] = e
    OBVIOUS
<1>2. Elements(Append(s, e)) = Elements(s) \cup {e}
    BY <1>1 DEF Elements
<1>3. Distinct(s) /\ e \notin Elements(s) => Distinct(Append(s, e))
    BY <1>1 DEF Elements, Distinct
<1> QED BY <1>2, <1>3

\* Taking the head removes it, for good when no two were equal.
LEMMA HeadTaken ==
    ASSUME NEW S, NEW s \in Seq(S), s # <<>>
    PROVE  /\ Head(s) \in S /\ Tail(s) \in Seq(S)
           /\ Elements(s) = Elements(Tail(s)) \cup {Head(s)}
           /\ Distinct(s) => Distinct(Tail(s)) /\ Head(s) \notin Elements(Tail(s))
<1>1. /\ Head(s) \in S /\ Tail(s) \in Seq(S) /\ Len(Tail(s)) = Len(s) - 1
      /\ \A i \in 1 .. Len(Tail(s)) : Tail(s)[i] = s[i + 1]
    BY HeadTailProperties
<1>2. /\ DOMAIN s = 1 .. Len(s) /\ DOMAIN Tail(s) = 1 .. Len(Tail(s))
      /\ Len(s) \in Nat \ {0} /\ Head(s) = s[1]
    BY <1>1
<1>3. \A i \in 1 .. Len(s) : i # 1 => i - 1 \in 1 .. Len(Tail(s)) /\ Tail(s)[i - 1] = s[i]
    BY <1>1, <1>2
<1>4. Elements(s) = Elements(Tail(s)) \cup {Head(s)}
    <2>1. \A i \in 1 .. Len(s) : i = 1 \/ s[i] \in Elements(Tail(s))
        BY <1>2, <1>3 DEF Elements
    <2>2. Elements(s) \subseteq Elements(Tail(s)) \cup {Head(s)}
        BY <1>2, <2>1 DEF Elements
    <2>3. \A i \in 1 .. Len(Tail(s)) : i + 1 \in 1 .. Len(s) /\ Tail(s)[i] = s[i + 1]
        BY <1>1, <1>2
    <2>4. Head(s) \in Elements(s)
        BY <1>2 DEF Elements
    <2>5. Elements(Tail(s)) \subseteq Elements(s)
        BY <1>2, <2>3 DEF Elements
    <2> QED BY <2>2, <2>4, <2>5
<1>5. ASSUME Distinct(s) PROVE Distinct(Tail(s)) /\ Head(s) \notin Elements(Tail(s))
    BY <1>1, <1>2, <1>5 DEF Distinct, Elements
<1> QED BY <1>1, <1>4, <1>5

-----------------------------------------------------------------------------
\* Files and their cache.

\* During a flush, what was taken is in the file or still to be applied, and what is to
\* be shown in the cache was applied.
FileInv ==
    /\ issued \in Nat
    /\ queue \in Seq(1 .. issued)
    /\ DOMAIN writes = Writers /\ DOMAIN taken = Writers
    /\ DOMAIN loaded = Readers /\ DOMAIN pc = Readers \cup Writers
    /\ \A t \in Writers :
          /\ writes[t] \in Seq(1 .. issued)
          /\ pc[t] \in {"apply", "update"} => taken[t] \subseteq file \cup Elements(writes[t])
          /\ pc[t] \in {"apply", "update"} => Elements(queue) \subseteq taken[t] \cup overlapping
          /\ pc[t] = "update" => writes[t] # <<>> /\ Head(writes[t]) \in file
    /\ \A t \in Readers : loaded[t] \subseteq file
    /\ Files!WritesLocated /\ Files!CacheShowsFile

\* At first nothing was written, queued or read.
LEMMA FileInit == Files!Init => FileInv
<1> SUFFICES ASSUME Files!Init PROVE FileInv
    OBVIOUS
<1>1. queue = <<>> /\ issued = 0 /\ file = {} /\ dropped = {} /\ cached = NoEntry
    BY DEF Files!Init
<1>2. Files!WritesLocated /\ Files!CacheShowsFile
    BY <1>1 DEF Files!WritesLocated, Files!CacheShowsFile, Files!ToSet
<1> QED BY <1>1, <1>2 DEF Files!Init, FileInv

\* The other managers' steps touch no file.
LEMMA FileStill == FileInv /\ UNCHANGED fileVars => FileInv'
BY DEF FileInv, Files!WritesLocated, Files!CacheShowsFile, fileVars

\* A read shows what the file had when it was loaded, and the file only grows.
LEMMA ReadInv ==
    ASSUME FileInv, NEW t \in Readers, Files!ReadMiss(t) \/ Files!Insert(t)
    PROVE  FileInv'
<1>1. /\ UNCHANGED <<queue, writes, taken, file, issued, overlapping, dropped>>
      /\ DOMAIN pc' = DOMAIN pc /\ \A u \in Writers : pc'[u] \in {"apply", "update"} => pc'[u] = pc[u]
      /\ DOMAIN loaded' = DOMAIN loaded
      /\ \A u \in Readers : loaded'[u] \in {loaded[u], file}
      /\ cached' = cached \/ cached' = loaded[t]
    BY DEF FileInv, Files!ReadMiss, Files!Insert, Files!Goto, Files!writeVars
<1> QED BY <1>1 DEF FileInv, Files!WritesLocated, Files!CacheShowsFile

\* An entry that is dropped shows nothing.
LEMMA OptimizeInv == FileInv /\ Files!OptimizeCache => FileInv'
BY DEF FileInv, Files!WritesLocated, Files!CacheShowsFile, Files!OptimizeCache, Files!writeVars

\* A new write is in the queue, and the numbers of the others stay below it.
LEMMA WriteInv ==
    ASSUME FileInv, NEW t \in Writers, Files!Write(t)
    PROVE  FileInv'
<1>1. /\ issued \in Nat /\ issued' = issued + 1 /\ queue' = Append(queue, issued + 1)
      /\ UNCHANGED <<writes, taken, file, dropped, cached, loaded>>
      /\ overlapping \subseteq overlapping'
      /\ Files!Flushing # {} => issued + 1 \in overlapping'
      /\ DOMAIN pc' = DOMAIN pc /\ \A u \in Writers : pc'[u] \in {"apply", "update"} => pc'[u] = pc[u]
    BY DEF FileInv, Files!Write, Files!Goto, Files!readVars
<1>2. 1 .. issued' = (1 .. issued) \cup {issued + 1}
    BY <1>1
<1>3. \A s : s \in Seq(1 .. issued) => s \in Seq(1 .. issued')
    BY <1>2, SeqMonotonic
<1>4. queue' \in Seq(1 .. issued')
    BY <1>1, <1>2, <1>3, AppendProperties DEF FileInv
<1>5. Elements(queue') = Elements(queue) \cup {issued + 1}
    BY <1>1, Appended DEF FileInv
<1>6. Files!WritesLocated' /\ Files!CacheShowsFile'
    BY <1>1, <1>2, <1>5 DEF FileInv, Files!WritesLocated, Files!CacheShowsFile, Files!ToSet, Elements
<1>7. ASSUME NEW u \in Writers, pc'[u] \in {"apply", "update"}
      PROVE  Elements(queue') \subseteq taken'[u] \cup overlapping'
    <2>1. pc[u] \in {"apply", "update"}
        BY <1>1, <1>7
    <2>2. u \in Files!Flushing
        BY <2>1 DEF Files!Flushing
    <2>3. Elements(queue) \subseteq taken[u] \cup overlapping
        BY <2>1 DEF FileInv
    <2> QED BY <1>1, <1>5, <2>2, <2>3
<1> QED BY <1>1, <1>3, <1>4, <1>6, <1>7 DEF FileInv

\* The flush takes what is queued.
LEMMA FlushInv ==
    ASSUME FileInv, NEW t \in Writers, Files!WriteReturn(t) \/ Files!FlushWrites(t)
    PROVE  FileInv'
<1>1. /\ UNCHANGED <<queue, file, issued, overlapping, dropped, cached, loaded>>
      /\ DOMAIN pc' = DOMAIN pc /\ \A u \in Writers \ {t} : pc'[u] = pc[u]
      /\ pc'[t] \in {"idle", "apply"} /\ pc'[t] # "update"
    BY DEF FileInv, Files!WriteReturn, Files!FlushWrites, Files!Goto, Files!readVars, Files!writeVars
<1>2. /\ DOMAIN writes' = Writers /\ DOMAIN taken' = Writers
      /\ \A u \in Writers \ {t} : writes'[u] = writes[u] /\ taken'[u] = taken[u]
      /\ \/ writes'[t] = writes[t] /\ taken'[t] = taken[t] /\ pc'[t] = "idle"
         \/ writes'[t] = queue /\ taken'[t] = Elements(queue)
    BY DEF FileInv, Files!WriteReturn, Files!FlushWrites, Files!Goto, Files!writeVars, Files!ToSet, Elements
<1> QED BY <1>1, <1>2 DEF FileInv, Files!WritesLocated, Files!CacheShowsFile

\* The next write of the flush is applied, and stays queued.
LEMMA ApplyInv ==
    ASSUME FileInv, NEW t \in Writers, Files!HandlerWrite(t)
    PROVE  FileInv'
<1>1. /\ writes[t] # <<>> /\ file' = file \cup {Head(writes[t])}
      /\ UNCHANGED <<queue, writes, taken, issued, overlapping, dropped, cached, loaded>>
      /\ pc[t] = "apply" /\ pc'[t] = "update"
      /\ DOMAIN pc' = DOMAIN pc /\ \A u \in Writers \ {t} : pc'[u] = pc[u]
    BY DEF FileInv, Files!HandlerWrite, Files!Goto, Files!readVars
<1>2. Head(writes[t]) \in 1 .. issued
    BY <1>1, HeadTaken DEF FileInv
<1> QED BY <1>1, <1>2 DEF FileInv, Files!WritesLocated, Files!CacheShowsFile

\* A flush that fails leaves the queue as it was.
LEMMA FailInv ==
    ASSUME FileInv, NEW t \in Writers, Files!HandlerFails(t)
    PROVE  FileInv'
<1>1. /\ UNCHANGED <<queue, taken, file, issued, overlapping, dropped, cached, loaded>>
      /\ DOMAIN writes' = Writers /\ writes'[t] = <<>>
      /\ \A u \in Writers \ {t} : writes'[u] = writes[u]
      /\ DOMAIN pc' = DOMAIN pc /\ pc'[t] = "idle" /\ \A u \in Writers \ {t} : pc'[u] = pc[u]
    BY DEF FileInv, Files!HandlerFails, Files!Goto, Files!readVars
<1>2. writes'[t] \in Seq(1 .. issued)
    BY <1>1
<1> QED BY <1>1, <1>2 DEF FileInv, Files!WritesLocated, Files!CacheShowsFile

\* The cache shows a write that was applied, which the flush is through with.
LEMMA UpdateInv ==
    ASSUME FileInv, NEW t \in Writers, Files!UpdateCacheEntry(t)
    PROVE  FileInv'
<1>1. /\ UNCHANGED <<queue, taken, file, issued, overlapping, dropped, loaded>>
      /\ pc[t] = "update" /\ pc'[t] = "apply" /\ DOMAIN pc' = DOMAIN pc
      /\ \A u \in Writers \ {t} : pc'[u] = pc[u]
      /\ DOMAIN writes' = Writers /\ writes'[t] = Tail(writes[t])
      /\ \A u \in Writers \ {t} : writes'[u] = writes[u]
      /\ IF cached = NoEntry THEN cached' = NoEntry ELSE cached' = cached \cup {Head(writes[t])}
    BY DEF FileInv, Files!UpdateCacheEntry, Files!Goto
<1>2. /\ writes[t] # <<>> /\ Head(writes[t]) \in file /\ taken[t] \subseteq file \cup Elements(writes[t])
      /\ writes[t] \in Seq(1 .. issued)
    BY <1>1 DEF FileInv
<1>3. /\ Tail(writes[t]) \in Seq(1 .. issued)
      /\ Elements(writes[t]) = Elements(Tail(writes[t])) \cup {Head(writes[t])}
    BY <1>2, HeadTaken
<1>4. Files!WritesLocated' /\ Files!CacheShowsFile'
    BY <1>1, <1>2 DEF FileInv, Files!WritesLocated, Files!CacheShowsFile
<1> QED BY <1>1, <1>2, <1>3, <1>4 DEF FileInv

\* What the flush took is in the file; what it did not was queued while it ran, and counts
\* as dropped.
LEMMA ClearInv ==
    ASSUME FileInv, NEW t \in Writers, Files!Clear(t)
    PROVE  FileInv'
<1>1. /\ UNCHANGED <<writes, taken, file, issued, overlapping, cached, loaded>>
      /\ writes[t] = <<>> /\ queue' = <<>>
      /\ dropped' = dropped \cup (Elements(queue) \ file)
      /\ pc[t] = "apply" /\ pc'[t] = "idle" /\ DOMAIN pc' = DOMAIN pc
      /\ \A u \in Writers \ {t} : pc'[u] = pc[u]
    BY DEF FileInv, Files!Clear, Files!Goto, Files!readVars, Files!ToSet, Elements
<1>2. Elements(<<>>) = {} /\ <<>> \in Seq(1 .. issued)
    BY DEF Elements
<1>3. taken[t] \subseteq file /\ Elements(queue) \subseteq taken[t] \cup overlapping
    BY <1>1, <1>2 DEF FileInv
<1>4. 1 .. issued = file \cup Elements(queue) \cup dropped /\ dropped \subseteq overlapping
    BY DEF FileInv, Files!WritesLocated, Files!ToSet, Elements
<1>5. 1 .. issued' = file' \cup dropped' /\ dropped' \subseteq overlapping'
    BY <1>1, <1>3, <1>4
<1>6. Files!WritesLocated' /\ Files!CacheShowsFile'
    BY <1>1, <1>2, <1>5 DEF FileInv, Files!WritesLocated, Files!CacheShowsFile, Files!ToSet, Elements
<1>7. \A u \in Writers : Elements(queue') \subseteq taken'[u] \cup overlapping'
    BY <1>1, <1>2
<1> QED BY <1>1, <1>2, <1>6, <1>7 DEF FileInv

\* Every step of a reader or a writer keeps what was written.
LEMMA FileSteps == FileInv /\ Files!Next => FileInv'
BY ReadInv, OptimizeInv, WriteInv, FlushInv, ApplyInv, FailInv, UpdateInv, ClearInv DEF Files!Next

\* What a writer's flush has left is part of what it took, and numbers are of writes issued.
FileTypes ==
    /\ issued \in 0 .. MaxWrites /\ file \cup overlapping \cup dropped \subseteq 1 .. issued
    /\ \A t \in Writers : Elements(writes[t]) \subseteq taken[t] /\ taken[t] \subseteq 1 .. issued
    /\ cached \in {NoEntry} \cup SUBSET (1 .. issued)
    /\ loaded \in [Readers -> SUBSET (1 .. issued)]
    /\ \A t \in Readers \ Writers : pc[t] \in {"idle", "insert"}
    /\ \A t \in Writers \ Readers : pc[t] \in {"idle", "queued", "apply", "update"}

\* At first nothing is written and every thread is idle.
LEMMA FileTypesInit == Files!Init => FileTypes
<1> SUFFICES ASSUME Files!Init PROVE FileTypes
    OBVIOUS
<1>1. Elements(<<>>) = {}
    BY DEF Elements
<1>2. issued = 0 /\ issued \in 0 .. MaxWrites
    BY ResourcesAssumption DEF Files!Init
<1>3. loaded \in [Readers -> SUBSET (1 .. issued)]
    BY DEF Files!Init
<1> QED BY <1>1, <1>2, <1>3 DEF Files!Init, FileTypes

\* The other managers' steps touch no file.
LEMMA FileTypesStill == FileTypes /\ UNCHANGED fileVars => FileTypes'
BY DEF FileTypes, fileVars

\* Every step of a reader or a writer keeps to the writes there were.
LEMMA FileTypesSteps == FileInv /\ FileTypes /\ Files!Next => FileTypes'
<1> SUFFICES ASSUME FileInv, FileTypes, Files!Next PROVE FileTypes'
    OBVIOUS
<1>0. /\ issued \in Nat /\ MaxWrites \in Nat
      /\ DOMAIN writes = Writers /\ DOMAIN taken = Writers /\ DOMAIN pc = Readers \cup Writers
      /\ \A t \in Writers : writes[t] \in Seq(1 .. issued)
    BY ResourcesAssumption DEF FileInv
<1>1. ASSUME NEW t \in Readers, Files!ReadMiss(t) PROVE FileTypes'
    <2>1. loaded' \in [Readers -> SUBSET (1 .. issued)]
        BY <1>1 DEF Files!ReadMiss, FileTypes
    <2> QED BY <1>0, <1>1, <2>1 DEF Files!ReadMiss, Files!Goto, Files!writeVars, FileTypes
<1>2. ASSUME NEW t \in Readers, Files!Insert(t) PROVE FileTypes'
    <2>1. loaded[t] \subseteq 1 .. issued
        BY <1>2 DEF FileTypes
    <2> QED BY <1>0, <1>2, <2>1 DEF Files!Insert, Files!Goto, Files!writeVars, FileTypes
<1>3. CASE Files!OptimizeCache
    BY <1>3 DEF Files!OptimizeCache, Files!writeVars, FileTypes
<1>4. ASSUME NEW t \in Writers, Files!Write(t) PROVE FileTypes'
    <2>1. /\ issued' \in 0 .. MaxWrites /\ 1 .. issued \subseteq 1 .. issued'
          /\ issued' = issued + 1 /\ UNCHANGED <<writes, taken, file, dropped, cached, loaded>>
          /\ overlapping' \subseteq overlapping \cup {issued + 1}
        BY <1>0, <1>4 DEF Files!Write, Files!readVars
    <2>4. overlapping' \subseteq 1 .. issued'
        BY <1>0, <2>1 DEF FileTypes
    <2>2. loaded' \in [Readers -> SUBSET (1 .. issued')]
        BY <2>1 DEF FileTypes
    <2>3. /\ \A u \in Readers \ Writers : pc'[u] \in {"idle", "insert"}
          /\ \A u \in Writers \ Readers : pc'[u] \in {"idle", "queued", "apply", "update"}
        BY <1>0, <1>4 DEF Files!Write, Files!Goto, FileTypes
    <2> QED BY <2>1, <2>2, <2>3, <2>4 DEF FileTypes
<1>5. ASSUME NEW t \in Writers, Files!WriteReturn(t) PROVE FileTypes'
    BY <1>0, <1>5 DEF Files!WriteReturn, Files!Goto, Files!readVars, Files!writeVars, FileTypes
<1>6. ASSUME NEW t \in Writers, Files!FlushWrites(t) PROVE FileTypes'
    <2>1. /\ writes'[t] = queue /\ taken'[t] = Elements(queue)
          /\ \A u \in Writers \ {t} : writes'[u] = writes[u] /\ taken'[u] = taken[u]
        BY <1>0, <1>6 DEF Files!FlushWrites, Files!ToSet, Elements
    <2>2. Elements(queue) \subseteq 1 .. issued
        BY DEF FileInv, Elements
    <2>3. /\ \A u \in Readers \ Writers : pc'[u] \in {"idle", "insert"}
          /\ \A u \in Writers \ Readers : pc'[u] \in {"idle", "queued", "apply", "update"}
        BY <1>0, <1>6 DEF Files!FlushWrites, Files!Goto, FileTypes
    <2>4. UNCHANGED <<file, issued, overlapping, dropped, cached, loaded>>
        BY <1>6 DEF Files!FlushWrites, Files!readVars
    <2> QED BY <2>1, <2>2, <2>3, <2>4 DEF FileTypes
<1>7. ASSUME NEW t \in Writers, Files!HandlerWrite(t) PROVE FileTypes'
    <2>1. Head(writes[t]) \in Elements(writes[t])
        <3>1. writes[t] # <<>> /\ writes[t] \in Seq(1 .. issued)
            BY <1>0, <1>7 DEF Files!HandlerWrite
        <3> QED BY <3>1, HeadTaken
    <2>2. Head(writes[t]) \in 1 .. issued
        BY <2>1 DEF FileTypes
    <2>3. /\ \A u \in Readers \ Writers : pc'[u] \in {"idle", "insert"}
          /\ \A u \in Writers \ Readers : pc'[u] \in {"idle", "queued", "apply", "update"}
        BY <1>0, <1>7 DEF Files!HandlerWrite, Files!Goto, FileTypes
    <2> QED BY <1>7, <2>2, <2>3 DEF Files!HandlerWrite, Files!readVars, FileTypes
<1>8. ASSUME NEW t \in Writers, Files!HandlerFails(t) PROVE FileTypes'
    <2>1. writes'[t] = <<>> /\ \A u \in Writers \ {t} : writes'[u] = writes[u]
        BY <1>0, <1>8 DEF Files!HandlerFails
    <2>2. Elements(<<>>) = {}
        BY DEF Elements
    <2>3. /\ \A u \in Readers \ Writers : pc'[u] \in {"idle", "insert"}
          /\ \A u \in Writers \ Readers : pc'[u] \in {"idle", "queued", "apply", "update"}
        BY <1>0, <1>8 DEF Files!HandlerFails, Files!Goto, FileTypes
    <2> QED BY <1>8, <2>1, <2>2, <2>3 DEF Files!HandlerFails, Files!readVars, FileTypes
<1>9. ASSUME NEW t \in Writers, Files!UpdateCacheEntry(t) PROVE FileTypes'
    <2>1. writes[t] # <<>> /\ writes[t] \in Seq(1 .. issued)
        BY <1>0, <1>9 DEF Files!UpdateCacheEntry, Files!Goto, FileInv
    <2>2. Elements(writes[t]) = Elements(Tail(writes[t])) \cup {Head(writes[t])}
        BY <2>1, HeadTaken
    <2>3. writes'[t] = Tail(writes[t]) /\ \A u \in Writers \ {t} : writes'[u] = writes[u]
        BY <1>0, <1>9 DEF Files!UpdateCacheEntry
    <2>4. cached' \in {NoEntry} \cup SUBSET (1 .. issued)
        <3>1. Head(writes[t]) \in 1 .. issued
            BY <2>2 DEF FileTypes
        <3> QED BY <1>9, <3>1 DEF Files!UpdateCacheEntry, FileTypes
    <2>5. /\ \A u \in Readers \ Writers : pc'[u] \in {"idle", "insert"}
          /\ \A u \in Writers \ Readers : pc'[u] \in {"idle", "queued", "apply", "update"}
        BY <1>0, <1>9 DEF Files!UpdateCacheEntry, Files!Goto, FileTypes
    <2>6. \A u \in Writers : Elements(writes'[u]) \subseteq taken[u]
        BY <2>2, <2>3 DEF FileTypes
    <2>7. UNCHANGED <<taken, file, issued, overlapping, dropped, loaded>>
        BY <1>9 DEF Files!UpdateCacheEntry
    <2> QED BY <2>4, <2>5, <2>6, <2>7 DEF FileTypes
<1>10. ASSUME NEW t \in Writers, Files!Clear(t) PROVE FileTypes'
    <2>1. Elements(queue) \subseteq 1 .. issued
        BY DEF FileInv, Elements
    <2>2. dropped' \subseteq 1 .. issued
        BY <1>10, <2>1 DEF Files!Clear, Files!ToSet, Elements, FileTypes
    <2>3. /\ \A u \in Readers \ Writers : pc'[u] \in {"idle", "insert"}
          /\ \A u \in Writers \ Readers : pc'[u] \in {"idle", "queued", "apply", "update"}
        BY <1>0, <1>10 DEF Files!Clear, Files!Goto, FileTypes
    <2> QED BY <1>10, <2>2, <2>3 DEF Files!Clear, Files!readVars, FileTypes
<1> QED BY <1>1, <1>2, <1>3, <1>4, <1>5, <1>6, <1>7, <1>8, <1>9, <1>10 DEF Files!Next

\* So the types are as stated.
LEMMA FilesTyped == FileInv /\ FileTypes => Files!TypeOK
<1> SUFFICES ASSUME FileInv, FileTypes PROVE Files!TypeOK
    OBVIOUS
<1>1. Elements(queue) \subseteq 1 .. issued
    BY DEF FileInv, Elements
<1> QED BY <1>1 DEF FileTypes, Files!TypeOK, Files!ToSet, Elements

-----------------------------------------------------------------------------
\* Assets and their workers.

\* A worker has a load in its hands exactly while it runs it.
AssetInv ==
    /\ queued \in Nat
    /\ loadingQueue \in Seq(1 .. queued) /\ done \in Seq(1 .. queued)
    /\ DOMAIN task = Workers /\ DOMAIN state = Workers
    /\ \A w \in Workers :
          /\ task[w] \in {NoLoad} \cup 1 .. queued
          /\ state[w] = "running" <=> task[w] # NoLoad
    /\ Assets!LoadsOnce

\* At first there is no load.
LEMMA AssetInit == Assets!Init => AssetInv
<1> SUFFICES ASSUME Assets!Init PROVE AssetInv
    OBVIOUS
<1>1. /\ queued = 0 /\ loadingQueue = <<>> /\ done = <<>>
      /\ task = [w \in Workers |-> NoLoad] /\ state = [w \in Workers |-> "pool"]
    BY DEF Assets!Init
<1>2. Assets!LoadsOnce
    BY <1>1 DEF Assets!LoadsOnce, Assets!InHand, Assets!ToSet, Assets!IsInjective
<1> QED BY <1>1, <1>2 DEF AssetInv

\* The other managers' steps touch no load.
LEMMA AssetStill == AssetInv /\ UNCHANGED assetVars => AssetInv'
BY DEF AssetInv, Assets!LoadsOnce, Assets!InHand, assetVars

\* A worker that wakes up or goes to sleep takes nothing along.
LEMMA SleepInv ==
    ASSUME AssetInv, UNCHANGED <<loadingQueue, task, queued, done>>, DOMAIN state' = DOMAIN state,
           \A w \in Workers : state'[w] = "running" <=> state[w] = "running"
    PROVE  AssetInv'
BY DEF AssetInv, Assets!LoadsOnce, Assets!InHand

\* A new load is nowhere yet.
LEMMA QueueInv == ASSUME AssetInv, Assets!QueueAssetLoad PROVE AssetInv'
<1>1. /\ queued \in Nat /\ queued' = queued + 1 /\ loadingQueue' = Append(loadingQueue, queued + 1)
      /\ UNCHANGED <<task, done>>
    BY DEF AssetInv, Assets!QueueAssetLoad
<1>2. DOMAIN state' = DOMAIN state /\ \A w \in Workers : state'[w] = "running" <=> state[w] = "running"
    BY DEF AssetInv, Assets!QueueAssetLoad, Assets!NotifyOne
<1>3. 1 .. queued' = (1 .. queued) \cup {queued + 1} /\ queued + 1 \notin 1 .. queued
    BY <1>1
<1>4. loadingQueue \in Seq(1 .. queued') /\ done' \in Seq(1 .. queued')
    BY <1>1, <1>3, SeqMonotonic DEF AssetInv
<1>5. loadingQueue' \in Seq(1 .. queued')
    BY <1>1, <1>3, <1>4, AppendProperties
<1>6. /\ 1 .. queued = Elements(loadingQueue) \cup Assets!InHand \cup Elements(done)
      /\ Elements(loadingQueue) \cap (Assets!InHand \cup Elements(done)) = {}
      /\ Assets!InHand \cap Elements(done) = {}
      /\ Distinct(loadingQueue) /\ Distinct(done)
    BY DEF AssetInv, Assets!LoadsOnce, Assets!ToSet, Assets!IsInjective, Elements, Distinct
<1>7. /\ Elements(loadingQueue') = Elements(loadingQueue) \cup {queued + 1}
      /\ Distinct(loadingQueue')
    <2>1. queued + 1 \notin Elements(loadingQueue)
        BY <1>3, <1>6
    <2> QED BY <1>1, <1>4, <1>6, <2>1, Appended
<1>8. Assets!InHand' = Assets!InHand
    BY <1>1 DEF Assets!InHand
<1>9. /\ 1 .. queued' = Elements(loadingQueue') \cup Assets!InHand' \cup Elements(done')
      /\ Elements(loadingQueue') \cap (Assets!InHand' \cup Elements(done')) = {}
    <2>1. Elements(done') = Elements(done) /\ Elements(loadingQueue') = Elements(loadingQueue) \cup {queued + 1}
        BY <1>1, <1>7
    <2>2. queued + 1 \notin Assets!InHand \cup Elements(done)
        BY <1>3, <1>6
    <2>3. 1 .. queued' = Elements(loadingQueue) \cup Assets!InHand \cup Elements(done) \cup {queued + 1}
        BY <1>3, <1>6
    <2>4. Elements(loadingQueue) \cap (Assets!InHand \cup Elements(done)) = {}
        BY <1>6
    <2> QED BY <1>8, <2>1, <2>2, <2>3, <2>4
<1>10. \A v, w \in Workers : task'[v] # NoLoad /\ task'[v] = task'[w] => v = w
    BY <1>1 DEF AssetInv, Assets!LoadsOnce
<1>11. Assets!LoadsOnce'
    <2>1. \A s : Assets!ToSet(s) = Elements(s) /\ (Assets!IsInjective(s) <=> Distinct(s))
        BY DEF Assets!ToSet, Assets!IsInjective, Elements, Distinct
    <2>2. Assets!InHand' \cap Elements(done') = {} /\ Distinct(done')
        BY <1>1, <1>6, <1>8
    <2> QED BY <1>7, <1>9, <1>10, <2>1, <2>2 DEF Assets!LoadsOnce
<1>12. \A w \in Workers : task'[w] \in {NoLoad} \cup 1 .. queued'
    BY <1>1, <1>3 DEF AssetInv
<1> QED BY <1>1, <1>2, <1>4, <1>5, <1>11, <1>12 DEF AssetInv

\* The head of the queue goes into the hands of one worker, which had nothing.
LEMMA LoopInv ==
    ASSUME AssetInv, NEW w \in Workers, Assets!Loop(w), loadingQueue # <<>>
    PROVE  AssetInv'
<1> DEFINE load == Head(loadingQueue)
<1>1. /\ UNCHANGED <<queued, done>> /\ loadingQueue' = Tail(loadingQueue)
      /\ DOMAIN task' = Workers /\ task'[w] = load /\ \A v \in Workers \ {w} : task'[v] = task[v]
      /\ DOMAIN state' = Workers /\ state'[w] = "running"
      /\ \A v \in Workers \ {w} : state'[v] = state[v]
    BY DEF AssetInv, Assets!Loop
<1>2. task[w] = NoLoad
    BY DEF AssetInv, Assets!Loop
<1>3. /\ load \in 1 .. queued /\ loadingQueue' \in Seq(1 .. queued)
      /\ Elements(loadingQueue) = Elements(loadingQueue') \cup {load}
      /\ Distinct(loadingQueue) => Distinct(loadingQueue') /\ load \notin Elements(loadingQueue')
    BY <1>1, HeadTaken DEF AssetInv
<1>4. load # NoLoad
    BY <1>3, ResourcesAssumption DEF AssetInv
<1>5. /\ 1 .. queued = Elements(loadingQueue) \cup Assets!InHand \cup Elements(done)
      /\ Elements(loadingQueue) \cap (Assets!InHand \cup Elements(done)) = {}
      /\ Assets!InHand \cap Elements(done) = {}
      /\ Distinct(loadingQueue) /\ Distinct(done)
    BY DEF AssetInv, Assets!LoadsOnce, Assets!ToSet, Assets!IsInjective, Elements, Distinct
<1> HIDE DEF load
<1>6. Assets!InHand' = Assets!InHand \cup {load}
    BY <1>1, <1>2, <1>4 DEF Assets!InHand
<1>7. /\ 1 .. queued' = Elements(loadingQueue') \cup Assets!InHand' \cup Elements(done')
      /\ Elements(loadingQueue') \cap (Assets!InHand' \cup Elements(done')) = {}
      /\ Assets!InHand' \cap Elements(done') = {}
    BY <1>1, <1>3, <1>5, <1>6
<1>8. \A v \in Workers : task[v] # load
    BY <1>3, <1>4, <1>5 DEF Assets!InHand
<1>9. \A v, u \in Workers : task'[v] # NoLoad /\ task'[v] = task'[u] => v = u
    BY <1>1, <1>8 DEF AssetInv, Assets!LoadsOnce
<1>10. Assets!LoadsOnce'
    BY <1>1, <1>3, <1>5, <1>7, <1>9
       DEF Assets!LoadsOnce, Assets!ToSet, Assets!IsInjective, Elements, Distinct
<1> QED BY <1>1, <1>3, <1>4, <1>10 DEF AssetInv

\* A load that was run goes from the worker's hands to those done.
LEMMA RunInv ==
    ASSUME AssetInv, NEW w \in Workers, Assets!Run(w)
    PROVE  AssetInv'
<1>1. /\ UNCHANGED <<queued, loadingQueue>> /\ done' = Append(done, task[w])
      /\ DOMAIN task' = Workers /\ task'[w] = NoLoad /\ \A v \in Workers \ {w} : task'[v] = task[v]
      /\ DOMAIN state' = Workers /\ state'[w] = "loop"
      /\ \A v \in Workers \ {w} : state'[v] = state[v]
    BY DEF AssetInv, Assets!Run
<1>2. task[w] # NoLoad /\ task[w] \in 1 .. queued
    BY DEF AssetInv, Assets!Run
<1>3. /\ 1 .. queued = Elements(loadingQueue) \cup Assets!InHand \cup Elements(done)
      /\ Elements(loadingQueue) \cap (Assets!InHand \cup Elements(done)) = {}
      /\ Assets!InHand \cap Elements(done) = {}
      /\ Distinct(loadingQueue) /\ Distinct(done)
    BY DEF AssetInv, Assets!LoadsOnce, Assets!ToSet, Assets!IsInjective, Elements, Distinct
<1>4. task[w] \in Assets!InHand
    BY <1>2 DEF Assets!InHand
<1>5. \A v \in Workers \ {w} : task[v] # task[w]
    BY <1>2 DEF AssetInv, Assets!LoadsOnce
<1>6. Assets!InHand' = Assets!InHand \ {task[w]}
    BY <1>1, <1>2, <1>5 DEF Assets!InHand
<1>7. done' \in Seq(1 .. queued)
    BY <1>1, <1>2, AppendProperties DEF AssetInv
<1>8. Elements(done') = Elements(done) \cup {task[w]} /\ Distinct(done')
    <2>1. task[w] \notin Elements(done)
        BY <1>3, <1>4
    <2> QED BY <1>1, <1>3, <2>1, Appended DEF AssetInv
<1>9. /\ 1 .. queued' = Elements(loadingQueue') \cup Assets!InHand' \cup Elements(done')
      /\ Elements(loadingQueue') \cap (Assets!InHand' \cup Elements(done')) = {}
      /\ Assets!InHand' \cap Elements(done') = {}
    BY <1>1, <1>3, <1>4, <1>6, <1>8
<1>10. \A v, u \in Workers : task'[v] # NoLoad /\ task'[v] = task'[u] => v = u
    BY <1>1 DEF AssetInv, Assets!LoadsOnce
<1>11. Assets!LoadsOnce'
    BY <1>1, <1>3, <1>8, <1>9, <1>10
       DEF Assets!LoadsOnce, Assets!ToSet, Assets!IsInjective, Elements, Distinct
<1> QED BY <1>1, <1>7, <1>11 DEF AssetInv

\* Every step of the loader and its workers keeps each load in one place.
LEMMA AssetSteps == AssetInv /\ Assets!Next => AssetInv'
<1> SUFFICES ASSUME AssetInv, Assets!Next PROVE AssetInv'
    OBVIOUS
<1>1. CASE Assets!LoadAssetAsync
    BY <1>1, SleepInv DEF Assets!LoadAssetAsync
<1>2. CASE Assets!QueueAssetLoad
    BY <1>2, QueueInv
<1>3. ASSUME NEW w \in Workers,
             \/ Assets!TakePoolTask(w) \/ Assets!SpuriousWakeup(w)
             \/ Assets!Loop(w) /\ loadingQueue = <<>>
      PROVE  AssetInv'
    <2>1. /\ UNCHANGED <<loadingQueue, task, queued, done>> /\ DOMAIN state' = DOMAIN state
          /\ \A v \in Workers : state'[v] = "running" <=> state[v] = "running"
        BY <1>3 DEF AssetInv, Assets!TakePoolTask, Assets!SpuriousWakeup, Assets!Loop
    <2> QED BY <2>1, SleepInv
<1>4. ASSUME NEW w \in Workers, Assets!Loop(w), loadingQueue # <<>> PROVE AssetInv'
    BY <1>4, LoopInv
<1>5. ASSUME NEW w \in Workers, Assets!Run(w) PROVE AssetInv'
    BY <1>5, RunInv
<1> QED BY <1>1, <1>2, <1>3, <1>4, <1>5 DEF Assets!Next

\* The pool has its loops and the tasks that came later; the states are those there are.
AssetTypes ==
    /\ poolTasks \in Seq({"loop", "async"}) /\ queued \in 0 .. MaxLoads
    /\ state \in [Workers -> {"pool", "loop", "waiting", "running"}]
    /\ task \in [Workers -> {NoLoad} \cup 1 .. queued]

\* At first there is a loop for each worker.
LEMMA AssetTypesInit == Assets!Init => AssetTypes
<1> SUFFICES ASSUME Assets!Init PROVE AssetTypes
    OBVIOUS
<1>1. Assets!Cardinality(Workers) = Cardinality(Workers)
    BY DEF Cardinality, Assets!Cardinality
<1>2. Assets!Cardinality(Workers) \in Nat
    BY <1>1, FS_CardinalityType, ResourcesAssumption
<1>3. poolTasks \in Seq({"loop", "async"})
    BY <1>2 DEF Assets!Init
<1> QED BY <1>3, ResourcesAssumption DEF Assets!Init, AssetTypes

\* The other managers' steps touch no worker.
LEMMA AssetTypesStill == AssetTypes /\ UNCHANGED assetVars => AssetTypes'
BY DEF AssetTypes, assetVars

\* Every step of the loader and its workers keeps to the loads there were.
LEMMA AssetTypesSteps == AssetInv /\ AssetTypes /\ Assets!Next => AssetTypes'
<1> SUFFICES ASSUME AssetInv, AssetTypes, Assets!Next PROVE AssetTypes'
    OBVIOUS
<1>1. CASE Assets!LoadAssetAsync
    <2>1. /\ poolTasks' = Append(poolTasks, "async") /\ poolTasks \in Seq({"loop", "async"})
          /\ UNCHANGED <<state, task, queued>>
        BY <1>1 DEF Assets!LoadAssetAsync, AssetTypes
    <2>2. poolTasks' \in Seq({"loop", "async"})
        BY <2>1, AppendProperties
    <2> QED BY <2>1, <2>2 DEF AssetTypes
<1>2. CASE Assets!QueueAssetLoad
    <2>1. queued' \in 0 .. MaxLoads /\ 1 .. queued \subseteq 1 .. queued' /\ UNCHANGED <<poolTasks, task>>
        BY <1>2, ResourcesAssumption DEF Assets!QueueAssetLoad, AssetTypes
    <2>2. state' \in [Workers -> {"pool", "loop", "waiting", "running"}]
        BY <1>2 DEF Assets!QueueAssetLoad, Assets!NotifyOne, AssetTypes
    <2> QED BY <2>1, <2>2 DEF AssetTypes
<1>3. ASSUME NEW w \in Workers, Assets!TakePoolTask(w) PROVE AssetTypes'
    <2>1. poolTasks # <<>> /\ poolTasks' = Tail(poolTasks) /\ poolTasks \in Seq({"loop", "async"})
          /\ UNCHANGED <<task, queued>>
        BY <1>3 DEF Assets!TakePoolTask, AssetTypes
    <2>2. poolTasks' \in Seq({"loop", "async"})
        BY <2>1, HeadTailProperties
    <2>3. state' \in [Workers -> {"pool", "loop", "waiting", "running"}]
        BY <1>3 DEF Assets!TakePoolTask, AssetTypes
    <2> QED BY <2>1, <2>2, <2>3 DEF AssetTypes
<1>4. ASSUME NEW w \in Workers, Assets!SpuriousWakeup(w) PROVE AssetTypes'
    BY <1>4 DEF Assets!SpuriousWakeup, AssetTypes
<1>5. ASSUME NEW w \in Workers, Assets!Loop(w) PROVE AssetTypes'
    <2>1. loadingQueue # <<>> => Head(loadingQueue) \in 1 .. queued
        BY HeadTailProperties DEF AssetInv
    <2> QED BY <1>5, <2>1 DEF Assets!Loop, AssetTypes
<1>6. ASSUME NEW w \in Workers, Assets!Run(w) PROVE AssetTypes'
    BY <1>6 DEF Assets!Run, AssetTypes
<1> QED BY <1>1, <1>2, <1>3, <1>4, <1>5, <1>6 DEF Assets!Next

\* So the types are as stated.
LEMMA AssetsTyped == AssetTypes => Assets!TypeOK
BY DEF AssetTypes, Assets!TypeOK, Assets!ToSet

-----------------------------------------------------------------------------
\* The managers together.

\* What each manager sees of a step of the program.
PartSteps ==
    /\ Graphics!Next   \/ UNCHANGED graphicsVars
    /\ Virtual!Next    \/ UNCHANGED virtualVars
    /\ Memory!GameNext \/ UNCHANGED gameVars
    /\ Memory!HugeNext \/ UNCHANGED hugeVars
    /\ Shaders!Next    \/ UNCHANGED shaderVars
    /\ Files!Next      \/ UNCHANGED fileVars
    /\ Assets!Next     \/ UNCHANGED assetVars

\* A step is one of the manager in focus, and leaves the others alone.
LEMMA StepsOfParts == [Next]_vars => PartSteps
<1> SUFFICES ASSUME [Next]_vars PROVE PartSteps
    OBVIOUS
<1>1. CASE UNCHANGED vars
    BY <1>1 DEF vars, partVars, PartSteps
<1>2. CASE GraphicsStep
    BY <1>2 DEF GraphicsStep, PartSteps
<1>3. CASE VirtualStep
    BY <1>3 DEF VirtualStep, PartSteps
<1>4. CASE GameStep
    BY <1>4 DEF GameStep, PartSteps
<1>5. CASE HugeStep
    BY <1>5 DEF HugeStep, PartSteps
<1>6. CASE ShadersStep
    BY <1>6 DEF ShadersStep, PartSteps
<1>7. CASE FilesStep
    BY <1>7 DEF FilesStep, PartSteps
<1>8. CASE AssetsStep
    BY <1>8 DEF AssetsStep, PartSteps
<1>9. CASE EventsStep
    BY <1>9 DEF EventsStep, partVars, PartSteps
<1>10. CASE MessagesStep
    BY <1>10 DEF MessagesStep, partVars, PartSteps
<1> QED BY <1>1, <1>2, <1>3, <1>4, <1>5, <1>6, <1>7, <1>8, <1>9, <1>10 DEF Next

\* The inductive invariant: that of each manager.
IndInv ==
    /\ GraphicsInv /\ ChargeInv
    /\ VirtualInv
    /\ GameInv /\ TotalInv
    /\ HugeInv
    /\ ShaderInv /\ ShaderTypes
    /\ FileInv /\ FileTypes
    /\ AssetInv /\ AssetTypes

\* Every manager starts in its invariant.
LEMMA InitIndInv == Init => IndInv
<1> SUFFICES ASSUME Init PROVE IndInv
    OBVIOUS
<1>1. /\ Graphics!Init /\ Virtual!Init /\ Memory!GameInit /\ Memory!HugeInit
      /\ Shaders!Init /\ Files!Init /\ Assets!Init
    BY DEF Init, Memory!Init
<1>2. GraphicsInv /\ ChargeInv /\ VirtualInv
    BY <1>1, GraphicsInit, ChargeInit, VirtualInit
<1>3. GameInv /\ TotalInv /\ HugeInv /\ ShaderInv /\ ShaderTypes
    BY <1>1, GameInit, TotalInit, HugeInit, ShaderInit, ShaderTypesInit
<1>4. FileInv /\ FileTypes /\ AssetInv /\ AssetTypes
    BY <1>1, FileInit, FileTypesInit, AssetInit, AssetTypesInit
<1> QED BY <1>2, <1>3, <1>4 DEF IndInv

\* Every manager keeps its invariant, in its own steps and in those of the others.
LEMMA NextIndInv == IndInv /\ [Next]_vars => IndInv'
<1> SUFFICES ASSUME IndInv, [Next]_vars PROVE IndInv'
    OBVIOUS
<1>0. PartSteps
    BY StepsOfParts
<1>1. GraphicsInv'
    BY <1>0, GraphicsSteps, GraphicsStill DEF IndInv, PartSteps
<1>2. ChargeInv'
    BY <1>0, ChargeSteps, ChargeStill DEF IndInv, PartSteps
<1>4. VirtualInv'
    BY <1>0, VirtualSteps, VirtualStill DEF IndInv, PartSteps
<1>5. GameInv' /\ TotalInv'
    BY <1>0, GameSteps, GameStill, TotalSteps, TotalStill DEF IndInv, PartSteps
<1>6. HugeInv'
    BY <1>0, AllocateInv, HugeStill DEF IndInv, PartSteps, Memory!HugeNext
<1>7. ShaderInv' /\ ShaderTypes'
    BY <1>0, ShaderDrops, ShaderStill, ShaderTypesSteps, ShaderTypesStill DEF IndInv, PartSteps
<1>8. FileInv' /\ FileTypes'
    BY <1>0, FileSteps, FileStill, FileTypesSteps, FileTypesStill DEF IndInv, PartSteps
<1>9. AssetInv' /\ AssetTypes'
    BY <1>0, AssetSteps, AssetStill, AssetTypesSteps, AssetTypesStill DEF IndInv, PartSteps
<1> QED BY <1>1, <1>2, <1>4, <1>5, <1>6, <1>7, <1>8, <1>9 DEF IndInv

\* The invariants of the managers hold throughout.
LEMMA Invariance == Spec => []IndInv
BY InitIndInv, NextIndInv, PTL DEF Spec

\* Whichever textures move before the process ends, flushes fail half way and workers
\* share their queue: the two records of a thing agree, blocks of small pages never overlap
\* one another, and a write that is lost was queued while some thread flushed.
THEOREM RecordsAlwaysAgree == Spec => []RecordsAgree
<1>1. IndInv => RecordsAgree
    BY SizeKept DEF IndInv, GraphicsInv, GameInv, HugeInv, FileInv, AssetInv, RecordsAgree
<1> QED BY <1>1, Invariance, PTL

\* Whatever is loaded, moved, compressed, written or run, every part stays of its type:
\* sizes and charges never go below zero, and no thread is in a state it cannot be in.
THEOREM TypesCorrect == Spec => []TypeOK
<1>1. IndInv => TypeOK
    BY GraphicsTyped, ShadersTyped, FilesTyped, AssetsTyped
       DEF IndInv, VirtualInv, TotalInv, TypeOK
<1> QED BY <1>1, Invariance, PTL

\* Over any run of preloads, evictions, compressions and allocations, and whatever the
\* unset counter of virtual memory started from, what was charged covers what is held.
THEOREM AlwaysAccounted == Spec => []Accounted
<1>1. IndInv => Accounted
    BY DEF IndInv, ChargeInv, VirtualInv, TotalInv, Accounted
<1> QED BY <1>1, Invariance, PTL

\* A shader is dropped, for room or for age, only when none that stays was last used
\* before it, also when the default shaders are loaded again one after the other.
THEOREM OldestEvicted == Spec => EvictsOldest
<1>1. IndInv /\ [Next]_vars =>
         [\A k \in DOMAIN shaderCache \ DOMAIN shaderCache' :
             \A j \in DOMAIN shaderCache \cap DOMAIN shaderCache' :
                shaderCache[k].lastUsed <= shaderCache'[j].lastUsed]_(Shaders!vars)
    <2> SUFFICES ASSUME IndInv, PartSteps, NEW k \in DOMAIN shaderCache \ DOMAIN shaderCache',
                        NEW j \in DOMAIN shaderCache \cap DOMAIN shaderCache'
                 PROVE  shaderCache[k].lastUsed <= shaderCache'[j].lastUsed
        BY StepsOfParts
    <2>1. shaderCache' # shaderCache
        OBVIOUS
    <2>2. Shaders!Next
        BY <2>1 DEF PartSteps, shaderVars
    <2>3. Dropping(shaderCache')
        <3>1. ShaderInv
            BY DEF IndInv
        <3>2. now' = now => Dropping(shaderCache')
            BY <2>2, <3>1, ShaderDrops
        <3>3. UNCHANGED shaderCache \/ now' = now
            BY <2>2, <3>1, ShaderDrops
        <3> QED BY <2>1, <3>2, <3>3
    <2> QED BY <2>3 DEF Dropping
<1> QED BY <1>1, Invariance, PTL DEF Spec, EvictsOldest, Shaders!EvictsOldest

=============================================================================
