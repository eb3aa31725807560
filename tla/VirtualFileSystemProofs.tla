---------------------- MODULE VirtualFileSystemProofs ----------------------
(***************************************************************************)
(* Proofs about VirtualFileSystem, for any readers, files, cache levels,   *)
(* pool and read sizes: what is cached for a path comes from its file, a   *)
(* buffer serves one read, and the timestamps order what is cached.        *)
(***************************************************************************)
EXTENDS VirtualFileSystem, SequenceTheorems, WellFoundedInduction, TLAPS

AnyPiece == [from : Nat, len : Nat \ {0}, packed : BOOLEAN]

\* Data that can come from p's file; packing makes it shorter, never longer.
PieceOf(p) == {e \in AnyPiece : e.from + e.len <= FileSize[p]}

\* What a level may hold.
Data == {f \in UNION {[D -> AnyPiece] : D \in SUBSET Path} :
            \A p \in DOMAIN f : f[p] \in PieceOf(p)}

Cache == [Level -> [size : Nat, data : Data]]

\* The cache with what is on its way into it: the compressor's packed copy, and the
\* piece of a reader that is about to store.
PiecesInv ==
    /\ levels \in Cache
    /\ packing # Nothing => packing \in [path : Path, data : AnyPiece]
                         /\ packing.data \in PieceOf(packing.path)
    /\ \A r \in Reader : pc[r] = "store" => piece[r] \in PieceOf(file[r])

\* A read asks for something, and has a buffer from acquire to release.
LocalsInv ==
    /\ DOMAIN size = Reader /\ DOMAIN piece = Reader /\ DOMAIN buffer = Reader
    /\ \A r \in Reader :
        /\ pc[r] \in {"find", "create", "map", "copy", "acquire", "fill"} => size[r] \in Nat \ {0}
        /\ pc[r] \in {"fill", "release"} => buffer[r] # NoBuffer

\* The readers' part of the inductive invariant.  An entry is genuine because the pieces
\* that wait to be put are; a pointer held at release points to a buffer or freed memory.
ReaderInv == ReadTypeOK /\ PiecesInv /\ LocalsInv /\ BufferExclusive

\* The inductive invariant: with the order of the timestamps, which the readers' part
\* needs nothing of.
IndInv == ReaderInv /\ RecencyTypeOK

-----------------------------------------------------------------------------
\* The operators.

\* A set of natural numbers that is not empty has a smallest one.
LEMMA MinOfNats ==
    ASSUME NEW S \in SUBSET Nat, S # {}
    PROVE  Min(S) \in S /\ \A x \in S : Min(S) <= x
<1>1. PICK m \in S : \A x \in S : ~ (<<x, m>> \in OpToRel(<, Nat))
    BY NatLessThanWellFounded, WFMin
<1>2. \A x \in S : ~ (x < m)
    BY <1>1 DEF OpToRel
<1>3. \A x \in S : m <= x
    BY <1>2
<1> QED BY <1>3 DEF Min

\* The smaller of two numbers, which may be negative.
LEMMA MinOfTwo ==
    ASSUME NEW a \in Int, NEW b \in Int
    PROVE  Min({a, b}) \in {a, b} /\ Min({a, b}) <= a /\ Min({a, b}) <= b
<1>1. \E m \in {a, b} : \A x \in {a, b} : m <= x
    <2>1. CASE a <= b
        BY <2>1
    <2>2. CASE ~ (a <= b)
        BY <2>2
    <2> QED BY <2>1, <2>2
<1> QED BY <1>1 DEF Min

\* Levels are numbered from 1.
LEMMA Levels ==
    /\ Level \subseteq Nat /\ 1 \in Level
    /\ \A l \in Level : l # 1 => l - 1 \in Level
<1>1. Level = 1 .. Len(LevelSizes) /\ Len(LevelSizes) \in Nat
    BY LevelAssumption, LenProperties DEF Level
<1>2. Len(LevelSizes) # 0
    BY LevelAssumption, EmptySeq
<1> QED BY <1>1, <1>2

\* A level's data maps paths to pieces of their files.
LEMMA DataEntry ==
    ASSUME NEW f \in Data, NEW p \in DOMAIN f
    PROVE  p \in Path /\ f[p] \in PieceOf(p)
BY DEF Data

\* A function from some paths to pieces of their files is data.
LEMMA DataFunction ==
    ASSUME NEW D \in SUBSET Path, NEW g \in [D -> AnyPiece], \A q \in D : g[q] \in PieceOf(q)
    PROVE  g \in Data
<1>1. g \in UNION {[C -> AnyPiece] : C \in SUBSET Path}
    OBVIOUS
<1>2. DOMAIN g = D
    OBVIOUS
<1> QED BY <1>1, <1>2 DEF Data

\* Adding a piece of a path's file to data keeps it data.
LEMMA WithData ==
    ASSUME NEW f \in Data, NEW p \in Path, NEW e \in PieceOf(p)
    PROVE  With(f, p, e) \in Data
<1> DEFINE g == With(f, p, e)
<1>1. DOMAIN g = DOMAIN f \cup {p} /\ DOMAIN g \in SUBSET Path
    BY DEF With, Data
<1>2. \A q \in DOMAIN g : g[q] \in PieceOf(q)
    BY DataEntry DEF With
<1>3. g \in [DOMAIN g -> AnyPiece]
    BY <1>2 DEF With, PieceOf
<1> HIDE DEF g
<1>4. g \in Data
    BY <1>1, <1>2, <1>3, DataFunction
<1> QED BY <1>4 DEF g

\* Removing entries from data keeps it data.
LEMMA WithoutData ==
    ASSUME NEW f \in Data, NEW S
    PROVE  Without(f, S) \in Data
<1> DEFINE g == Without(f, S)
<1>1. DOMAIN g \in SUBSET DOMAIN f /\ DOMAIN g \in SUBSET Path
    BY DEF Without, Restrict, Data
<1>2. \A q \in DOMAIN g : g[q] = f[q]
    BY DEF Without, Restrict
<1>3. \A q \in DOMAIN g : g[q] \in PieceOf(q)
    BY <1>1, <1>2, DataEntry
<1>4. g \in [DOMAIN g -> AnyPiece]
    BY <1>3 DEF Without, Restrict, PieceOf
<1> HIDE DEF g
<1>5. g \in Data
    BY <1>1, <1>3, <1>4, DataFunction
<1> QED BY <1>5 DEF g

\* A cached path is held by a highest level, whose entry for it is a piece of its file.
LEMMA EntryOfPath ==
    ASSUME levels \in Cache, NEW p, Cached(p)
    PROVE  /\ Min(Holding(p)) \in Level /\ p \in DOMAIN levels[Min(Holding(p))].data
           /\ p \in Path /\ Entry(p) \in PieceOf(p)
<1>1. Holding(p) \in SUBSET Nat /\ Holding(p) # {}
    BY Levels DEF Holding, Cached
<1>2. Min(Holding(p)) \in Holding(p)
    BY <1>1, MinOfNats
<1>3. Min(Holding(p)) \in Level /\ p \in DOMAIN levels[Min(Holding(p))].data
    BY <1>2 DEF Holding
<1>4. levels[Min(Holding(p))].data \in Data
    BY <1>3 DEF Cache
<1> QED BY <1>3, <1>4, DataEntry DEF Entry

\* get moves an entry as it is, so the cache keeps its pieces.
LEMMA GetCache ==
    ASSUME levels \in Cache, NEW p, Cached(p), Get(p)
    PROVE  levels' \in Cache
<1> DEFINE l == Min(Holding(p))
<1>1. l \in Level /\ p \in DOMAIN levels[l].data /\ p \in Path
      /\ levels[l].data[p] \in PieceOf(p)
    BY EntryOfPath DEF Entry
<1>2. levels' = PromoteToHigherLevel(p, l)
    BY DEF Get
<1> HIDE DEF l
<1>3. CASE l = 1
    BY <1>2, <1>3 DEF PromoteToHigherLevel
<1>4. CASE l # 1
    <2>1. l - 1 \in Level /\ l - 1 # l
        BY <1>1, <1>4, Levels
    <2>2. \A k \in Level : levels[k].data \in Data /\ levels[k] \in [size : Nat, data : Data]
        BY DEF Cache
    <2>3. Without(levels[l].data, {p}) \in Data
        BY <1>1, <2>2, WithoutData
    <2>4. With(levels[l - 1].data, p, levels[l].data[p]) \in Data
        BY <1>1, <2>1, <2>2, WithData
    <2>5. levels' = [levels EXCEPT ![l].data = Without(@, {p}),
                                   ![l - 1].data = With(@, p, levels[l].data[p])]
        BY <1>2, <1>4 DEF PromoteToHigherLevel
    <2>6. levels' = [k \in Level |->
                IF k = l - 1 THEN [levels[k] EXCEPT !.data = With(levels[l - 1].data, p, levels[l].data[p])]
                ELSE IF k = l THEN [levels[k] EXCEPT !.data = Without(levels[l].data, {p})]
                ELSE levels[k]]
        BY <1>1, <2>1, <2>2, <2>5 DEF Cache
    <2> QED BY <2>2, <2>3, <2>4, <2>6 DEF Cache
<1> QED BY <1>3, <1>4

\* put of a piece of the path's own file keeps the cache.
LEMMA PutCache ==
    ASSUME levels \in Cache, NEW p \in Path, NEW e \in PieceOf(p), Put(p, e)
    PROVE  levels' \in Cache
<1> DEFINE l == IF Cached(p) THEN Min(Holding(p)) ELSE 1
<1>1. l \in Level
    BY EntryOfPath, Levels
<1>2. levels' = [levels EXCEPT ![l].data = With(@, p, e)]
    BY DEF Put
<1> HIDE DEF l
<1>3. levels[l].data \in Data /\ levels[l] \in [size : Nat, data : Data]
    BY <1>1 DEF Cache
<1>4. With(levels[l].data, p, e) \in Data
    BY <1>3, WithData
<1> QED BY <1>1, <1>2, <1>3, <1>4 DEF Cache

-----------------------------------------------------------------------------
\* The steps.

\* In the beginning nothing is cached and nobody reads.
LEMMA InitReaderInv == Init => ReaderInv
<1> SUFFICES ASSUME Init PROVE ReaderInv
    OBVIOUS
<1>1. pool \in Seq(BOOLEAN)
    BY BufferAssumption DEF Init
<1>2. ReadTypeOK
    BY <1>1 DEF Init, ReadTypeOK
<1>3. levels \in Cache
    <2>1. [x \in {} |-> 0] \in Data
        <3>1. [x \in {} |-> 0] \in [{} -> AnyPiece]
            OBVIOUS
        <3> QED BY <3>1, DataFunction
    <2>2. \A l \in Level : LevelSizes[l] \in Nat
        BY LevelAssumption, LenProperties DEF Level
    <2> QED BY <2>1, <2>2 DEF Init, Cache
<1>4. PiecesInv
    BY <1>3 DEF Init, PiecesInv, Cache
<1>5. LocalsInv
    BY DEF Init, LocalsInv
<1>6. BufferExclusive
    BY BufferAssumption DEF Init, BufferExclusive, Held
<1> QED BY <1>2, <1>4, <1>5, <1>6 DEF ReaderInv

\* An answer moves the position on and ends with the locals of read cleared.
LEMMA Answered ==
    ASSUME ReadTypeOK, LocalsInv, NEW r \in Reader, NEW n \in Nat \cup {-1}, Answer(r, n)
    PROVE  /\ file' = file /\ lost' = lost /\ position' \in [Reader -> Nat] /\ atEnd' \in Reader \cup {NoReader}
           /\ DOMAIN size' = Reader /\ DOMAIN piece' = Reader
           /\ \A q \in Reader : q # r => size'[q] = size[q] /\ piece'[q] = piece[q]
BY DEF Answer, ReadTypeOK, LocalsInv

\* While pool and buffers stay as they are, so does who holds what.
LEMMA BuffersUnchanged ==
    ASSUME BufferExclusive, UNCHANGED <<pool, buffer>>
    PROVE  BufferExclusive'
BY DEF BufferExclusive, Held

\* The optimizer only removes entries.
LEMMA OptimizeReaderInv == ReaderInv /\ Optimize => ReaderInv'
<1> SUFFICES ASSUME ReaderInv, Optimize PROVE ReaderInv'
    OBVIOUS
<1> USE DEF ReaderInv
<1>1. levels' \in Cache
    <2>1. \A l \in Level : levels[l] \in [size : Nat, data : Data]
        BY DEF PiecesInv, Cache
    <2>2. \A l \in Level : Without(levels[l].data, Evicted(l)) \in Data
        BY <2>1, WithoutData
    <2>3. \A l \in Level : [levels[l] EXCEPT !.data = Without(@, Evicted(l))] \in [size : Nat, data : Data]
        BY <2>1, <2>2
    <2> QED BY <2>3 DEF Optimize, Cache
<1>2. ReadTypeOK'
    BY DEF Optimize, ReadTypeOK, readVars, localVars
<1>3. PiecesInv'
    BY <1>1 DEF Optimize, PiecesInv, Cache, readVars, localVars, workVars
<1>4. LocalsInv'
    BY DEF Optimize, LocalsInv, readVars, localVars
<1>5. BufferExclusive'
    BY BuffersUnchanged DEF Optimize, readVars, localVars
<1> QED BY <1>2, <1>3, <1>4, <1>5

\* A larger pool keeps its flags, so a buffer that is held stays in use.
LEMMA CollectReaderInv == ReaderInv /\ Collect => ReaderInv'
<1> SUFFICES ASSUME ReaderInv, Collect PROVE ReaderInv'
    OBVIOUS
<1> USE DEF ReaderInv
<1> DEFINE new == [k \in 1 .. PoolGrowth |-> FALSE]
<1>1. levels' \in Cache
    <2>1. CASE UNCHANGED levels
        BY <2>1 DEF PiecesInv, Cache
    <2>2. CASE levels' = [levels EXCEPT ![1].size = @ + LevelGrowth]
        <3>1. 1 \in Level /\ LevelGrowth \in Nat
            BY Levels, LevelAssumption
        <3>2. levels[1] \in [size : Nat, data : Data] /\ levels[1].size + LevelGrowth \in Nat
            BY <3>1 DEF PiecesInv, Cache
        <3> QED BY <2>2, <3>1, <3>2 DEF PiecesInv, Cache
    <2> QED BY <2>1, <2>2 DEF Collect
<1>2. new \in Seq(BOOLEAN) /\ pool \in Seq(BOOLEAN)
    BY BufferAssumption DEF ReadTypeOK
<1>3. CASE UNCHANGED <<pool, buffer>>
    <2>1. ReadTypeOK'
        BY <1>3 DEF Collect, ReadTypeOK
    <2>2. PiecesInv'
        BY <1>1 DEF Collect, PiecesInv, Cache, workVars
    <2>3. LocalsInv'
        BY <1>3 DEF Collect, LocalsInv
    <2> QED BY <1>3, <2>1, <2>2, <2>3, BuffersUnchanged
<1>4. CASE \E moved \in BOOLEAN : Expanded(moved)
    <2>1. PICK moved \in BOOLEAN : Expanded(moved)
        BY <1>4
    <2>2. pool' = pool \o new
        BY <2>1 DEF Expanded
    <2> HIDE DEF new
    <2>3. pool' \in Seq(BOOLEAN) /\ Len(pool') = Len(pool) + Len(new)
          /\ Len(pool) \in Nat /\ Len(new) \in Nat
          /\ DOMAIN pool = 1 .. Len(pool) /\ DOMAIN pool' = 1 .. Len(pool')
        BY <1>2, <2>2, ConcatProperties, LenProperties
    <2>4. DOMAIN pool \subseteq DOMAIN pool' /\ \A k \in DOMAIN pool : pool'[k] = pool[k]
        <3>1. DOMAIN pool \subseteq 1 .. Len(pool) + Len(new)
            BY <2>3
        <3>2. \A k \in 1 .. Len(pool) + Len(new) : k \in DOMAIN pool => pool'[k] = pool[k]
            BY <1>2, <2>2, <2>3, ConcatProperties
        <3> QED BY <2>3, <3>1, <3>2
    <2>5. \A r \in Reader : buffer'[r] = buffer[r] \/ (buffer[r] # NoBuffer /\ buffer'[r] = Stale)
        BY <2>1 DEF Expanded
    <2>6. DOMAIN buffer' = Reader
        BY <2>1 DEF Expanded
    <2>7. ReadTypeOK'
        <3>1. \A r \in Reader : buffer'[r] \in DOMAIN pool' \cup {NoBuffer, Stale}
            BY <2>4, <2>5 DEF ReadTypeOK
        <3> QED BY <2>3, <3>1 DEF Collect, ReadTypeOK
    <2>8. PiecesInv'
        BY <1>1 DEF Collect, PiecesInv, Cache, workVars
    <2>9. LocalsInv'
        BY <2>5, <2>6, BufferAssumption DEF Collect, LocalsInv
    <2>10. BufferExclusive'
        <3>1. \A r \in Reader : buffer'[r] \in Nat => buffer'[r] = buffer[r]
            BY <2>5, BufferAssumption
        <3>2. \A k \in Held' : k \in Held
            <4> SUFFICES ASSUME NEW k \in DOMAIN pool', NEW r \in Reader, buffer'[r] = k
                         PROVE  k \in DOMAIN pool /\ buffer[r] = k
                BY DEF Held
            <4>1. k \in Nat
                BY <2>3
            <4>2. buffer[r] = k
                BY <3>1, <4>1
            <4>3. buffer[r] \in DOMAIN pool \cup {NoBuffer, Stale}
                BY DEF ReadTypeOK
            <4> QED BY <4>1, <4>2, <4>3, BufferAssumption
        <3>3. \A k \in Held' : pool'[k]
            BY <2>4, <3>2 DEF BufferExclusive, Held
        <3>4. \A r, q \in Reader : (r # q /\ buffer'[r] \in Nat) => buffer'[r] # buffer'[q]
            BY <3>1 DEF BufferExclusive
        <3> QED BY <3>3, <3>4 DEF BufferExclusive
    <2> QED BY <2>7, <2>8, <2>9, <2>10
<1> QED BY <1>3, <1>4 DEF Collect

\* The compressor puts back what it took from the cache, made shorter.
LEMMA CompressReaderInv == ReaderInv /\ (CompressStart \/ Compressing) => ReaderInv'
<1> SUFFICES ASSUME ReaderInv, CompressStart \/ Compressing PROVE ReaderInv'
    OBVIOUS
<1> USE DEF ReaderInv
<1>1. UNCHANGED <<pool, mappedFiles, readVars>>
    BY DEF Compressing, CompressStart, CompressGet, CompressPut, CompressEnd
<1>2. ReadTypeOK'
    BY <1>1 DEF ReadTypeOK, readVars, localVars
<1>3. LocalsInv'
    BY <1>1 DEF LocalsInv, readVars, localVars
<1>4. BufferExclusive'
    BY <1>1, BuffersUnchanged DEF readVars, localVars
<1>5. levels \in Cache
    BY DEF PiecesInv, Cache
<1>6. /\ levels' \in Cache
      /\ packing' # Nothing => packing' \in [path : Path, data : AnyPiece]
                            /\ packing'.data \in PieceOf(packing'.path)
    <2>1. CASE CompressStart \/ CompressEnd
        BY <1>5, <2>1 DEF CompressStart, CompressEnd, cacheVars, PiecesInv
    <2>2. CASE CompressGet
        <3>1. PICK path \in todo :
                IF Cached(path)
                  THEN /\ Get(path)
                       /\ \E data \in Compressed(Entry(path)) :
                            packing' = IF data = Entry(path) THEN Nothing
                                       ELSE [path |-> path, data |-> data]
                  ELSE UNCHANGED <<cacheVars, packing>>
            BY <2>2 DEF CompressGet
        <3>2. CASE ~ Cached(path)
            BY <1>5, <3>1, <3>2 DEF cacheVars, PiecesInv
        <3>3. CASE Cached(path)
            <4>1. levels' \in Cache
                BY <1>5, <3>1, <3>3, GetCache
            <4>2. path \in Path /\ Entry(path) \in PieceOf(path)
                BY <1>5, <3>3, EntryOfPath
            <4>3. PICK data \in Compressed(Entry(path)) :
                    packing' = IF data = Entry(path) THEN Nothing
                               ELSE [path |-> path, data |-> data]
                BY <3>1, <3>3
            <4>4. data \in PieceOf(path)
                <5>1. FileSize[path] \in Nat /\ Entry(path) \in AnyPiece
                    BY <4>2, FileAssumption DEF PieceOf
                <5>2. CASE data = Entry(path)
                    BY <4>2, <5>2
                <5>3. CASE \E n \in 1 .. Entry(path).len - 1 :
                             data = [Entry(path) EXCEPT !.len = n, !.packed = TRUE]
                    <6>1. PICK n \in 1 .. Entry(path).len - 1 :
                             data = [Entry(path) EXCEPT !.len = n, !.packed = TRUE]
                        BY <5>3
                    <6>2. n \in Nat \ {0} /\ n < Entry(path).len
                        BY <5>1, <6>1 DEF AnyPiece
                    <6>3. data \in AnyPiece /\ data.from = Entry(path).from /\ data.len = n
                        BY <5>1, <6>1, <6>2 DEF AnyPiece
                    <6> QED BY <4>2, <5>1, <6>2, <6>3 DEF PieceOf, AnyPiece
                <5> QED BY <4>3, <5>2, <5>3 DEF Compressed
            <4>5. packing' # Nothing => packing' = [path |-> path, data |-> data]
                BY <4>3
            <4> QED BY <4>1, <4>2, <4>4, <4>5 DEF PieceOf
        <3> QED BY <3>2, <3>3
    <2>3. CASE CompressPut
        <3>1. packing.path \in Path /\ packing.data \in PieceOf(packing.path)
            BY <2>3 DEF CompressPut, PiecesInv
        <3>2. levels' \in Cache
            BY <1>5, <2>3, <3>1, PutCache DEF CompressPut
        <3> QED BY <2>3, <3>2 DEF CompressPut
    <2> QED BY <2>1, <2>2, <2>3 DEF Compressing
<1>7. PiecesInv'
    <2>1. \A r \in Reader : pc'[r] = "store" => piece'[r] \in PieceOf(file'[r])
        BY <1>1 DEF PiecesInv, readVars, localVars
    <2>2. levels' \in [Level -> [size : Nat, data : Data]]
        BY <1>6 DEF Cache
    <2> QED BY <1>6, <2>1, <2>2 DEF PiecesInv
<1> QED BY <1>2, <1>3, <1>4, <1>7

\* While cache and compressor stay as they are, only a reader that is about to store
\* has to show a piece of its file.
LEMMA PiecesUnchanged ==
    ASSUME PiecesInv, NEW r \in Reader, UNCHANGED <<levels, packing>>,
           \A q \in Reader : q # r => /\ pc'[q] = pc[q] /\ piece'[q] = piece[q]
                                      /\ file'[q] = file[q],
           pc'[r] = "store" => piece'[r] \in PieceOf(file'[r])
    PROVE  PiecesInv'
BY DEF PiecesInv

\* A read that finds its path in the cache answers within the descriptor's type.
LEMMA ReadHitReaderInv == \A r \in Reader : ReaderInv /\ ReadHit(r) => ReaderInv'
<1> SUFFICES ASSUME NEW r \in Reader, ReaderInv, ReadHit(r) PROVE ReaderInv'
    OBVIOUS
<1> USE DEF ReaderInv
<1>1. PICK n \in ReadSizes :
        Answer(r, Min({n, (Entry(file[r]).len - position[r]) % SizeLimit}))
    BY DEF ReadHit
<1>2. levels \in Cache /\ Cached(file[r])
    BY DEF ReadHit, PiecesInv, Cache
<1>3. Entry(file[r]) \in AnyPiece /\ position[r] \in Nat
    BY <1>2, EntryOfPath DEF PieceOf, ReadTypeOK
<1>4. n \in Nat /\ SizeLimit \in Nat \ {0}
    BY FileAssumption
<1> DEFINE rest == (Entry(file[r]).len - position[r]) % SizeLimit
<1>5. rest \in Nat
    <2>1. Entry(file[r]).len - position[r] \in Int
        BY <1>3 DEF AnyPiece
    <2> QED BY <1>4, <2>1
<1> HIDE DEF rest
<1>6. Min({n, rest}) \in Nat
    BY <1>4, <1>5, MinOfTwo
<1>7. Answer(r, Min({n, rest}))
    BY <1>1 DEF rest
<1>8. /\ file' = file /\ lost' = lost /\ position' \in [Reader -> Nat] /\ atEnd' \in Reader \cup {NoReader}
      /\ DOMAIN size' = Reader /\ DOMAIN piece' = Reader
      /\ \A q \in Reader : q # r => size'[q] = size[q] /\ piece'[q] = piece[q]
    BY <1>6, <1>7, Answered
<1>9. UNCHANGED <<pool, mappedFiles, pc, buffer, packing>> /\ pc[r] = "idle"
    BY DEF ReadHit, workVars
<1>10. ReadTypeOK'
    BY <1>8, <1>9 DEF ReadTypeOK
<1>11. levels' \in Cache
    BY <1>2, GetCache DEF ReadHit
<1>12. PiecesInv'
    BY <1>8, <1>9, <1>11 DEF PiecesInv, Cache
<1>13. LocalsInv'
    BY <1>8, <1>9 DEF LocalsInv
<1>14. BufferExclusive'
    BY <1>9, BuffersUnchanged
<1> QED BY <1>10, <1>12, <1>13, <1>14

\* Opening, missing and the steps of the mapping take no buffer and find no piece.
LEMMA StartReaderInv ==
    \A r \in Reader :
        ReaderInv /\ (Open(r) \/ ReadMiss(r) \/ FindMapping(r) \/ CreateMapping(r) \/ MapFile(r))
            => ReaderInv'
<1> SUFFICES ASSUME NEW r \in Reader, ReaderInv,
                    Open(r) \/ ReadMiss(r) \/ FindMapping(r) \/ CreateMapping(r) \/ MapFile(r)
             PROVE  ReaderInv'
    OBVIOUS
<1> USE DEF ReaderInv
<1>1. UNCHANGED <<levels, packing, pool, buffer>>
    BY DEF Open, ReadMiss, FindMapping, CreateMapping, MapFile, cacheVars, localVars, workVars
<1>2. BufferExclusive'
    BY <1>1, BuffersUnchanged
<1>3. CASE Open(r)
    <2>1. ReadTypeOK'
        BY <1>3 DEF Open, ReadTypeOK, localVars
    <2>2. PiecesInv'
        BY <1>1, <1>3, PiecesUnchanged DEF Open, localVars, ReadTypeOK
    <2>3. LocalsInv'
        BY <1>3 DEF Open, LocalsInv, localVars
    <2> QED BY <1>2, <2>1, <2>2, <2>3
<1>4. CASE ReadMiss(r)
    <2>1. ReadTypeOK'
        BY <1>4 DEF ReadMiss, Pending, ReadTypeOK
    <2>2. PiecesInv'
        BY <1>1, <1>4, PiecesUnchanged DEF ReadMiss, Pending, ReadTypeOK
    <2>3. LocalsInv'
        BY <1>4, FileAssumption DEF ReadMiss, LocalsInv, ReadTypeOK
    <2> QED BY <1>2, <2>1, <2>2, <2>3
<1>5. CASE FindMapping(r)
    <2>1. ReadTypeOK'
        BY <1>5 DEF FindMapping, Goto, Pending, ReadTypeOK, localVars
    <2>2. PiecesInv'
        BY <1>1, <1>5, PiecesUnchanged DEF FindMapping, Goto, Pending, ReadTypeOK, localVars
    <2>3. LocalsInv'
        BY <1>5 DEF FindMapping, Goto, LocalsInv, ReadTypeOK, localVars
    <2> QED BY <1>2, <2>1, <2>2, <2>3
<1>6. CASE CreateMapping(r)
    <2>1. ReadTypeOK'
        BY <1>6 DEF CreateMapping, Goto, Pending, ReadTypeOK, localVars
    <2>2. PiecesInv'
        BY <1>1, <1>6, PiecesUnchanged DEF CreateMapping, Goto, Pending, ReadTypeOK, localVars
    <2>3. LocalsInv'
        BY <1>6 DEF CreateMapping, Goto, LocalsInv, ReadTypeOK, localVars
    <2> QED BY <1>2, <2>1, <2>2, <2>3
<1>7. CASE MapFile(r)
    <2>1. CASE Answer(r, -1) /\ Goto(r, "idle") /\ UNCHANGED mappedFiles
        <3>1. /\ file' = file /\ lost' = lost /\ position' \in [Reader -> Nat] /\ atEnd' \in Reader \cup {NoReader}
              /\ DOMAIN size' = Reader /\ DOMAIN piece' = Reader
              /\ \A q \in Reader : q # r => size'[q] = size[q] /\ piece'[q] = piece[q]
            BY <2>1, Answered
        <3>2. ReadTypeOK'
            BY <1>1, <2>1, <3>1 DEF Goto, ReadTypeOK
        <3>3. PiecesInv'
            BY <1>1, <2>1, <3>1, PiecesUnchanged DEF Goto, ReadTypeOK
        <3>4. LocalsInv'
            BY <1>1, <2>1, <3>1 DEF Goto, LocalsInv, ReadTypeOK
        <3> QED BY <1>2, <3>2, <3>3, <3>4
    <2>2. CASE /\ mappedFiles' = [mappedFiles EXCEPT ![file[r]] = "mapped"]
               /\ Goto(r, "copy") /\ Pending /\ UNCHANGED <<size, piece>>
        <3>1. ReadTypeOK'
            BY <1>1, <2>2 DEF Goto, Pending, ReadTypeOK
        <3>2. PiecesInv'
            BY <1>1, <2>2, PiecesUnchanged DEF Goto, Pending, ReadTypeOK
        <3>3. pc[r] = "map"
            BY <1>7 DEF MapFile
        <3>4. LocalsInv'
            BY <1>1, <2>2, <3>3 DEF Goto, LocalsInv, ReadTypeOK
        <3> QED BY <1>2, <3>1, <3>2, <3>4
    <2> QED BY <1>7, <2>1, <2>2 DEF MapFile
<1> QED BY <1>3, <1>4, <1>5, <1>6, <1>7

\* What is read at a position, and no more than is left there, is a piece of the file.
LEMMA PieceOfFile ==
    ASSUME ReadTypeOK, NEW r \in Reader, NEW n \in Nat \ {0},
           position[r] + n <= FileSize[file[r]]
    PROVE  Piece(r, n) \in PieceOf(file[r])
BY DEF Piece, PieceOf, AnyPiece, ReadTypeOK

\* The copy from a mapping stays within the file.
LEMMA CopyReaderInv == \A r \in Reader : ReaderInv /\ CopyMapped(r) => ReaderInv'
<1> SUFFICES ASSUME NEW r \in Reader, ReaderInv, CopyMapped(r) PROVE ReaderInv'
    OBVIOUS
<1> USE DEF ReaderInv
<1> DEFINE mappedSize == IF mappedFiles[file[r]] = "mapped" THEN FileSize[file[r]] ELSE 0
<1>1. UNCHANGED <<levels, packing, pool, buffer, mappedFiles>> /\ pc[r] = "copy"
    BY DEF CopyMapped, cacheVars, workVars
<1>2. BufferExclusive'
    BY <1>1, BuffersUnchanged
<1>3. CASE Answer(r, 0) /\ Goto(r, "idle")
    <2>1. /\ file' = file /\ lost' = lost /\ position' \in [Reader -> Nat] /\ atEnd' \in Reader \cup {NoReader}
          /\ DOMAIN size' = Reader /\ DOMAIN piece' = Reader
          /\ \A q \in Reader : q # r => size'[q] = size[q] /\ piece'[q] = piece[q]
        BY <1>3, Answered
    <2>2. ReadTypeOK'
        BY <1>1, <1>3, <2>1 DEF Goto, ReadTypeOK
    <2>3. PiecesInv'
        BY <1>1, <1>3, <2>1, PiecesUnchanged DEF Goto, ReadTypeOK
    <2>4. LocalsInv'
        BY <1>1, <1>3, <2>1 DEF Goto, LocalsInv, ReadTypeOK
    <2> QED BY <1>2, <2>2, <2>3, <2>4
<1>4. CASE /\ ~ (position[r] >= mappedSize)
           /\ piece' = [piece EXCEPT ![r] = Piece(r, Min({size[r], mappedSize - position[r]}))]
           /\ Goto(r, "store") /\ Pending /\ UNCHANGED size
    <2> DEFINE n == Min({size[r], mappedSize - position[r]})
    <2>1. position[r] \in Nat /\ FileSize[file[r]] \in Nat /\ size[r] \in Nat \ {0}
        BY <1>1, FileAssumption DEF ReadTypeOK, LocalsInv
    <2>2. mappedSize \in Nat /\ mappedSize <= FileSize[file[r]] /\ position[r] < mappedSize
        BY <1>4, <2>1
    <2> HIDE DEF mappedSize
    <2>3. n \in {size[r], mappedSize - position[r]} /\ n <= mappedSize - position[r]
        <3>1. size[r] \in Int /\ mappedSize - position[r] \in Int
            BY <2>1, <2>2
        <3> QED BY <3>1, MinOfTwo
    <2> HIDE DEF n
    <2>4. n \in Nat \ {0} /\ position[r] + n <= FileSize[file[r]]
        BY <2>1, <2>2, <2>3
    <2>5. Piece(r, n) \in PieceOf(file[r])
        BY <2>4, PieceOfFile
    <2>6. piece' = [piece EXCEPT ![r] = Piece(r, n)]
        BY <1>4 DEF n
    <2>7. ReadTypeOK'
        BY <1>1, <1>4 DEF Goto, Pending, ReadTypeOK
    <2>8. PiecesInv'
        <3>1. file' = file /\ piece'[r] \in PieceOf(file[r])
            BY <1>4, <2>5, <2>6 DEF Pending, LocalsInv
        <3>2. \A q \in Reader : q # r => pc'[q] = pc[q] /\ piece'[q] = piece[q]
            BY <1>4, <2>6 DEF Goto, ReadTypeOK, LocalsInv
        <3> QED BY <1>1, <3>1, <3>2, PiecesUnchanged
    <2>9. LocalsInv'
        BY <1>1, <1>4, <2>6 DEF Goto, LocalsInv, ReadTypeOK
    <2> QED BY <1>2, <2>7, <2>8, <2>9
<1> QED BY <1>3, <1>4 DEF CopyMapped

\* A buffer is taken only when its flag says that nobody has it.
LEMMA AcquireReaderInv == \A r \in Reader : ReaderInv /\ Acquire(r) => ReaderInv'
<1> SUFFICES ASSUME NEW r \in Reader, ReaderInv, Acquire(r) PROVE ReaderInv'
    OBVIOUS
<1> USE DEF ReaderInv
<1> DEFINE free == {k \in DOMAIN pool : ~ pool[k]}
<1>1. UNCHANGED <<levels, packing, mappedFiles>> /\ pc[r] = "acquire"
    BY DEF Acquire, cacheVars, workVars
<1>2. CASE Answer(r, -1) /\ Goto(r, "idle") /\ UNCHANGED <<pool, buffer>>
    <2>1. /\ file' = file /\ lost' = lost /\ position' \in [Reader -> Nat] /\ atEnd' \in Reader \cup {NoReader}
          /\ DOMAIN size' = Reader /\ DOMAIN piece' = Reader
          /\ \A q \in Reader : q # r => size'[q] = size[q] /\ piece'[q] = piece[q]
        BY <1>2, Answered
    <2>2. ReadTypeOK'
        BY <1>1, <1>2, <2>1 DEF Goto, ReadTypeOK
    <2>3. PiecesInv'
        BY <1>1, <1>2, <2>1, PiecesUnchanged DEF Goto, ReadTypeOK
    <2>4. LocalsInv'
        BY <1>1, <1>2, <2>1 DEF Goto, LocalsInv, ReadTypeOK
    <2>5. BufferExclusive'
        BY <1>2, BuffersUnchanged
    <2> QED BY <2>2, <2>3, <2>4, <2>5
<1>3. CASE /\ free # {}
           /\ pool' = [pool EXCEPT ![Min(free)] = TRUE]
           /\ buffer' = [buffer EXCEPT ![r] = Min(free)]
           /\ Goto(r, "fill") /\ Pending /\ UNCHANGED <<size, piece>>
    <2> DEFINE b == Min(free)
    <2>1. pool \in Seq(BOOLEAN) /\ DOMAIN pool = 1 .. Len(pool) /\ Len(pool) \in Nat
        BY LenProperties DEF ReadTypeOK
    <2>2. free \in SUBSET Nat
        BY <2>1
    <2>3. b \in free
        BY <1>3, <2>2, MinOfNats
    <2>4. b \in 1 .. Len(pool) /\ ~ pool[b] /\ b \in Nat /\ b # NoBuffer
        BY <2>1, <2>3, BufferAssumption
    <2>5. pool' = [pool EXCEPT ![b] = TRUE] /\ buffer' = [buffer EXCEPT ![r] = b]
        BY <1>3
    <2> HIDE DEF b
    <2>6. pool' \in Seq(BOOLEAN) /\ DOMAIN pool' = DOMAIN pool
        BY <2>1, <2>4, <2>5, ExceptSeq
    <2>7. ReadTypeOK'
        BY <1>1, <1>3, <2>1, <2>4, <2>5, <2>6 DEF Goto, Pending, ReadTypeOK, LocalsInv
    <2>8. PiecesInv'
        BY <1>1, <1>3, PiecesUnchanged DEF Goto, Pending, ReadTypeOK
    <2>9. LocalsInv'
        BY <1>1, <1>3, <2>4, <2>5 DEF Goto, LocalsInv, ReadTypeOK
    <2>10. BufferExclusive'
        <3>1. \A q \in Reader : buffer[q] # b
            BY <2>1, <2>4 DEF BufferExclusive, Held
        <3>2. \A q \in Reader : buffer'[q] = IF q = r THEN b ELSE buffer[q]
            BY <2>5 DEF LocalsInv
        <3>3. \A k \in DOMAIN pool : pool'[k] = IF k = b THEN TRUE ELSE pool[k]
            BY <2>5
        <3>4. \A k \in Held' : k = b \/ k \in Held
            BY <2>6, <3>2 DEF Held
        <3>5. \A k \in Held' : pool'[k]
            BY <2>6, <3>3, <3>4 DEF BufferExclusive, Held
        <3>6. \A p, q \in Reader : (p # q /\ buffer'[p] \in Nat) => buffer'[p] # buffer'[q]
            BY <3>1, <3>2 DEF BufferExclusive
        <3> QED BY <3>5, <3>6 DEF BufferExclusive
    <2> QED BY <2>7, <2>8, <2>9, <2>10
<1> QED BY <1>2, <1>3 DEF Acquire

\* What is read into the buffer is a piece of the file, however large the buffer is.
LEMMA FillReaderInv == \A r \in Reader : ReaderInv /\ Fill(r) => ReaderInv'
<1> SUFFICES ASSUME NEW r \in Reader, ReaderInv, Fill(r) PROVE ReaderInv'
    OBVIOUS
<1> USE DEF ReaderInv
<1> DEFINE bytesRead == Min({BufferSize, FileSize[file[r]] - position[r]})
<1>1. UNCHANGED <<levels, packing, pool, buffer, mappedFiles>> /\ pc[r] = "fill"
    BY DEF Fill, cacheVars, workVars
<1>2. BufferExclusive'
    BY <1>1, BuffersUnchanged
<1>3. CASE (Answer(r, -1) \/ Answer(r, 0)) /\ Goto(r, "release")
    <2>1. /\ file' = file /\ lost' = lost /\ position' \in [Reader -> Nat] /\ atEnd' \in Reader \cup {NoReader}
          /\ DOMAIN size' = Reader /\ DOMAIN piece' = Reader
          /\ \A q \in Reader : q # r => size'[q] = size[q] /\ piece'[q] = piece[q]
        BY <1>3, Answered
    <2>2. ReadTypeOK'
        BY <1>1, <1>3, <2>1 DEF Goto, ReadTypeOK
    <2>3. PiecesInv'
        BY <1>1, <1>3, <2>1, PiecesUnchanged DEF Goto, ReadTypeOK
    <2>4. LocalsInv'
        BY <1>1, <1>3, <2>1 DEF Goto, LocalsInv, ReadTypeOK
    <2> QED BY <1>2, <2>2, <2>3, <2>4
<1>4. CASE /\ bytesRead > 0
           /\ piece' = [piece EXCEPT ![r] = Piece(r, Min({bytesRead, size[r]}))]
           /\ Goto(r, "store") /\ Pending /\ UNCHANGED size
    <2> DEFINE n == Min({bytesRead, size[r]})
    <2>1. /\ position[r] \in Nat /\ FileSize[file[r]] \in Nat /\ size[r] \in Nat \ {0}
          /\ BufferSize \in Nat
        BY <1>1, FileAssumption, BufferAssumption DEF ReadTypeOK, LocalsInv
    <2>2. bytesRead \in Int /\ bytesRead <= FileSize[file[r]] - position[r]
        <3>1. BufferSize \in Int /\ FileSize[file[r]] - position[r] \in Int
            BY <2>1
        <3> QED BY <3>1, MinOfTwo
    <2>3. bytesRead > 0
        BY <1>4
    <2> HIDE DEF bytesRead
    <2>4. n \in {bytesRead, size[r]} /\ n <= bytesRead
        BY <2>1, <2>2, MinOfTwo
    <2> HIDE DEF n
    <2>5. n \in Nat \ {0} /\ position[r] + n <= FileSize[file[r]]
        BY <2>1, <2>2, <2>3, <2>4
    <2>6. Piece(r, n) \in PieceOf(file[r])
        BY <2>5, PieceOfFile
    <2>7. piece' = [piece EXCEPT ![r] = Piece(r, n)]
        BY <1>4 DEF n
    <2>8. ReadTypeOK'
        BY <1>1, <1>4 DEF Goto, Pending, ReadTypeOK
    <2>9. PiecesInv'
        <3>1. file' = file /\ piece'[r] \in PieceOf(file[r])
            BY <1>4, <2>6, <2>7 DEF Pending, LocalsInv
        <3>2. \A q \in Reader : q # r => pc'[q] = pc[q] /\ piece'[q] = piece[q]
            BY <1>4, <2>7 DEF Goto, ReadTypeOK, LocalsInv
        <3> QED BY <1>1, <3>1, <3>2, PiecesUnchanged
    <2>10. LocalsInv'
        BY <1>1, <1>4, <2>7 DEF Goto, LocalsInv, ReadTypeOK
    <2> QED BY <1>2, <2>8, <2>9, <2>10
<1> QED BY <1>3, <1>4 DEF Fill

\* The cache gets the reader's piece, whatever happened to the path's entry meanwhile.
LEMMA StoreReaderInv == \A r \in Reader : ReaderInv /\ Store(r) => ReaderInv'
<1> SUFFICES ASSUME NEW r \in Reader, ReaderInv, Store(r) PROVE ReaderInv'
    OBVIOUS
<1> USE DEF ReaderInv
<1>1. UNCHANGED <<packing, pool, buffer, mappedFiles>> /\ pc[r] = "store"
    BY DEF Store, workVars
<1>2. piece[r] \in PieceOf(file[r]) /\ file[r] \in Path /\ levels \in Cache
    BY <1>1 DEF PiecesInv, ReadTypeOK, Cache
<1>3. levels' \in Cache
    BY <1>2, PutCache DEF Store
<1>4. piece[r].len \in Nat
    BY <1>2 DEF PieceOf, AnyPiece
<1>5. /\ file' = file /\ lost' = lost /\ position' \in [Reader -> Nat] /\ atEnd' \in Reader \cup {NoReader}
      /\ DOMAIN size' = Reader /\ DOMAIN piece' = Reader
      /\ \A q \in Reader : q # r => size'[q] = size[q] /\ piece'[q] = piece[q]
    BY <1>4, Answered DEF Store
<1>6. pc' = [pc EXCEPT ![r] = IF buffer[r] = NoBuffer THEN "idle" ELSE "release"]
    BY DEF Store, Goto
<1>7. ReadTypeOK'
    BY <1>1, <1>5, <1>6 DEF ReadTypeOK
<1>8. PiecesInv'
    <2>1. \A q \in Reader : pc'[q] = "store" => q # r /\ pc[q] = "store"
        BY <1>6 DEF ReadTypeOK
    <2>2. \A q \in Reader : pc'[q] = "store" => piece'[q] \in PieceOf(file'[q])
        BY <1>5, <2>1 DEF PiecesInv
    <2>3. packing' = packing
        BY <1>1
    <2> QED BY <1>3, <2>2, <2>3 DEF PiecesInv, Cache
<1>9. LocalsInv'
    BY <1>1, <1>5, <1>6 DEF LocalsInv
<1>10. BufferExclusive'
    BY <1>1, BuffersUnchanged
<1> QED BY <1>7, <1>8, <1>9, <1>10

\* Releasing clears the flag of a buffer that no other reader has, or that of none.
LEMMA ReleaseReaderInv == \A r \in Reader : ReaderInv /\ Release(r) => ReaderInv'
<1> SUFFICES ASSUME NEW r \in Reader, ReaderInv, Release(r) PROVE ReaderInv'
    OBVIOUS
<1> USE DEF ReaderInv
<1>1. /\ UNCHANGED <<levels, packing, mappedFiles, file, position, lost, atEnd, size, piece>>
      /\ pc[r] = "release" /\ pc' = [pc EXCEPT ![r] = "idle"]
      /\ buffer' = [buffer EXCEPT ![r] = NoBuffer]
    BY DEF Release, Goto, cacheVars, workVars
<1>2. pool \in Seq(BOOLEAN) /\ DOMAIN pool = 1 .. Len(pool) /\ Len(pool) \in Nat
    BY LenProperties DEF ReadTypeOK
<1>3. \/ buffer[r] = Stale /\ pool' = pool
      \/ buffer[r] \in 1 .. Len(pool) /\ pool' = [pool EXCEPT ![buffer[r]] = FALSE]
    BY <1>1, <1>2 DEF Release, ReadTypeOK, LocalsInv
<1>4. pool' \in Seq(BOOLEAN) /\ DOMAIN pool' = DOMAIN pool
    <2>1. CASE pool' = pool
        BY <1>2, <2>1
    <2>2. CASE buffer[r] \in 1 .. Len(pool) /\ pool' = [pool EXCEPT ![buffer[r]] = FALSE]
        BY <1>2, <2>2, ExceptSeq
    <2> QED BY <1>3, <2>1, <2>2
<1>5. \A q \in Reader : buffer'[q] = IF q = r THEN NoBuffer ELSE buffer[q]
    BY <1>1 DEF LocalsInv
<1>6. ReadTypeOK'
    BY <1>1, <1>4, <1>5 DEF ReadTypeOK
<1>7. PiecesInv'
    BY <1>1, PiecesUnchanged DEF ReadTypeOK
<1>8. LocalsInv'
    BY <1>1, <1>5 DEF LocalsInv, ReadTypeOK
<1>9. BufferExclusive'
    <2>1. \A k \in Held' : k \in Held /\ k # buffer[r]
        <3> SUFFICES ASSUME NEW k \in DOMAIN pool', NEW q \in Reader, buffer'[q] = k
                     PROVE  k \in Held /\ k # buffer[r]
            BY DEF Held
        <3>1. k \in DOMAIN pool /\ k \in Nat
            BY <1>2, <1>4
        <3>2. q # r /\ buffer[q] = k
            BY <1>5, <3>1, BufferAssumption
        <3> QED BY <3>1, <3>2 DEF BufferExclusive, Held
    <2>2. \A k \in DOMAIN pool : k # buffer[r] => pool'[k] = pool[k]
        BY <1>3
    <2>3. \A k \in Held' : pool'[k]
        BY <2>1, <2>2 DEF BufferExclusive, Held
    <2>4. \A p, q \in Reader : (p # q /\ buffer'[p] \in Nat) => buffer'[p] # buffer'[q]
        BY <1>5, BufferAssumption DEF BufferExclusive
    <2> QED BY <2>3, <2>4 DEF BufferExclusive
<1> QED BY <1>6, <1>7, <1>8, <1>9

\* Every step keeps the inductive invariant.
LEMMA NextReaderInv == ReaderInv /\ [Next]_vars => ReaderInv'
<1>1. ReaderInv /\ UNCHANGED vars => ReaderInv'
    BY DEF ReaderInv, ReadTypeOK, PiecesInv, LocalsInv, BufferExclusive, Held,
           vars, cacheVars, readVars, localVars, workVars
<1>2. ReaderInv /\ Next => ReaderInv'
    BY OptimizeReaderInv, CollectReaderInv, CompressReaderInv, ReadHitReaderInv, StartReaderInv, CopyReaderInv,
       AcquireReaderInv, FillReaderInv, StoreReaderInv, ReleaseReaderInv
    DEF Next, Reading
<1> QED BY <1>1, <1>2

-----------------------------------------------------------------------------
\* The order of the timestamps.

\* Of a path that is read or put, get and put make the newest; the others keep their order.
LEMMA TouchedOrder ==
    ASSUME RecencyTypeOK, NEW key \in Path, recency' = Touched(key), todo' \subseteq Path,
           \A p \in Path : Cached(p)' = (Cached(p) \/ p = key)
    PROVE  RecencyTypeOK'
<1>1. Paths' = Paths \cup {key} /\ key \in Paths'
    BY DEF Paths
<1>2. \A p, q : <<p, q>> \in recency' <=>
        \/ <<p, q>> \in recency /\ p # key /\ q # key
        \/ p \in Paths /\ p # key /\ q = key
    <2>1. \A x \in recency : x = <<x[1], x[2]>>
        BY DEF RecencyTypeOK
    <2> QED BY <2>1 DEF Touched
<1>3. \A x \in recency' : x \in Paths' \X Paths'
    <2> SUFFICES ASSUME NEW x \in recency' PROVE x \in Paths' \X Paths'
        OBVIOUS
    <2>1. CASE x \in recency
        BY <1>1, <2>1 DEF RecencyTypeOK
    <2>2. CASE \E p \in Paths \ {key} : x = <<p, key>>
        BY <1>1, <2>2
    <2> QED BY <2>1, <2>2 DEF Touched
<1>4. ASSUME NEW p \in Paths', NEW q \in Paths'
      PROVE  (<<p, q>> \in recency') = (p # q /\ <<q, p>> \notin recency')
    <2>1. CASE p # key /\ q # key
        BY <1>1, <1>2, <2>1 DEF RecencyTypeOK
    <2>2. CASE p = key \/ q = key
        BY <1>1, <1>2, <2>2
    <2> QED BY <2>1, <2>2
<1>5. ASSUME NEW p \in Paths', NEW q \in Paths', NEW h \in Paths',
             <<p, q>> \in recency', <<q, h>> \in recency'
      PROVE  <<p, h>> \in recency'
    <2>1. q # key /\ p # key /\ p \in Paths /\ q \in Paths
        BY <1>1, <1>2, <1>5
    <2>2. CASE h = key
        BY <1>2, <2>1, <2>2
    <2>3. CASE h # key
        BY <1>1, <1>2, <1>5, <2>1, <2>3 DEF RecencyTypeOK
    <2> QED BY <2>2, <2>3
<1> QED BY <1>3, <1>4, <1>5 DEF RecencyTypeOK

\* Paths that leave the cache leave the order.
LEMMA EvictedOrder ==
    ASSUME RecencyTypeOK, recency' = {x \in recency : Cached(x[1])' /\ Cached(x[2])'},
           \A p \in Path : Cached(p)' => Cached(p), todo' = todo
    PROVE  RecencyTypeOK'
<1>1. Paths' \subseteq Paths
    BY DEF Paths
<1>2. \A p, q \in Paths' : <<p, q>> \in recency' <=> <<p, q>> \in recency
    BY DEF Paths
<1>3. \A x \in recency' : x \in Paths' \X Paths'
    <2> SUFFICES ASSUME NEW x \in recency' PROVE x \in Paths' \X Paths'
        OBVIOUS
    <2>1. x \in Paths \X Paths /\ Cached(x[1])' /\ Cached(x[2])'
        BY DEF RecencyTypeOK
    <2> QED BY <2>1 DEF Paths
<1>4. ASSUME NEW p \in Paths', NEW q \in Paths'
      PROVE  (<<p, q>> \in recency') = (p # q /\ <<q, p>> \notin recency')
    <2>1. (<<p, q>> \in recency) = (p # q /\ <<q, p>> \notin recency)
        BY <1>1 DEF RecencyTypeOK
    <2>2. (<<p, q>> \in recency' <=> <<p, q>> \in recency)
          /\ (<<q, p>> \in recency' <=> <<q, p>> \in recency)
        BY <1>2
    <2> QED BY <2>1, <2>2
<1>5. \A p, q, h \in Paths' :
        <<p, q>> \in recency' /\ <<q, h>> \in recency' => <<p, h>> \in recency'
    BY <1>1, <1>2 DEF RecencyTypeOK
<1> QED BY <1>3, <1>4, <1>5 DEF RecencyTypeOK

\* While the same paths are cached the order is as good as it was.
LEMMA SameOrder ==
    ASSUME RecencyTypeOK, recency' = recency, \A p \in Path : Cached(p)' = Cached(p),
           todo' \subseteq Path
    PROVE  RecencyTypeOK'
<1>1. Paths' = Paths
    BY DEF Paths
<1> QED BY <1>1 DEF RecencyTypeOK

\* A level that holds a path keeps it cached.
LEMMA HeldIsCached ==
    ASSUME NEW p, NEW l \in Level, p \in DOMAIN levels[l].data
    PROVE  Cached(p)
BY DEF Cached, Holding

\* get caches nothing new and loses nothing.
LEMMA GetCached ==
    ASSUME levels \in Cache, NEW key \in Path, Cached(key), Get(key), NEW p \in Path
    PROVE  Cached(p)' = (Cached(p) \/ p = key)
<1> DEFINE l == Min(Holding(key))
<1>1. l \in Level /\ key \in DOMAIN levels[l].data
    BY EntryOfPath
<1>2. levels' = PromoteToHigherLevel(key, l)
    BY DEF Get
<1> HIDE DEF l
<1>3. CASE l = 1
    <2>1. levels' = levels
        BY <1>2, <1>3 DEF PromoteToHigherLevel
    <2> QED BY <2>1 DEF Cached, Holding
<1>4. CASE l # 1
    <2>1. l - 1 \in Level /\ l - 1 # l
        BY <1>1, <1>4, Levels
    <2>2. levels' = [levels EXCEPT ![l].data = Without(@, {key}),
                                   ![l - 1].data = With(@, key, levels[l].data[key])]
        BY <1>2, <1>4 DEF PromoteToHigherLevel
    <2>3. \A k \in Level : DOMAIN levels'[k].data =
                IF k = l - 1 THEN DOMAIN levels[k].data \cup {key}
                ELSE IF k = l THEN DOMAIN levels[k].data \ {key} ELSE DOMAIN levels[k].data
        <3>1. \A k \in Level : levels[k] \in [size : Nat, data : Data]
            BY DEF Cache
        <3>2. \A k \in Level : levels'[k] =
                IF k = l - 1 THEN [levels[k] EXCEPT !.data = With(levels[l - 1].data, key, levels[l].data[key])]
                ELSE IF k = l THEN [levels[k] EXCEPT !.data = Without(levels[l].data, {key})]
                ELSE levels[k]
            BY <1>1, <2>1, <2>2 DEF Cache
        <3>3. \A f, e : DOMAIN With(f, key, e) = DOMAIN f \cup {key}
            BY DEF With
        <3>4. \A f : DOMAIN Without(f, {key}) = DOMAIN f \ {key}
            BY DEF Without, Restrict
        <3>5. \A k \in Level : levels'[k].data =
                IF k = l - 1 THEN With(levels[l - 1].data, key, levels[l].data[key])
                ELSE IF k = l THEN Without(levels[l].data, {key}) ELSE levels[k].data
            BY <3>1, <3>2
        <3> DEFINE w == With(levels[l - 1].data, key, levels[l].data[key])
                   wo == Without(levels[l].data, {key})
        <3>6. DOMAIN w = DOMAIN levels[l - 1].data \cup {key} /\ DOMAIN wo = DOMAIN levels[l].data \ {key}
            BY <3>3, <3>4
        <3> HIDE DEF w, wo
        <3>7. \A k \in Level : levels'[k].data = IF k = l - 1 THEN w ELSE IF k = l THEN wo ELSE levels[k].data
            BY <3>5 DEF w, wo
        <3> QED BY <3>6, <3>7
    <2>4. \A k \in Level : p # key => (p \in DOMAIN levels'[k].data <=> p \in DOMAIN levels[k].data)
        BY <2>3
    <2>5. key \in DOMAIN levels'[l - 1].data
        BY <2>1, <2>3
    <2>6. CASE p = key
        BY <2>1, <2>5, <2>6, HeldIsCached DEF Cached, Holding
    <2>7. CASE p # key
        BY <2>4, <2>7 DEF Cached, Holding
    <2> QED BY <2>6, <2>7
<1> QED BY <1>3, <1>4

\* put caches its path and loses nothing.
LEMMA PutCached ==
    ASSUME levels \in Cache, NEW key \in Path, NEW e, Put(key, e), NEW p \in Path
    PROVE  Cached(p)' = (Cached(p) \/ p = key)
<1> DEFINE l == IF Cached(key) THEN Min(Holding(key)) ELSE 1
<1>1. l \in Level
    BY EntryOfPath, Levels
<1>2. levels' = [levels EXCEPT ![l].data = With(@, key, e)]
    BY DEF Put
<1> HIDE DEF l
<1>3. \A k \in Level : levels[k] \in [size : Nat, data : Data]
    BY DEF Cache
<1>4. \A k \in Level : levels'[k].data = IF k = l THEN With(levels[l].data, key, e) ELSE levels[k].data
    BY <1>1, <1>2, <1>3 DEF Cache
<1>5. \A k \in Level : DOMAIN levels'[k].data =
            IF k = l THEN DOMAIN levels[k].data \cup {key} ELSE DOMAIN levels[k].data
    BY <1>4 DEF With
<1>6. CASE p = key
    BY <1>1, <1>5, <1>6 DEF Cached, Holding
<1>7. CASE p # key
    BY <1>5, <1>7 DEF Cached, Holding
<1> QED BY <1>6, <1>7

\* In the beginning nothing is cached and nothing is ordered.
LEMMA InitRecency == Init => RecencyTypeOK
<1> SUFFICES ASSUME Init PROVE RecencyTypeOK
    OBVIOUS
<1>1. \A l \in Level : DOMAIN levels[l].data = {}
    BY DEF Init
<1>2. Paths = {}
    BY <1>1 DEF Paths, Cached, Holding
<1> QED BY <1>2 DEF Init, RecencyTypeOK

\* Every step keeps the order.
LEMMA NextRecency == IndInv /\ [Next]_vars => RecencyTypeOK'
<1> SUFFICES ASSUME IndInv, [Next]_vars PROVE RecencyTypeOK'
    OBVIOUS
<1>1. RecencyTypeOK /\ levels \in Cache /\ todo \subseteq Path
    BY DEF IndInv, ReaderInv, PiecesInv, Cache, RecencyTypeOK
<1>2. CASE UNCHANGED <<levels, recency>> /\ todo' \subseteq Path
    <2>1. \A p \in Path : Cached(p)' = Cached(p)
        BY <1>2 DEF Cached, Holding
    <2> QED BY <1>1, <1>2, <2>1, SameOrder
<1>3. CASE Optimize
    <2>1. \A l \in Level : levels'[l].data = Without(levels[l].data, Evicted(l))
        <3>1. \A l \in Level : levels[l] \in [size : Nat, data : Data]
            BY <1>1 DEF Cache
        <3>2. \A l \in Level : levels'[l] = [levels[l] EXCEPT !.data = Without(@, Evicted(l))]
            BY <1>3 DEF Optimize
        <3> QED BY <3>1, <3>2
    <2>2. \A f, S : DOMAIN Without(f, S) \subseteq DOMAIN f
        BY DEF Without, Restrict
    <2>3. \A l \in Level : DOMAIN levels'[l].data \subseteq DOMAIN levels[l].data
        BY <2>1, <2>2
    <2>4. \A p \in Path : Cached(p)' => Cached(p)
        BY <2>3 DEF Cached, Holding
    <2>5. recency' = {x \in recency : Cached(x[1])' /\ Cached(x[2])'} /\ todo' = todo
        BY <1>3 DEF Optimize, workVars
    <2> QED BY <1>1, <2>4, <2>5, EvictedOrder
<1>4. CASE Collect
    <2>1. CASE levels' = [levels EXCEPT ![1].size = @ + LevelGrowth]
        <3>1. \A l \in Level : levels[l] \in [size : Nat, data : Data]
            BY <1>1 DEF Cache
        <3>2. \A l \in Level : levels'[l].data = levels[l].data
            BY <1>1, <2>1, <3>1 DEF Cache
        <3>3. \A p \in Path : Cached(p)' = Cached(p)
            BY <3>2 DEF Cached, Holding
        <3> QED BY <1>1, <1>4, <3>3, SameOrder DEF Collect, workVars
    <2>2. CASE UNCHANGED levels
        BY <1>1, <1>2, <1>4, <2>2 DEF Collect, workVars
    <2> QED BY <1>4, <2>1, <2>2 DEF Collect
<1>5. CASE CompressStart
    <2>1. UNCHANGED <<levels, recency>> /\ todo' \subseteq Path
        BY <1>5 DEF CompressStart, cacheVars, Paths
    <2> QED BY <1>2, <2>1
<1>6. CASE CompressGet
    <2>1. PICK path \in todo : /\ todo' = todo \ {path}
                               /\ IF Cached(path) THEN Get(path) ELSE UNCHANGED cacheVars
        BY <1>6 DEF CompressGet
    <2>2. path \in Path /\ todo' \subseteq Path
        BY <1>1, <2>1
    <2>3. CASE Cached(path)
        <3>1. Get(path)
            BY <2>1, <2>3
        <3>2. \A p \in Path : Cached(p)' = (Cached(p) \/ p = path)
            BY <1>1, <2>2, <2>3, <3>1, GetCached
        <3>3. recency' = Touched(path)
            BY <3>1 DEF Get
        <3> QED BY <1>1, <2>2, <3>2, <3>3, TouchedOrder
    <2>4. CASE ~ Cached(path)
        BY <1>2, <2>1, <2>2, <2>4 DEF cacheVars
    <2> QED BY <2>3, <2>4
<1>7. CASE CompressPut
    <2>1. packing.path \in Path /\ Put(packing.path, packing.data) /\ todo' \subseteq Path
        BY <1>1, <1>7 DEF CompressPut, IndInv, ReaderInv, PiecesInv
    <2>2. \A p \in Path : Cached(p)' = (Cached(p) \/ p = packing.path)
        BY <1>1, <2>1, PutCached
    <2>3. recency' = Touched(packing.path)
        BY <2>1 DEF Put
    <2> QED BY <1>1, <2>1, <2>2, <2>3, TouchedOrder
<1>8. CASE CompressEnd
    BY <1>1, <1>2, <1>8 DEF CompressEnd, cacheVars
<1>9. ASSUME NEW r \in Reader, ReadHit(r) PROVE RecencyTypeOK'
    <2>1. file[r] \in Path /\ Cached(file[r]) /\ Get(file[r]) /\ todo' \subseteq Path
        BY <1>1, <1>9 DEF ReadHit, IndInv, ReaderInv, ReadTypeOK, workVars
    <2>2. \A p \in Path : Cached(p)' = (Cached(p) \/ p = file[r])
        BY <1>1, <2>1, GetCached
    <2>3. recency' = Touched(file[r])
        BY <2>1 DEF Get
    <2> QED BY <1>1, <2>1, <2>2, <2>3, TouchedOrder
<1>10. ASSUME NEW r \in Reader, Store(r) PROVE RecencyTypeOK'
    <2>1. file[r] \in Path /\ Put(file[r], piece[r]) /\ todo' \subseteq Path
        BY <1>1, <1>10 DEF Store, IndInv, ReaderInv, ReadTypeOK, workVars
    <2>2. \A p \in Path : Cached(p)' = (Cached(p) \/ p = file[r])
        BY <1>1, <2>1, PutCached
    <2>3. recency' = Touched(file[r])
        BY <2>1 DEF Put
    <2> QED BY <1>1, <2>1, <2>2, <2>3, TouchedOrder
<1>11. ASSUME NEW r \in Reader,
              Open(r) \/ ReadMiss(r) \/ FindMapping(r) \/ CreateMapping(r) \/ MapFile(r)
              \/ CopyMapped(r) \/ Acquire(r) \/ Fill(r) \/ Release(r)
       PROVE  RecencyTypeOK'
    <2>1. UNCHANGED <<levels, recency, todo>>
        BY <1>11 DEF Open, ReadMiss, FindMapping, CreateMapping, MapFile, CopyMapped,
           Acquire, Fill, Release, cacheVars, workVars
    <2> QED BY <1>1, <1>2, <2>1
<1>12. CASE UNCHANGED vars
    BY <1>1, <1>2, <1>12 DEF vars, cacheVars, workVars
<1> QED BY <1>3, <1>4, <1>5, <1>6, <1>7, <1>8, <1>9, <1>10, <1>11, <1>12
        DEF Next, Compressing, Reading

\* The inductive invariant holds in the beginning.
LEMMA InitIndInv == Init => IndInv
BY InitReaderInv, InitRecency DEF IndInv

\* Every step keeps the inductive invariant.
LEMMA NextIndInv == IndInv /\ [Next]_vars => IndInv'
BY NextReaderInv, NextRecency DEF IndInv

\* The invariant holds in every behaviour.
LEMMA Invariance == Spec => []IndInv
BY InitIndInv, NextIndInv, PTL DEF Spec

-----------------------------------------------------------------------------
\* The theorems.

\* Whatever the three threads do between the calls of a read, the cache holds pieces no
\* longer than their files, its timestamps order exactly the paths it holds, and the
\* readers' state keeps its types (324-354, 403-425, 688-706, 747-844).
THEOREM TypesCorrect == Spec => []TypeOK
<1>1. IndInv => CacheTypeOK
    <2> SUFFICES ASSUME IndInv, NEW l \in Level
                 PROVE  /\ levels[l].size \in Nat
                        /\ \A p \in DOMAIN levels[l].data :
                              p \in Path /\ levels[l].data[p].len \in 1 .. FileSize[p]
        BY DEF CacheTypeOK
    <2>1. levels[l].size \in Nat /\ levels[l].data \in Data
        BY DEF IndInv, ReaderInv, PiecesInv, Cache
    <2>2. \A p \in DOMAIN levels[l].data : p \in Path /\ levels[l].data[p] \in PieceOf(p)
        BY <2>1, DataEntry
    <2>3. \A p \in Path : \A e \in PieceOf(p) : e.len \in 1 .. FileSize[p]
        BY FileAssumption DEF PieceOf, AnyPiece
    <2> QED BY <2>1, <2>2, <2>3
<1>2. IndInv => TypeOK
    BY <1>1 DEF IndInv, ReaderInv, TypeOK
<1> QED BY <1>2, Invariance, PTL

\* What is cached for a path was in its file, also when the compressor's late copy
\* replaces an entry that was evicted and read anew (688-706).
THEOREM CachedPiecesGenuine == Spec => []PiecesGenuine
<1>1. IndInv => PiecesGenuine
    <2> SUFFICES ASSUME IndInv, NEW l \in Level, NEW p \in DOMAIN levels[l].data
                 PROVE  /\ levels[l].data[p].from >= 0
                        /\ levels[l].data[p].from + levels[l].data[p].len <= FileSize[p]
        BY DEF PiecesGenuine
    <2>1. levels[l].data \in Data
        BY DEF IndInv, ReaderInv, PiecesInv, Cache
    <2>2. levels[l].data[p] \in PieceOf(p)
        BY <2>1, DataEntry
    <2> QED BY <2>2 DEF PieceOf, AnyPiece
<1> QED BY <1>1, Invariance, PTL

\* No two reads have one buffer, nor one that is not marked in use, though the
\* collector moves the pool under them (275, 743).
THEOREM BuffersExclusive == Spec => []BufferExclusive
BY Invariance, PTL DEF IndInv, ReaderInv
=============================================================================
