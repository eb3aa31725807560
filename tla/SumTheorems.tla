---------------------------- MODULE SumTheorems ----------------------------
(***************************************************************************)
(* Sums of the values of a function over a finite set, as the counters of  *)
(* the memory and handle managers are stated.  The library defines         *)
(* SumFunctionOnSet by a recursion over subsets; what it comes to is shown *)
(* here from the least counterexample, as no proof rule for recursion can  *)
(* be instantiated.                                                        *)
(***************************************************************************)
EXTENDS Functions, FiniteSets, FiniteSetTheorems, WellFoundedInduction, TLAPS

\* The element the library's fold takes out of a set.
Chosen(s) == CHOOSE x \in s : TRUE

\* One round of the recursion that sums f over the sets of D.
SumRound(f, D, g) == [s \in D |-> IF s = {} THEN 0 ELSE f[Chosen(s)] + g[s \ {Chosen(s)}]]

\* The function the recursion defines.
PartialSums(f, S) == CHOOSE g : g = SumRound(f, SUBSET S, g)

-----------------------------------------------------------------------------

\* A set of natural numbers that is not empty has a least one.
LEMMA LeastNumber ==
    ASSUME NEW N \in SUBSET Nat, N # {}
    PROVE  \E n \in N : \A m \in N : n <= m
<1>1. PICK n \in N : \A m \in N : ~ (<<m, n>> \in OpToRel(<, Nat))
    BY NatLessThanWellFounded, WFMin
<1>2. \A m \in N : ~ (m < n)
    BY <1>1 DEF OpToRel
<1> QED BY <1>2

\* Among finite sets there is one of the fewest elements.
LEMMA SmallestSet ==
    ASSUME NEW Q, Q # {}, \A q \in Q : IsFiniteSet(q)
    PROVE  \E q \in Q : \A r \in Q : Cardinality(q) <= Cardinality(r)
<1> DEFINE N == {Cardinality(q) : q \in Q}
<1>1. N \in SUBSET Nat /\ N # {}
    BY FS_CardinalityType
<1>2. PICK n \in N : \A m \in N : n <= m
    <2> HIDE DEF N
    <2> QED BY <1>1, LeastNumber
<1> QED BY <1>2

\* A finite set of whole numbers that is not empty has a largest one.
LEMMA LargestNumber ==
    ASSUME NEW S \in SUBSET Int, IsFiniteSet(S), S # {}
    PROVE  \E x \in S : \A y \in S : x >= y
<1> DEFINE Top(u) == \E x \in u : \A y \in u : x >= y
           Q == {u \in SUBSET S : u # {} /\ ~ Top(u)}
<1>1. \A u \in SUBSET S : IsFiniteSet(u) /\ Cardinality(u) \in Nat
    BY FS_Subset, FS_CardinalityType
<1> SUFFICES ASSUME Q # {} PROVE FALSE
    OBVIOUS
<1>2. PICK u \in Q : \A r \in Q : Cardinality(u) <= Cardinality(r)
    <2>1. \A q \in Q : IsFiniteSet(q)
        BY <1>1
    <2> HIDE DEF Q
    <2> QED BY <2>1, SmallestSet
<1>3. PICK x \in u : TRUE
    OBVIOUS
<1> DEFINE r == u \ {x}
<1>4. r \in SUBSET S /\ Cardinality(r) = Cardinality(u) - 1
    BY <1>1, <1>3, FS_RemoveElement
<1>5. r \notin Q
    <2>1. ~ (Cardinality(u) <= Cardinality(r))
        BY <1>1, <1>4
    <2> HIDE DEF Q, r
    <2> QED BY <1>2, <2>1
<1>6. CASE r = {}
    BY <1>3, <1>6
<1>7. CASE r # {}
    <2>1. PICK z \in r : \A y \in r : z >= y
        BY <1>4, <1>5, <1>7
    <2>2. z \in Int /\ x \in Int /\ z \in u
        BY <1>3, <2>1
    <2>3. (z >= x => \A y \in u : z >= y) /\ (~ (z >= x) => \A y \in u : x >= y)
        BY <1>4, <2>1, <2>2
    <2>4. Top(u)
        BY <1>3, <2>2, <2>3
    <2> QED BY <2>4
<1> QED BY <1>6, <1>7

\* The library's definition, in these terms.
LEMMA SumIsLastPartial ==
    ASSUME NEW f, NEW S
    PROVE  SumFunctionOnSet(f, S) = PartialSums(f, S)[S]
BY DEF SumFunctionOnSet, FoldFunctionOnSet, MapThenFoldSet, PartialSums, SumRound, Chosen

\* The recursion has a solution: it can be built up by the size of the sets.
LEMMA PartialSumsExist ==
    ASSUME NEW f, NEW S, IsFiniteSet(S)
    PROVE  \E g : g = SumRound(f, SUBSET S, g)
<1> DEFINE U(n) == {s \in SUBSET S : Cardinality(s) <= n}
           N == {n \in Nat : ~ \E g : g = SumRound(f, U(n), g)}
<1>1. \A s \in SUBSET S : IsFiniteSet(s) /\ Cardinality(s) \in Nat /\ Cardinality(s) <= Cardinality(S)
    BY FS_Subset, FS_CardinalityType
<1>2. \A s \in SUBSET S : s # {} =>
          /\ Chosen(s) \in s /\ s \ {Chosen(s)} \in SUBSET S
          /\ Cardinality(s) >= 1 /\ Cardinality(s \ {Chosen(s)}) = Cardinality(s) - 1
    <2> SUFFICES ASSUME NEW s \in SUBSET S, s # {}
                 PROVE  /\ Chosen(s) \in s /\ s \ {Chosen(s)} \in SUBSET S
                        /\ Cardinality(s) >= 1 /\ Cardinality(s \ {Chosen(s)}) = Cardinality(s) - 1
        OBVIOUS
    <2>1. Chosen(s) \in s
        BY DEF Chosen
    <2>2. Cardinality(s \ {Chosen(s)}) = Cardinality(s) - 1
        BY <1>1, <2>1, FS_RemoveElement
    <2>3. Cardinality(s) # 0
        BY <1>1, FS_EmptySet
    <2>4. Cardinality(s) >= 1
        BY <1>1, <2>3
    <2> QED BY <2>1, <2>2, <2>4
<1>3. N = {}
    <2> SUFFICES ASSUME N # {} PROVE FALSE
        OBVIOUS
    <2>1. PICK n \in N : \A m \in N : n <= m
        <3>1. N \in SUBSET Nat
            OBVIOUS
        <3> HIDE DEF N
        <3> QED BY <3>1, LeastNumber
    <2>2. n # 0
        <3> SUFFICES ASSUME n = 0 PROVE FALSE
            OBVIOUS
        <3> DEFINE g == [s \in U(0) |-> 0]
        <3>1. \A s \in U(0) : s = {}
            <4> SUFFICES ASSUME NEW s \in SUBSET S, Cardinality(s) <= 0, s # {} PROVE FALSE
                OBVIOUS
            <4>1. Cardinality(s) \in Nat /\ Cardinality(s) >= 1
                BY <1>1, <1>2
            <4> QED BY <4>1
        <3>2. SumRound(f, U(0), g) = g
            <4>1. \A s \in U(0) : (IF s = {} THEN 0 ELSE f[Chosen(s)] + g[s \ {Chosen(s)}]) = 0
                BY <3>1
            <4> HIDE DEF U
            <4> QED BY <4>1 DEF SumRound
        <3> QED BY <3>2, <2>1
    <2>3. n - 1 \in Nat /\ n - 1 \notin N
        <3>1. n \in Nat
            BY <2>1
        <3>2. n - 1 \in Nat /\ ~ (n <= n - 1)
            BY <3>1, <2>2
        <3> HIDE DEF N
        <3> QED BY <3>2, <2>1
    <2>4. PICK h : h = SumRound(f, U(n - 1), h)
        BY <2>3
    <2> DEFINE g == SumRound(f, U(n), h)
    <2>5. ASSUME NEW t \in U(n - 1) PROVE t \in U(n) /\ g[t] = h[t]
        <3>1. t \in U(n)
            BY <1>1, <2>3
        <3>2. h[t] = IF t = {} THEN 0 ELSE f[Chosen(t)] + h[t \ {Chosen(t)}]
            BY <2>4 DEF SumRound
        <3> QED BY <3>1, <3>2 DEF SumRound
    <2>6. ASSUME NEW s \in U(n), s # {} PROVE g[s \ {Chosen(s)}] = h[s \ {Chosen(s)}]
        <3>1. s \ {Chosen(s)} \in U(n - 1)
            BY <1>1, <1>2, <2>6, <2>1
        <3> QED BY <3>1, <2>5
    <2>7. g = SumRound(f, U(n), g)
        <3>1. \A s \in U(n) : (IF s = {} THEN 0 ELSE f[Chosen(s)] + h[s \ {Chosen(s)}])
                              = (IF s = {} THEN 0 ELSE f[Chosen(s)] + g[s \ {Chosen(s)}])
            BY <2>6
        <3>2. SumRound(f, U(n), h) = SumRound(f, U(n), g)
            <4> HIDE DEF g
            <4> QED BY <3>1 DEF SumRound
        <3> QED BY <3>2
    <2> QED BY <2>7, <2>1
<1>4. Cardinality(S) \in Nat
    BY <1>1
<1>5. \E g : g = SumRound(f, U(Cardinality(S)), g)
    BY <1>3, <1>4
<1>6. U(Cardinality(S)) = SUBSET S
    BY <1>1
<1> QED BY <1>5, <1>6

\* So what the recursion defines is what one round of it gives.
LEMMA PartialSum ==
    ASSUME NEW f, NEW S, IsFiniteSet(S), NEW s \in SUBSET S
    PROVE  PartialSums(f, S)[s]
             = IF s = {} THEN 0 ELSE f[Chosen(s)] + PartialSums(f, S)[s \ {Chosen(s)}]
<1>1. PartialSums(f, S) = SumRound(f, SUBSET S, PartialSums(f, S))
    BY PartialSumsExist DEF PartialSums
<1>2. SumRound(f, SUBSET S, PartialSums(f, S))[s]
        = IF s = {} THEN 0 ELSE f[Chosen(s)] + PartialSums(f, S)[s \ {Chosen(s)}]
    BY DEF SumRound
<1> QED BY <1>1, <1>2

\* The same for the sets that are not empty.
LEMMA PartialStep ==
    ASSUME NEW f, NEW S, IsFiniteSet(S)
    PROVE  \A s \in SUBSET S :
               s # {} => PartialSums(f, S)[s]
                           = f[Chosen(s)] + PartialSums(f, S)[s \ {Chosen(s)}]
BY PartialSum

\* A sum depends on nothing but the values over the set.
LEMMA PartialSumsAgree ==
    ASSUME NEW f, NEW g, NEW S, IsFiniteSet(S), NEW T \in SUBSET S
    PROVE  (\A x \in T : f[x] = g[x]) => PartialSums(f, S)[T] = PartialSums(g, T)[T]
<1>0. /\ \A t \in SUBSET S : t # {} => PartialSums(f, S)[t]
                                        = f[Chosen(t)] + PartialSums(f, S)[t \ {Chosen(t)}]
      /\ \A t \in SUBSET T : t # {} => PartialSums(g, T)[t]
                                        = g[Chosen(t)] + PartialSums(g, T)[t \ {Chosen(t)}]
    <2>1. IsFiniteSet(S) /\ IsFiniteSet(T)
        BY FS_Subset
    <2>2. \A t \in SUBSET S : t # {} => PartialSums(f, S)[t]
                                         = f[Chosen(t)] + PartialSums(f, S)[t \ {Chosen(t)}]
        BY <2>1, PartialStep
    <2>3. \A t \in SUBSET T : t # {} => PartialSums(g, T)[t]
                                         = g[Chosen(t)] + PartialSums(g, T)[t \ {Chosen(t)}]
        BY <2>1, PartialStep
    <2> QED BY <2>2, <2>3
<1> HAVE \A x \in T : f[x] = g[x]
<1> DEFINE Q == {s \in SUBSET T : PartialSums(f, S)[s] # PartialSums(g, T)[s]}
<1>1. \A s \in SUBSET T : IsFiniteSet(s) /\ Cardinality(s) \in Nat
    BY FS_Subset, FS_CardinalityType
<1> SUFFICES ASSUME Q # {} PROVE FALSE
    OBVIOUS
<1>2. PICK s \in Q : \A r \in Q : Cardinality(s) <= Cardinality(r)
    <2>1. \A q \in Q : IsFiniteSet(q)
        BY <1>1
    <2> HIDE DEF Q
    <2> QED BY <2>1, SmallestSet
<1>3. s # {}
    <2> SUFFICES ASSUME s = {} PROVE FALSE
        OBVIOUS
    <2>1. PartialSums(f, S)[s] = 0
        BY PartialSum
    <2>2. IsFiniteSet(T) /\ s \in SUBSET T
        BY <1>1
    <2>3. PartialSums(g, T)[s] = 0
        BY <2>2, PartialSum
    <2> QED BY <2>1, <2>3
<1>4. Chosen(s) \in s
    BY <1>3 DEF Chosen
<1>5. s \ {Chosen(s)} \in SUBSET T /\ Cardinality(s \ {Chosen(s)}) = Cardinality(s) - 1
    BY <1>1, <1>4, FS_RemoveElement
<1>6. s \ {Chosen(s)} \notin Q
    <2>1. ~ (Cardinality(s) <= Cardinality(s \ {Chosen(s)}))
        BY <1>1, <1>5
    <2> HIDE DEF Q
    <2> QED BY <1>2, <2>1
<1>7. PartialSums(f, S)[s \ {Chosen(s)}] = PartialSums(g, T)[s \ {Chosen(s)}]
    BY <1>5, <1>6
<1>8. IsFiniteSet(T) /\ s \in SUBSET S /\ f[Chosen(s)] = g[Chosen(s)]
    BY <1>4, FS_Subset
<1>9. PartialSums(f, S)[s] = f[Chosen(s)] + PartialSums(f, S)[s \ {Chosen(s)}]
    BY <1>3, <1>8, <1>0
<1>10. PartialSums(g, T)[s] = g[Chosen(s)] + PartialSums(g, T)[s \ {Chosen(s)}]
    <2>1. IsFiniteSet(T) /\ s \in SUBSET T
        BY <1>8
    <2> QED BY <2>1, <1>3, <1>0
<1> QED BY <1>7, <1>8, <1>9, <1>10

-----------------------------------------------------------------------------
\* What a sum comes to.

\* The empty sum.
LEMMA SumEmpty ==
    ASSUME NEW f
    PROVE  SumFunctionOnSet(f, {}) = 0
BY PartialSum, SumIsLastPartial, FS_EmptySet

\* Functions that agree over a set have the same sum over it.
LEMMA SumSame ==
    ASSUME NEW f, NEW g, NEW S, IsFiniteSet(S), \A x \in S : f[x] = g[x]
    PROVE  SumFunctionOnSet(f, S) = SumFunctionOnSet(g, S)
BY PartialSumsAgree, SumIsLastPartial

\* The recursion, one round.
LEMMA SumOnce ==
    ASSUME NEW f, NEW S, IsFiniteSet(S), S # {}
    PROVE  /\ Chosen(S) \in S
           /\ SumFunctionOnSet(f, S) = f[Chosen(S)] + SumFunctionOnSet(f, S \ {Chosen(S)})
<1>1. PartialSums(f, S)[S] = f[Chosen(S)] + PartialSums(f, S)[S \ {Chosen(S)}]
    BY PartialSum
<1>2. PartialSums(f, S)[S \ {Chosen(S)}] = PartialSums(f, S \ {Chosen(S)})[S \ {Chosen(S)}]
    BY PartialSumsAgree
<1>3. Chosen(S) \in S
    BY DEF Chosen
<1> QED BY <1>1, <1>2, <1>3, SumIsLastPartial

\* A sum is one of the numbers D that are closed under addition and hold its terms.
LEMMA SumIn ==
    ASSUME NEW D, 0 \in D, \A a, b \in D : a + b \in D,
           NEW f, NEW S, IsFiniteSet(S), \A x \in S : f[x] \in D
    PROVE  SumFunctionOnSet(f, S) \in D
<1> DEFINE Q == {s \in SUBSET S : SumFunctionOnSet(f, s) \notin D}
<1>1. \A s \in SUBSET S : IsFiniteSet(s) /\ Cardinality(s) \in Nat
    BY FS_Subset, FS_CardinalityType
<1> SUFFICES ASSUME Q # {} PROVE FALSE
    OBVIOUS
<1>2. PICK s \in Q : \A r \in Q : Cardinality(s) <= Cardinality(r)
    <2>1. \A q \in Q : IsFiniteSet(q)
        BY <1>1
    <2> HIDE DEF Q
    <2> QED BY <2>1, SmallestSet
<1>3. s # {}
    BY SumEmpty
<1>4. Chosen(s) \in s /\ SumFunctionOnSet(f, s) = f[Chosen(s)] + SumFunctionOnSet(f, s \ {Chosen(s)})
    BY <1>1, <1>3, SumOnce
<1>5. s \ {Chosen(s)} \in SUBSET S /\ Cardinality(s \ {Chosen(s)}) = Cardinality(s) - 1
    BY <1>1, <1>4, FS_RemoveElement
<1>6. s \ {Chosen(s)} \notin Q
    <2>1. ~ (Cardinality(s) <= Cardinality(s \ {Chosen(s)}))
        BY <1>1, <1>5
    <2> HIDE DEF Q
    <2> QED BY <1>2, <2>1
<1>7. SumFunctionOnSet(f, s \ {Chosen(s)}) \in D /\ f[Chosen(s)] \in D
    BY <1>4, <1>5, <1>6
<1> QED BY <1>4, <1>7

\* The sum of whole numbers is one, and that of natural numbers too.
LEMMA SumType ==
    ASSUME NEW f, NEW S, IsFiniteSet(S)
    PROVE  /\ (\A x \in S : f[x] \in Int) => SumFunctionOnSet(f, S) \in Int
           /\ (\A x \in S : f[x] \in Nat) => SumFunctionOnSet(f, S) \in Nat
<1>1. (\A x \in S : f[x] \in Int) => SumFunctionOnSet(f, S) \in Int
    <2>1. \A a, b \in Int : a + b \in Int
        OBVIOUS
    <2> QED BY <2>1, SumIn
<1>2. (\A x \in S : f[x] \in Nat) => SumFunctionOnSet(f, S) \in Nat
    <2>1. \A a, b \in Nat : a + b \in Nat
        OBVIOUS
    <2> QED BY <2>1, SumIn
<1> QED BY <1>1, <1>2

\* Any one element can be taken out of the sum.
LEMMA SumTakeOut ==
    ASSUME NEW f, NEW S, IsFiniteSet(S), \A x \in S : f[x] \in Int, NEW x \in S
    PROVE  SumFunctionOnSet(f, S) = f[x] + SumFunctionOnSet(f, S \ {x})
<1> DEFINE Wrong(s, y) == SumFunctionOnSet(f, s) # f[y] + SumFunctionOnSet(f, s \ {y})
           Q == {s \in SUBSET S : \E y \in s : Wrong(s, y)}
<1>1. \A s \in SUBSET S : IsFiniteSet(s) /\ Cardinality(s) \in Nat /\ SumFunctionOnSet(f, s) \in Int
    BY FS_Subset, FS_CardinalityType, SumType
<1> SUFFICES ASSUME Q # {} PROVE FALSE
    OBVIOUS
<1>2. PICK s \in Q : \A r \in Q : Cardinality(s) <= Cardinality(r)
    <2>1. \A q \in Q : IsFiniteSet(q)
        BY <1>1
    <2> HIDE DEF Q
    <2> QED BY <2>1, SmallestSet
<1>3. s \in SUBSET S /\ IsFiniteSet(s) /\ Cardinality(s) \in Nat
    BY <1>1
<1>4. PICK y \in s : Wrong(s, y)
    BY <1>2
<1> DEFINE c == Chosen(s)
<1>5. c \in s /\ SumFunctionOnSet(f, s) = f[c] + SumFunctionOnSet(f, s \ {c})
    BY <1>3, <1>4, SumOnce
<1>6. ASSUME NEW z \in s, NEW u \in s \ {z}
      PROVE  SumFunctionOnSet(f, s \ {z}) = f[u] + SumFunctionOnSet(f, (s \ {z}) \ {u})
    <2>1. Cardinality(s \ {z}) = Cardinality(s) - 1
        BY <1>3, FS_RemoveElement
    <2>2. ~ (Cardinality(s) <= Cardinality(s \ {z}))
        BY <1>3, <2>1
    <2>3. s \ {z} \notin Q
        <3> HIDE DEF Q
        <3> QED BY <1>2, <2>2
    <2> QED BY <1>3, <2>3
<1>7. c # y
    BY <1>4, <1>5
<1>8. SumFunctionOnSet(f, s \ {c}) = f[y] + SumFunctionOnSet(f, (s \ {c}) \ {y})
    BY <1>5, <1>6, <1>7
<1>9. SumFunctionOnSet(f, s \ {y}) = f[c] + SumFunctionOnSet(f, (s \ {y}) \ {c})
    BY <1>5, <1>6, <1>7
<1>10. (s \ {c}) \ {y} = (s \ {y}) \ {c}
    OBVIOUS
<1> DEFINE rest == SumFunctionOnSet(f, (s \ {y}) \ {c})
<1>11. rest \in Int /\ f[c] \in Int /\ f[y] \in Int
    BY <1>1, <1>3, <1>5
<1>12. f[c] + (f[y] + rest) = f[y] + (f[c] + rest)
    <2> HIDE DEF rest, c
    <2> QED BY <1>11
<1> QED BY <1>4, <1>5, <1>8, <1>9, <1>10, <1>12

\* An element more.
LEMMA SumAdd ==
    ASSUME NEW f, NEW S, IsFiniteSet(S), NEW x, x \notin S,
           \A y \in S : f[y] \in Int, f[x] \in Int
    PROVE  SumFunctionOnSet(f, S \cup {x}) = f[x] + SumFunctionOnSet(f, S)
<1>1. IsFiniteSet(S \cup {x}) /\ (S \cup {x}) \ {x} = S
    BY FS_AddElement
<1>2. SumFunctionOnSet(f, S \cup {x}) = f[x] + SumFunctionOnSet(f, (S \cup {x}) \ {x})
    BY <1>1, SumTakeOut
<1> QED BY <1>1, <1>2

\* The sum over two sets that are apart.
LEMMA SumUnion ==
    ASSUME NEW f, NEW S, IsFiniteSet(S), NEW T, IsFiniteSet(T), S \cap T = {},
           \A x \in S \cup T : f[x] \in Int
    PROVE  SumFunctionOnSet(f, S \cup T) = SumFunctionOnSet(f, S) + SumFunctionOnSet(f, T)
<1> DEFINE Wrong(u) == SumFunctionOnSet(f, S \cup u) # SumFunctionOnSet(f, S) + SumFunctionOnSet(f, u)
           Q == {u \in SUBSET T : Wrong(u)}
<1>1. \A u \in SUBSET T : /\ IsFiniteSet(u) /\ Cardinality(u) \in Nat /\ IsFiniteSet(S \cup u)
                           /\ SumFunctionOnSet(f, u) \in Int
    BY FS_Subset, FS_CardinalityType, FS_Union, SumType
<1>2. SumFunctionOnSet(f, S) \in Int
    BY SumType
<1> SUFFICES ASSUME Q # {} PROVE FALSE
    OBVIOUS
<1>3. PICK u \in Q : \A r \in Q : Cardinality(u) <= Cardinality(r)
    <2>1. \A q \in Q : IsFiniteSet(q)
        BY <1>1
    <2> HIDE DEF Q
    <2> QED BY <2>1, SmallestSet
<1>4. u \in SUBSET T /\ Wrong(u)
    OBVIOUS
<1>5. u # {}
    <2> SUFFICES ASSUME u = {} PROVE FALSE
        OBVIOUS
    <2>1. S \cup u = S /\ SumFunctionOnSet(f, u) = 0
        BY SumEmpty
    <2> QED BY <1>2, <1>4, <2>1
<1>6. PICK x \in u : TRUE
    BY <1>5
<1> DEFINE r == u \ {x}
<1>7. r \in SUBSET T /\ Cardinality(r) = Cardinality(u) - 1
    BY <1>1, <1>4, FS_RemoveElement
<1>8. ~ Wrong(r)
    <2>1. ~ (Cardinality(u) <= Cardinality(r))
        BY <1>1, <1>4, <1>7
    <2>2. r \notin Q
        <3> HIDE DEF Q, r
        <3> QED BY <1>3, <2>1
    <2> QED BY <1>7, <2>2
<1>9. SumFunctionOnSet(f, u) = f[x] + SumFunctionOnSet(f, r)
    BY <1>1, <1>4, SumTakeOut
<1>10. (S \cup u) \ {x} = S \cup r
    BY <1>4
<1>11. SumFunctionOnSet(f, S \cup u) = f[x] + SumFunctionOnSet(f, S \cup r)
    <2>1. IsFiniteSet(S \cup u) /\ x \in S \cup u /\ \A y \in S \cup u : f[y] \in Int
        BY <1>1, <1>4
    <2>2. SumFunctionOnSet(f, S \cup u) = f[x] + SumFunctionOnSet(f, (S \cup u) \ {x})
        BY <2>1, SumTakeOut
    <2> QED BY <2>2, <1>10
<1>12. f[x] \in Int /\ SumFunctionOnSet(f, r) \in Int
    BY <1>1, <1>4, <1>7
<1> QED
    <2> HIDE DEF r
    <2> QED BY <1>2, <1>4, <1>8, <1>9, <1>11, <1>12

\* Of natural numbers, fewer come to no more.
LEMMA SumOfFewer ==
    ASSUME NEW f, NEW S, IsFiniteSet(S), \A x \in S : f[x] \in Nat, NEW T \in SUBSET S
    PROVE  SumFunctionOnSet(f, T) <= SumFunctionOnSet(f, S)
<1>1. /\ IsFiniteSet(T) /\ IsFiniteSet(S \ T) /\ T \cap (S \ T) = {} /\ T \cup (S \ T) = S
    BY FS_Subset
<1>2. SumFunctionOnSet(f, T) \in Nat /\ SumFunctionOnSet(f, S \ T) \in Nat
    BY <1>1, SumType
<1>3. SumFunctionOnSet(f, S) = SumFunctionOnSet(f, T) + SumFunctionOnSet(f, S \ T)
    <2>1. \A x \in T \cup (S \ T) : f[x] \in Int
        OBVIOUS
    <2>2. SumFunctionOnSet(f, T \cup (S \ T)) = SumFunctionOnSet(f, T) + SumFunctionOnSet(f, S \ T)
        BY <1>1, <2>1, SumUnion
    <2> QED BY <1>1, <2>2
<1> QED BY <1>2, <1>3

\* Terms that are those of another sum, each taken once, come to no more than that sum.
LEMMA SumOverImage ==
    ASSUME NEW f, NEW h, NEW A, IsFiniteSet(A), NEW D, IsFiniteSet(D),
           NEW g \in [D -> A], IsInjective(g),
           \A d \in D : f[d] = h[g[d]], \A a \in A : h[a] \in Nat
    PROVE  SumFunctionOnSet(f, D) <= SumFunctionOnSet(h, A)
<1> DEFINE Image(u) == {g[d] : d \in u}
           Wrong(u) == SumFunctionOnSet(f, u) # SumFunctionOnSet(h, Image(u))
           Q == {u \in SUBSET D : Wrong(u)}
<1>1. \A u \in SUBSET D : IsFiniteSet(u) /\ Cardinality(u) \in Nat
    BY FS_Subset, FS_CardinalityType
<1>2. \A u \in SUBSET D : Image(u) \in SUBSET A
    OBVIOUS
<1>3. \A u \in SUBSET D : IsFiniteSet(Image(u))
    <2> HIDE DEF Image
    <2> QED BY <1>2, FS_Subset
<1>4. Q = {}
    <2> SUFFICES ASSUME Q # {} PROVE FALSE
        OBVIOUS
    <2>1. PICK u \in Q : \A r \in Q : Cardinality(u) <= Cardinality(r)
        <3>1. \A q \in Q : IsFiniteSet(q)
            BY <1>1
        <3> HIDE DEF Q
        <3> QED BY <3>1, SmallestSet
    <2>2. u \in SUBSET D /\ Wrong(u)
        OBVIOUS
    <2>3. u # {}
        <3> SUFFICES ASSUME u = {} PROVE FALSE
            OBVIOUS
        <3>1. Image(u) = {}
            OBVIOUS
        <3>2. SumFunctionOnSet(f, u) = 0 /\ SumFunctionOnSet(h, Image(u)) = 0
            <4> HIDE DEF Image
            <4> QED BY <3>1, SumEmpty
        <3> QED BY <2>2, <3>2
    <2>4. PICK x \in u : TRUE
        BY <2>3
    <2> DEFINE r == u \ {x}
    <2>5. r \in SUBSET D /\ Cardinality(r) = Cardinality(u) - 1
        BY <1>1, <2>2, FS_RemoveElement
    <2>6. ~ Wrong(r)
        <3>1. ~ (Cardinality(u) <= Cardinality(r))
            BY <1>1, <2>2, <2>5
        <3>2. r \notin Q
            <4> HIDE DEF Q, r
            <4> QED BY <2>1, <3>1
        <3> QED BY <2>5, <3>2
    <2>7. g[x] \in Image(u) /\ Image(r) = Image(u) \ {g[x]}
        BY <2>2, <2>4 DEF IsInjective
    <2>8. SumFunctionOnSet(h, Image(u)) = h[g[x]] + SumFunctionOnSet(h, Image(r))
        <3>1. \A a \in Image(u) : h[a] \in Int
            BY <1>2, <2>2
        <3>2. IsFiniteSet(Image(u))
            BY <1>3, <2>2
        <3> HIDE DEF Image, r
        <3> QED BY <2>7, <3>1, <3>2, SumTakeOut
    <2>9. SumFunctionOnSet(f, u) = f[x] + SumFunctionOnSet(f, r)
        <3>1. IsFiniteSet(u)
            BY <1>1, <2>2
        <3>2. \A d \in u : f[d] \in Int
            BY <2>2
        <3> QED BY <3>1, <3>2, SumTakeOut
    <2>10. f[x] = h[g[x]]
        BY <2>2, <2>4
    <2> QED BY <2>2, <2>6, <2>8, <2>9, <2>10
<1>5. SumFunctionOnSet(f, D) = SumFunctionOnSet(h, Image(D))
    <2>1. D \notin Q
        BY <1>4
    <2> QED BY <2>1
<1>6. SumFunctionOnSet(h, Image(D)) <= SumFunctionOnSet(h, A)
    <2>1. Image(D) \in SUBSET A
        BY <1>2
    <2> HIDE DEF Image
    <2> QED BY <2>1, SumOfFewer
<1> QED BY <1>5, <1>6

\* A sum of which one term is not 0.
LEMMA SumOfOne ==
    ASSUME NEW f, NEW S, IsFiniteSet(S), NEW x \in S, f[x] \in Int, \A y \in S : y # x => f[y] = 0
    PROVE  SumFunctionOnSet(f, S) = f[x]
<1>1. SumFunctionOnSet(f, S) = f[x] + SumFunctionOnSet(f, S \ {x})
    <2>1. \A y \in S : f[y] \in Int
        OBVIOUS
    <2> QED BY <2>1, SumTakeOut
<1>2. SumFunctionOnSet(f, S \ {x}) \in {0}
    <2>1. IsFiniteSet(S \ {x}) /\ \A y \in S \ {x} : f[y] \in {0}
        BY FS_Subset
    <2>2. 0 \in {0} /\ \A a, b \in {0} : a + b \in {0}
        OBVIOUS
    <2> QED BY <2>1, <2>2, SumIn
<1> QED BY <1>1, <1>2

\* A sum of nothing but 0.
LEMMA SumOfNone ==
    ASSUME NEW f, NEW S, IsFiniteSet(S), \A y \in S : f[y] = 0
    PROVE  SumFunctionOnSet(f, S) = 0
<1>1. \A y \in S : f[y] \in {0}
    OBVIOUS
<1>2. 0 \in {0} /\ \A a, b \in {0} : a + b \in {0}
    OBVIOUS
<1>3. SumFunctionOnSet(f, S) \in {0}
    BY <1>1, <1>2, SumIn
<1> QED BY <1>3

\* If every term grows by one, the sum grows by their number.
LEMMA SumOfMore ==
    ASSUME NEW f, NEW g, NEW S, IsFiniteSet(S), \A x \in S : f[x] \in Int /\ g[x] = f[x] + 1
    PROVE  SumFunctionOnSet(g, S) = SumFunctionOnSet(f, S) + Cardinality(S)
<1> DEFINE Wrong(s) == SumFunctionOnSet(g, s) # SumFunctionOnSet(f, s) + Cardinality(s)
           Q == {s \in SUBSET S : Wrong(s)}
<1>1. \A s \in SUBSET S : /\ IsFiniteSet(s) /\ Cardinality(s) \in Nat
                           /\ SumFunctionOnSet(f, s) \in Int /\ SumFunctionOnSet(g, s) \in Int
    <2>1. \A x \in S : f[x] \in Int /\ g[x] \in Int
        OBVIOUS
    <2> QED BY <2>1, FS_Subset, FS_CardinalityType, SumType
<1> SUFFICES ASSUME Q # {} PROVE FALSE
    OBVIOUS
<1>2. PICK s \in Q : \A r \in Q : Cardinality(s) <= Cardinality(r)
    <2>1. \A q \in Q : IsFiniteSet(q)
        BY <1>1
    <2> HIDE DEF Q
    <2> QED BY <2>1, SmallestSet
<1>3. s \in SUBSET S /\ Wrong(s)
    OBVIOUS
<1>4. s # {}
    <2> SUFFICES ASSUME s = {} PROVE FALSE
        OBVIOUS
    <2> QED BY <1>3, SumEmpty, FS_EmptySet
<1>5. PICK x \in s : TRUE
    BY <1>4
<1>6. s \ {x} \in SUBSET S /\ Cardinality(s \ {x}) = Cardinality(s) - 1
    BY <1>1, <1>3, <1>5, FS_RemoveElement
<1>7. ~ Wrong(s \ {x})
    <2>1. ~ (Cardinality(s) <= Cardinality(s \ {x}))
        BY <1>1, <1>3, <1>6
    <2>2. s \ {x} \notin Q
        <3> HIDE DEF Q
        <3> QED BY <1>2, <2>1
    <2> QED BY <1>6, <2>2
<1>8. /\ SumFunctionOnSet(f, s) = f[x] + SumFunctionOnSet(f, s \ {x})
      /\ SumFunctionOnSet(g, s) = g[x] + SumFunctionOnSet(g, s \ {x})
    <2>1. IsFiniteSet(s) /\ \A y \in s : f[y] \in Int
        BY <1>1, <1>3
    <2>2. \A y \in s : g[y] \in Int
        BY <1>3
    <2>3. SumFunctionOnSet(f, s) = f[x] + SumFunctionOnSet(f, s \ {x})
        BY <2>1, SumTakeOut
    <2>4. SumFunctionOnSet(g, s) = g[x] + SumFunctionOnSet(g, s \ {x})
        BY <2>1, <2>2, SumTakeOut
    <2> QED BY <2>3, <2>4
<1>9. g[x] = f[x] + 1 /\ f[x] \in Int /\ Cardinality(s) \in Nat
      /\ SumFunctionOnSet(f, s \ {x}) \in Int /\ SumFunctionOnSet(g, s \ {x}) \in Int
    BY <1>1, <1>3, <1>5, <1>6
<1> QED BY <1>3, <1>6, <1>7, <1>8, <1>9
=============================================================================
