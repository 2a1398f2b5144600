------------------------------ MODULE SumFacts ------------------------------
(***************************************************************************)
(* Sums of natural numbers over a finite set: what SumFunctionOnSet of     *)
(* module Functions comes to, for proofs about totals (won, shares, risk). *)
(* A sum counts cells: as many for each index as its value.  The library   *)
(* defines the sum by recursion on the set, so the step from one to the    *)
(* other is an induction, by a smallest counterexample.                    *)
(***************************************************************************)
EXTENDS Integers, Functions, FiniteSetTheorems, TLAPS

Cells(f, S) == UNION {{<<x, k>> : k \in 1 .. f[x]} : x \in S}

Summable(f, S) == IsFiniteSet(S) /\ \A x \in S : f[x] \in Nat

\* The recursion by which the library defines a sum.
SumRec(f, S, g) ==
  g = [s \in SUBSET S |->
         IF s = {} THEN 0
         ELSE f[CHOOSE x \in s : TRUE] + g[s \ {CHOOSE x \in s : TRUE}]]

\* Of the subsets of a finite set that are bad, one has no bad subset but itself.
LEMMA SmallestBad ==
  ASSUME NEW S, IsFiniteSet(S), NEW Bad \in SUBSET (SUBSET S), Bad # {}
  PROVE  \E T \in Bad : \A U \in Bad : U \subseteq T => U = T
<1>1. IsWellFoundedOn(StrictSubsetOrdering(S), FiniteSubsetsOf(S))
  BY FS_StrictSubsetOrderingWellFounded
<1>2. Bad \subseteq FiniteSubsetsOf(S)
  BY FS_FiniteSubsetsOfFinite
<1>3. PICK T \in Bad : \A U \in Bad : ~ (<<U, T>> \in StrictSubsetOrdering(S))
  BY <1>1, <1>2, WFMin
<1>4. ASSUME NEW U \in Bad, U \subseteq T, U # T PROVE FALSE
  <2>1. <<U, T>> \in StrictSubsetOrdering(S)
    BY <1>4 DEF StrictSubsetOrdering
  <2> QED
    BY <1>3, <2>1
<1>5. \A U \in Bad : U \subseteq T => U = T
  BY <1>4
<1> QED
  BY <1>5

\* The cells of one index are as many as its value.
LEMMA ColumnSize ==
  ASSUME NEW x, NEW n \in Nat
  PROVE  IsFiniteSet({<<x, k>> : k \in 1 .. n}) /\ Cardinality({<<x, k>> : k \in 1 .. n}) = n
<1> DEFINE C == {<<x, k>> : k \in 1 .. n}
           h == [k \in 1 .. n |-> <<x, k>>]
<1>1. IsFiniteSet(1 .. n) /\ Cardinality(1 .. n) = n
  BY FS_Interval
<1>2. h \in Bijection(1 .. n, C)
  BY DEF Bijection, Injection, Surjection, IsInjective
<1>3. ExistsBijection(1 .. n, C)
  BY <1>2 DEF ExistsBijection
<1> QED
  BY <1>1, <1>3, FS_Bijection

\* One index more adds its value to the number of cells.
LEMMA CellsAdd ==
  ASSUME NEW f, NEW T, NEW x \in T, f[x] \in Nat, IsFiniteSet(Cells(f, T \ {x}))
  PROVE  /\ IsFiniteSet(Cells(f, T))
         /\ Cardinality(Cells(f, T)) = f[x] + Cardinality(Cells(f, T \ {x}))
<1> DEFINE C == {<<x, k>> : k \in 1 .. f[x]}
           R == Cells(f, T \ {x})
<1>1. Cells(f, T) = R \cup C
  BY DEF Cells
<1>2. R \cap C = {}
  BY DEF Cells
<1>3. IsFiniteSet(C) /\ Cardinality(C) = f[x]
  BY ColumnSize
<1>4. Cardinality(R) \in Nat
  BY FS_CardinalityType
<1> HIDE DEF C, R
<1>5. IsFiniteSet(R) /\ IsFiniteSet(R \cup C)
  <2>1. IsFiniteSet(R)
    BY DEF R
  <2> QED
    BY <1>3, <2>1, FS_Union
<1>6. Cardinality(R \cup C) = Cardinality(R) + Cardinality(C) - Cardinality(R \cap C)
  BY <1>3, <1>5, FS_Union
<1>7. Cardinality(R \cap C) = 0
  BY <1>2, FS_EmptySet
<1>8. IsFiniteSet(Cells(f, T)) /\ Cardinality(Cells(f, T)) = f[x] + Cardinality(R)
  BY <1>1, <1>3, <1>4, <1>5, <1>6, <1>7
<1> QED
  BY <1>8 DEF R

LEMMA CellsFinite == ASSUME NEW f, NEW S, Summable(f, S) PROVE IsFiniteSet(Cells(f, S))
<1> DEFINE Bad == {T \in SUBSET S : ~ IsFiniteSet(Cells(f, T))}
<1>1. SUFFICES ASSUME Bad # {} PROVE FALSE
  OBVIOUS
<1>2. PICK T \in Bad : \A U \in Bad : U \subseteq T => U = T
  <2>1. Bad \in SUBSET (SUBSET S) /\ IsFiniteSet(S)
    BY DEF Summable
  <2> HIDE DEF Bad
  <2> QED
    BY <1>1, <2>1, SmallestBad
<1>3. CASE T = {}
  <2>1. Cells(f, T) = {}
    BY <1>3 DEF Cells
  <2> QED
    BY <2>1, FS_EmptySet
<1>4. CASE T # {}
  <2>1. PICK x : x \in T
    BY <1>4
  <2>2. T \ {x} \notin Bad /\ T \subseteq S
    BY <1>2, <2>1
  <2>3. IsFiniteSet(Cells(f, T \ {x})) /\ f[x] \in Nat
    BY <2>1, <2>2 DEF Summable
  <2> QED
    BY <2>1, <2>3, CellsAdd
<1> QED
  BY <1>3, <1>4

\* The library's sum is the number of cells.
LEMMA SumIsSize ==
  ASSUME NEW f, NEW S, Summable(f, S)
  PROVE  SumFunctionOnSet(f, S) = Cardinality(Cells(f, S))
<1> DEFINE size == [s \in SUBSET S |-> Cardinality(Cells(f, s))]
           sum == CHOOSE g : SumRec(f, S, g)
<1>1. SumFunctionOnSet(f, S) = sum[S]
  BY Zenon DEF SumFunctionOnSet, FoldFunctionOnSet, MapThenFoldSet, SumRec
<1>2. ASSUME NEW s \in SUBSET S, NEW x \in s
      PROVE  Cardinality(Cells(f, s)) = f[x] + Cardinality(Cells(f, s \ {x}))
  <2>1. IsFiniteSet(s \ {x}) /\ f[x] \in Nat
    BY FS_Subset DEF Summable
  <2>2. Summable(f, s \ {x})
    BY <2>1 DEF Summable
  <2> QED
    BY <2>1, <2>2, CellsFinite, CellsAdd
<1>3. Cardinality(Cells(f, {})) = 0
  <2>1. Cells(f, {}) = {}
    BY DEF Cells
  <2> QED
    BY <2>1, FS_EmptySet
<1>4. SumRec(f, S, size)
  <2>1. ASSUME NEW s \in SUBSET S
        PROVE  size[s] = IF s = {} THEN 0
                         ELSE f[CHOOSE x \in s : TRUE] + size[s \ {CHOOSE x \in s : TRUE}]
    <3>1. CASE s = {}
      BY <1>3, <3>1
    <3>2. CASE s # {}
      <4>1. (CHOOSE x \in s : TRUE) \in s
        BY <3>2
      <4>2. s \ {CHOOSE x \in s : TRUE} \in SUBSET S
        OBVIOUS
      <4> QED
        BY <1>2, <3>2, <4>1, <4>2
    <3> QED
      BY <3>1, <3>2
  <2> QED
    BY <2>1 DEF SumRec
<1>5. SumRec(f, S, sum)
  BY <1>4
<1> HIDE DEF sum
<1>6. ASSUME NEW s \in SUBSET S
      PROVE  sum[s] = IF s = {} THEN 0
                      ELSE f[CHOOSE x \in s : TRUE] + sum[s \ {CHOOSE x \in s : TRUE}]
  BY <1>5 DEF SumRec
<1> DEFINE Bad == {s \in SUBSET S : sum[s] # Cardinality(Cells(f, s))}
<1>7. SUFFICES ASSUME Bad # {} PROVE FALSE
  BY <1>1
<1>8. PICK T \in Bad : \A U \in Bad : U \subseteq T => U = T
  <2>1. Bad \in SUBSET (SUBSET S) /\ IsFiniteSet(S)
    BY DEF Summable
  <2> HIDE DEF Bad
  <2> QED
    BY <1>7, <2>1, SmallestBad
<1>9. CASE T = {}
  BY <1>3, <1>6, <1>9
<1>10. CASE T # {}
  <2> DEFINE x == CHOOSE y \in T : TRUE
  <2>1. x \in T /\ T \in SUBSET S
    BY <1>10
  <2>2. sum[T] = f[x] + sum[T \ {x}]
    BY <1>6, <1>10, <2>1
  <2> HIDE DEF x
  <2>3. T \ {x} \in SUBSET S /\ T \ {x} \notin Bad
    BY <1>8, <2>1
  <2>4. sum[T \ {x}] = Cardinality(Cells(f, T \ {x}))
    BY <2>3
  <2>5. sum[T] = Cardinality(Cells(f, T))
    BY <1>2, <2>1, <2>2, <2>4
  <2> QED
    BY <2>5
<1> QED
  BY <1>9, <1>10

-----------------------------------------------------------------------------
(* What the proofs about totals use.                                        *)

\* A sum over all of a function's indices.
LEMMA SumAll == ASSUME NEW f, NEW S, DOMAIN f = S PROVE SumFunction(f) = SumFunctionOnSet(f, S)
BY DEF SumFunction

LEMMA SumType == ASSUME NEW f, NEW S, Summable(f, S) PROVE SumFunctionOnSet(f, S) \in Nat
BY SumIsSize, CellsFinite, FS_CardinalityType

LEMMA SumEmpty == ASSUME NEW f PROVE SumFunctionOnSet(f, {}) = 0
<1>1. Summable(f, {})
  BY FS_EmptySet DEF Summable
<1>2. Cells(f, {}) = {}
  BY DEF Cells
<1> QED
  BY <1>1, <1>2, SumIsSize, FS_EmptySet

LEMMA SumZero ==
  ASSUME NEW f, NEW S, Summable(f, S), \A x \in S : f[x] = 0 PROVE SumFunctionOnSet(f, S) = 0
<1>1. Cells(f, S) = {}
  BY DEF Cells
<1> QED
  BY <1>1, SumIsSize, FS_EmptySet

\* Some of the indices, and one of them set aside.
LEMMA SummableSubset ==
  ASSUME NEW f, NEW S, Summable(f, S), NEW T, T \subseteq S PROVE Summable(f, T)
BY FS_Subset DEF Summable

LEMMA SumSplit ==
  ASSUME NEW f, NEW S, Summable(f, S), NEW x \in S
  PROVE  SumFunctionOnSet(f, S) = f[x] + SumFunctionOnSet(f, S \ {x})
<1>1. Summable(f, S \ {x}) /\ f[x] \in Nat
  BY SummableSubset DEF Summable
<1>2. IsFiniteSet(Cells(f, S \ {x}))
  BY <1>1, CellsFinite
<1>3. Cardinality(Cells(f, S)) = f[x] + Cardinality(Cells(f, S \ {x}))
  BY <1>1, <1>2, CellsAdd
<1>4. /\ SumFunctionOnSet(f, S) = Cardinality(Cells(f, S))
      /\ SumFunctionOnSet(f, S \ {x}) = Cardinality(Cells(f, S \ {x}))
  BY <1>1, SumIsSize
<1> QED
  BY <1>3, <1>4

LEMMA SumAdd ==
  ASSUME NEW f, NEW S, Summable(f, S), NEW x, x \notin S, f[x] \in Nat
  PROVE  Summable(f, S \cup {x}) /\ SumFunctionOnSet(f, S \cup {x}) = f[x] + SumFunctionOnSet(f, S)
<1>1. Summable(f, S \cup {x})
  BY FS_AddElement DEF Summable
<1>2. (S \cup {x}) \ {x} = S /\ x \in S \cup {x}
  OBVIOUS
<1> QED
  BY <1>1, <1>2, SumSplit

\* Indices matched one to one with indices of a value at least as large: no larger a sum.
LEMMA SumInto ==
  ASSUME NEW f, NEW S, Summable(f, S), NEW g, NEW T, Summable(g, T),
         NEW h \in [S -> T], \A x \in S, y \in S : h[x] = h[y] => x = y,
         \A x \in S : f[x] <= g[h[x]]
  PROVE  SumFunctionOnSet(f, S) <= SumFunctionOnSet(g, T)
<1> DEFINE A == Cells(f, S)
           B == Cells(g, T)
           into == [p \in A |-> <<h[p[1]], p[2]>>]
<1>1. ASSUME NEW p \in A
      PROVE  \E x \in S : \E k \in 1 .. f[x] : p = <<x, k>>
  BY DEF Cells
<1>2. ASSUME NEW p \in A PROVE into[p] \in B
  <2>1. PICK x \in S : \E k \in 1 .. f[x] : p = <<x, k>>
    BY <1>1
  <2>2. PICK k \in 1 .. f[x] : p = <<x, k>>
    BY <2>1
  <2>3. h[x] \in T /\ k \in 1 .. g[h[x]]
    <3>1. f[x] \in Nat /\ h[x] \in T /\ f[x] <= g[h[x]]
      BY DEF Summable
    <3>2. g[h[x]] \in Nat
      BY <3>1 DEF Summable
    <3> QED
      BY <3>1, <3>2
  <2>4. into[p] = <<h[x], k>>
    BY <2>2
  <2> QED
    BY <2>3, <2>4 DEF Cells
<1>3. ASSUME NEW p \in A, NEW q \in A, into[p] = into[q] PROVE p = q
  <2>1. PICK x \in S : \E k \in 1 .. f[x] : p = <<x, k>>
    BY <1>1
  <2>2. PICK k \in 1 .. f[x] : p = <<x, k>>
    BY <2>1
  <2>3. PICK y \in S : \E l \in 1 .. f[y] : q = <<y, l>>
    BY <1>1
  <2>4. PICK l \in 1 .. f[y] : q = <<y, l>>
    BY <2>3
  <2>5. h[x] = h[y] /\ k = l
    BY <1>3, <2>2, <2>4
  <2> QED
    BY <2>2, <2>4, <2>5
<1>4. into \in Injection(A, B)
  BY <1>2, <1>3 DEF Injection, IsInjective
<1>5. IsFiniteSet(B)
  BY CellsFinite
<1> HIDE DEF into
<1>6. Cardinality(A) <= Cardinality(B)
  BY <1>4, <1>5, FS_Injection
<1> QED
  BY <1>6, SumIsSize

LEMMA SumMonotone ==
  ASSUME NEW f, NEW S, NEW g, NEW T, Summable(f, S), Summable(g, T),
         S \subseteq T, \A x \in S : f[x] <= g[x]
  PROVE  SumFunctionOnSet(f, S) <= SumFunctionOnSet(g, T)
<1> DEFINE h == [x \in S |-> x]
<1>1. /\ h \in [S -> T] /\ \A x \in S, y \in S : h[x] = h[y] => x = y
      /\ \A x \in S : f[x] <= g[h[x]]
  OBVIOUS
<1> HIDE DEF h
<1> QED
  BY <1>1, SumInto

LEMMA SumSame ==
  ASSUME NEW f, NEW S, NEW g, Summable(f, S), \A x \in S : f[x] = g[x]
  PROVE  Summable(g, S) /\ SumFunctionOnSet(g, S) = SumFunctionOnSet(f, S)
<1>1. Cells(f, S) = Cells(g, S)
  BY DEF Cells
<1>2. Summable(g, S)
  BY DEF Summable
<1> QED
  BY <1>1, <1>2, SumIsSize

\* A sum over two sets of indices that share none.
LEMMA SumUnion ==
  ASSUME NEW f, NEW S, NEW T, Summable(f, S), Summable(f, T), S \cap T = {}
  PROVE  /\ Summable(f, S \cup T)
         /\ SumFunctionOnSet(f, S \cup T) = SumFunctionOnSet(f, S) + SumFunctionOnSet(f, T)
<1>1. Summable(f, S \cup T)
  BY FS_Union DEF Summable
<1>2. Cells(f, S \cup T) = Cells(f, S) \cup Cells(f, T) /\ Cells(f, S) \cap Cells(f, T) = {}
  BY DEF Cells
<1>3. IsFiniteSet(Cells(f, S)) /\ IsFiniteSet(Cells(f, T))
  BY CellsFinite
<1>4. Cardinality(Cells(f, S) \cup Cells(f, T))
        = Cardinality(Cells(f, S)) + Cardinality(Cells(f, T)) - Cardinality(Cells(f, S) \cap Cells(f, T))
  BY <1>3, FS_Union
<1>5. Cardinality(Cells(f, S)) \in Nat /\ Cardinality(Cells(f, T)) \in Nat
  BY <1>3, FS_CardinalityType
<1>6. Cardinality(Cells(f, S) \cap Cells(f, T)) = 0
  BY <1>2, FS_EmptySet
<1>7. /\ SumFunctionOnSet(f, S \cup T) = Cardinality(Cells(f, S \cup T))
      /\ SumFunctionOnSet(f, S) = Cardinality(Cells(f, S))
      /\ SumFunctionOnSet(f, T) = Cardinality(Cells(f, T))
  <2>1. SumFunctionOnSet(f, S \cup T) = Cardinality(Cells(f, S \cup T))
    BY <1>1, SumIsSize
  <2>2. SumFunctionOnSet(f, S) = Cardinality(Cells(f, S))
    BY SumIsSize
  <2>3. SumFunctionOnSet(f, T) = Cardinality(Cells(f, T))
    BY SumIsSize
  <2> QED
    BY <2>1, <2>2, <2>3
<1>8. Cardinality(Cells(f, S \cup T)) = Cardinality(Cells(f, S)) + Cardinality(Cells(f, T))
  <2>1. Cardinality(Cells(f, S \cup T)) = Cardinality(Cells(f, S) \cup Cells(f, T))
    BY <1>2
  <2> QED
    BY <1>4, <1>5, <1>6, <2>1
<1> QED
  BY <1>1, <1>7, <1>8

\* Two values added at each index add the sums.
LEMMA SumPlus ==
  ASSUME NEW f, NEW g, NEW h, NEW S, Summable(f, S), Summable(g, S), \A x \in S : h[x] = f[x] + g[x]
  PROVE  /\ Summable(h, S)
         /\ SumFunctionOnSet(h, S) = SumFunctionOnSet(f, S) + SumFunctionOnSet(g, S)
<1> DEFINE Adds(T) == SumFunctionOnSet(h, T) = SumFunctionOnSet(f, T) + SumFunctionOnSet(g, T)
           Bad == {T \in SUBSET S : ~ Adds(T)}
<1>1. Summable(h, S) /\ IsFiniteSet(S)
  BY DEF Summable
<1>2. SUFFICES ASSUME Bad # {} PROVE FALSE
  BY <1>1
<1>3. PICK T \in Bad : \A U \in Bad : U \subseteq T => U = T
  <2>1. Bad \in SUBSET (SUBSET S)
    OBVIOUS
  <2> HIDE DEF Bad
  <2> QED
    BY <1>1, <1>2, <2>1, SmallestBad
<1>4. T \subseteq S /\ ~ Adds(T)
  OBVIOUS
<1>5. Summable(f, T) /\ Summable(g, T) /\ Summable(h, T)
  BY <1>1, <1>4, SummableSubset
<1>6. CASE T = {}
  BY <1>4, <1>6, SumEmpty
<1>7. CASE T # {}
  <2>1. PICK x : x \in T
    BY <1>7
  <2>2. Adds(T \ {x})
    BY <1>3, <1>4, <2>1
  <2>3. Summable(f, T \ {x}) /\ Summable(g, T \ {x}) /\ f[x] \in Nat /\ g[x] \in Nat /\ h[x] = f[x] + g[x]
    BY <1>4, <1>5, <2>1, SummableSubset DEF Summable
  <2>4. SumFunctionOnSet(f, T \ {x}) \in Nat /\ SumFunctionOnSet(g, T \ {x}) \in Nat
    BY <2>3, SumType
  <2>5. /\ SumFunctionOnSet(f, T) = f[x] + SumFunctionOnSet(f, T \ {x})
        /\ SumFunctionOnSet(g, T) = g[x] + SumFunctionOnSet(g, T \ {x})
        /\ SumFunctionOnSet(h, T) = h[x] + SumFunctionOnSet(h, T \ {x})
    BY <1>5, <2>1, SumSplit
  <2> QED
    BY <1>4, <2>2, <2>3, <2>4, <2>5
<1> QED
  BY <1>6, <1>7

\* A sum taken group by group.
LEMMA SumGroups ==
  ASSUME NEW f, NEW S, Summable(f, S), NEW I, IsFiniteSet(I), NEW k \in [S -> I],
         NEW F, \A i \in I : F[i] = SumFunctionOnSet(f, {x \in S : k[x] = i})
  PROVE  Summable(F, I) /\ SumFunctionOnSet(f, S) = SumFunctionOnSet(F, I)
<1> DEFINE In(J) == {x \in S : k[x] \in J}
           Group(i) == {x \in S : k[x] = i}
           Grouped(J) == SumFunctionOnSet(f, In(J)) = SumFunctionOnSet(F, J)
           Bad == {J \in SUBSET I : ~ Grouped(J)}
<1>1. ASSUME NEW T, T \subseteq S PROVE Summable(f, T)
  BY <1>1, SummableSubset
<1>2. Summable(F, I)
  <2>1. ASSUME NEW i \in I PROVE F[i] \in Nat
    <3>1. Summable(f, Group(i))
      BY <1>1
    <3>2. F[i] = SumFunctionOnSet(f, Group(i))
      OBVIOUS
    <3> HIDE DEF Group
    <3> QED
      BY <3>1, <3>2, SumType
  <2> QED
    BY <2>1 DEF Summable
<1>3. In(I) = S
  OBVIOUS
<1>4. SUFFICES ASSUME Bad # {} PROVE FALSE
  BY <1>2, <1>3
<1>5. PICK J \in Bad : \A U \in Bad : U \subseteq J => U = J
  <2>1. Bad \in SUBSET (SUBSET I)
    OBVIOUS
  <2> HIDE DEF Bad
  <2> QED
    BY <1>4, <2>1, SmallestBad
<1>6. J \subseteq I /\ ~ Grouped(J)
  OBVIOUS
<1>7. CASE J = {}
  <2>1. In(J) = {}
    BY <1>7
  <2> QED
    BY <1>6, <1>7, <2>1, SumEmpty
<1>8. CASE J # {}
  <2>1. PICK i : i \in J
    BY <1>8
  <2>2. Grouped(J \ {i})
    BY <1>5, <1>6, <2>1
  <2>3. /\ In(J) = Group(i) \cup In(J \ {i}) /\ Group(i) \cap In(J \ {i}) = {}
        /\ Group(i) \subseteq S /\ In(J \ {i}) \subseteq S
    BY <1>6, <2>1
  <2>4. SumFunctionOnSet(f, In(J)) = SumFunctionOnSet(f, Group(i)) + SumFunctionOnSet(f, In(J \ {i}))
    <3> DEFINE A == Group(i)
               B == In(J \ {i})
    <3>1. In(J) = A \cup B /\ A \cap B = {}
      BY <2>3
    <3>2. Summable(f, A)
      BY <1>1, <2>3
    <3>3. Summable(f, B)
      BY <1>1, <2>3
    <3> HIDE DEF In, Group, A, B
    <3>4. SumFunctionOnSet(f, A \cup B) = SumFunctionOnSet(f, A) + SumFunctionOnSet(f, B)
      BY <3>1, <3>2, <3>3, SumUnion
    <3>5. SumFunctionOnSet(f, In(J)) = SumFunctionOnSet(f, A) + SumFunctionOnSet(f, B)
      BY <3>1, <3>4
    <3> QED
      BY <3>5 DEF A, B
  <2>5. F[i] = SumFunctionOnSet(f, Group(i))
    BY <1>6, <2>1
  <2>6. SumFunctionOnSet(F, J) = F[i] + SumFunctionOnSet(F, J \ {i})
    BY <1>2, <1>6, <2>1, SummableSubset, SumSplit
  <2> QED
    BY <1>6, <2>2, <2>4, <2>5, <2>6
<1> QED
  BY <1>7, <1>8
=============================================================================
