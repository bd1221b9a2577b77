------------------------------- MODULE SumLemmas -------------------------------
(***************************************************************************)
(* What SumFunctionOnSet(f, S), the sum of f[x] over a finite set S,       *)
(* computes: the lemmas every argument about a position, a balance or a    *)
(* held book rests on.                                                     *)
(*                                                                         *)
(* The sum is a fold, hence a recursive function: a CHOOSE, of which       *)
(* nothing is known until some function satisfies its equation.  SumExists *)
(* builds one by induction, and SumUnfolds is that equation; it still      *)
(* names the element the fold happens to take first, which SumOneMore      *)
(* replaces by any element.  An induction is a collection that contains    *)
(* every subset of S all of whose proper subsets it contains.              *)
(***************************************************************************)
EXTENDS Integers, Functions, FiniteSetTheorems, TLAPS

-----------------------------------------------------------------------------
(* Induction on the subsets of a finite set                                *)

\* A collection that takes in T once it has all the proper subsets of T has
\* every subset of S.
LEMMA SubsetInduction ==
    ASSUME NEW S, IsFiniteSet(S), NEW G,
           \A T \in SUBSET S : (\A U \in SUBSET T : U # T => U \in G) => T \in G
    PROVE  \A T \in SUBSET S : T \in G
<1> DEFINE Missing == {T \in SUBSET S : T \notin G}
           R       == StrictSubsetOrdering(S)
<1>1. SUFFICES ASSUME Missing # {} PROVE FALSE
  OBVIOUS
<1>2. IsWellFoundedOn(R, SUBSET S)
  BY FS_StrictSubsetOrderingWellFounded, FS_FiniteSubsetsOfFinite
<1>3. \A T \in SUBSET S : \A U \in SUBSET T : U # T => <<U, T>> \in R
  BY DEF StrictSubsetOrdering
<1> HIDE DEF R
<1>4. PICK T \in Missing : \A U \in Missing : ~ (<<U, T>> \in R)
  <2>1. Missing \subseteq SUBSET S
    OBVIOUS
  <2> HIDE DEF Missing
  <2> QED BY <1>1, <1>2, <2>1, WFMin
<1>5. ASSUME NEW U \in SUBSET T, U # T
      PROVE  U \in G
  <2>1. T \in SUBSET S /\ U \in SUBSET S
    OBVIOUS
  <2>2. <<U, T>> \in R
    BY <1>3, <1>5, <2>1
  <2> QED BY <1>4, <2>1, <2>2
<1> QED BY <1>4, <1>5

\* Counting from 0 to n.
LEMMA UpTo ==
  ASSUME NEW n \in Nat, NEW G, 0 \in G, \A i \in 0 .. n - 1 : i \in G => i + 1 \in G
  PROVE  \A i \in 0 .. n : i \in G
<1> DEFINE Reached == {T \in SUBSET (1 .. n) : \A i \in 0 .. n : T = 1 .. i => i \in G}
<1>1. ASSUME NEW T \in SUBSET (1 .. n), \A U \in SUBSET T : U # T => U \in Reached
      PROVE  T \in Reached
  <2> SUFFICES ASSUME NEW i \in 0 .. n, T = 1 .. i PROVE i \in G
    OBVIOUS
  <2>1. CASE i # 0
    <3>1. 1 .. (i - 1) \in SUBSET T /\ i \in T /\ i \notin 1 .. (i - 1) /\ i - 1 \in 0 .. n
      BY <2>1
    <3>2. 1 .. (i - 1) \in Reached
      BY <1>1, <3>1
    <3> QED BY <3>1, <3>2, <2>1
  <2> QED BY <2>1
<1>2. IsFiniteSet(1 .. n)
  BY FS_Interval
<1> HIDE DEF Reached
<1>3. \A T \in SUBSET (1 .. n) : T \in Reached
  BY <1>1, <1>2, SubsetInduction
<1>4. \A i \in 0 .. n : 1 .. i \in SUBSET (1 .. n)
  OBVIOUS
<1> QED BY <1>3, <1>4 DEF Reached

-----------------------------------------------------------------------------
(* The recursive equation of the sum                                       *)

FirstOf(T) == CHOOSE x \in T : TRUE

\* What the fold asks of the function it applies to the subsets of S.
IsSumOf(f, S, g) ==
    g = [T \in SUBSET S |-> IF T = {} THEN 0 ELSE f[FirstOf(T)] + g[T \ {FirstOf(T)}]]

SumValue(f, S) == (CHOOSE g : IsSumOf(f, S, g))[S]

LEMMA SumIsValue ==
    ASSUME NEW f, NEW S
    PROVE  SumFunctionOnSet(f, S) = SumValue(f, S)
  BY DEF SumFunctionOnSet, FoldFunctionOnSet, MapThenFoldSet, IsSumOf, FirstOf, SumValue

LEMMA FirstOfIsIn ==
    ASSUME NEW T, T # {}
    PROVE  FirstOf(T) \in T
  BY DEF FirstOf

\* At most one function satisfies the equation.
LEMMA SumIsUnique ==
    ASSUME NEW f, NEW S, IsFiniteSet(S), NEW g, NEW h, IsSumOf(f, S, g), IsSumOf(f, S, h)
    PROVE  g = h
<1> DEFINE G == {T \in SUBSET S : g[T] = h[T]}
<1>1. ASSUME NEW T \in SUBSET S, \A U \in SUBSET T : U # T => U \in G
      PROVE  T \in G
  <2>1. CASE T = {}
    BY <2>1 DEF IsSumOf
  <2>2. CASE T # {}
    <3>1. T \ {FirstOf(T)} \in G
      BY <1>1, <2>2, FirstOfIsIn
    <3> QED BY <2>2, <3>1 DEF IsSumOf
  <2> QED BY <2>1, <2>2
<1>2. \A T \in SUBSET S : T \in G
  <2> HIDE DEF G
  <2> QED BY <1>1, SubsetInduction
<1>3. g = [T \in SUBSET S |-> g[T]] /\ h = [T \in SUBSET S |-> h[T]]
  BY DEF IsSumOf
<1> QED BY <1>2, <1>3

\* A function that satisfies it for S gives the sums over the subsets of S.
LEMMA SumOfSubset ==
    ASSUME NEW f, NEW S, IsFiniteSet(S), NEW g, IsSumOf(f, S, g), NEW T \in SUBSET S
    PROVE  SumValue(f, T) = g[T]
<1> DEFINE r == [U \in SUBSET T |-> g[U]]
<1>1. IsSumOf(f, T, r)
  <2>1. \A U \in SUBSET T : g[U] = IF U = {} THEN 0 ELSE f[FirstOf(U)] + g[U \ {FirstOf(U)}]
    BY DEF IsSumOf
  <2>2. \A U \in SUBSET T : U \ {FirstOf(U)} \in SUBSET T
    OBVIOUS
  <2> QED BY <2>1, <2>2 DEF IsSumOf
<1>2. IsSumOf(f, T, CHOOSE h : IsSumOf(f, T, h))
  BY <1>1
<1>3. IsFiniteSet(T)
  BY FS_Subset
<1> HIDE DEF r
<1>4. r = CHOOSE h : IsSumOf(f, T, h)
  BY <1>1, <1>2, <1>3, SumIsUnique
<1>5. SumValue(f, T) = r[T]
  BY <1>4 DEF SumValue
<1> QED BY <1>5 DEF r

\* Some function satisfies it.
LEMMA SumExists ==
    ASSUME NEW f, NEW S, IsFiniteSet(S)
    PROVE  \E g : IsSumOf(f, S, g)
<1> DEFINE G == {T \in SUBSET S : \E g : IsSumOf(f, T, g)}
<1>1. ASSUME NEW T \in SUBSET S, \A U \in SUBSET T : U # T => U \in G
      PROVE  T \in G
  <2> DEFINE g == [U \in SUBSET T |->
                     IF U = {} THEN 0 ELSE f[FirstOf(U)] + SumValue(f, U \ {FirstOf(U)})]
  <2>1. ASSUME NEW U \in SUBSET T, U # T
        PROVE  g[U] = SumValue(f, U)
    <3>1. PICK h : IsSumOf(f, U, h)
      BY <1>1, <2>1
    <3>2. IsFiniteSet(U)
      BY FS_Subset
    <3>3. SumValue(f, U) = h[U] /\ SumValue(f, U \ {FirstOf(U)}) = h[U \ {FirstOf(U)}]
      BY <3>1, <3>2, SumOfSubset
    <3>4. h[U] = IF U = {} THEN 0 ELSE f[FirstOf(U)] + h[U \ {FirstOf(U)}]
      BY <3>1 DEF IsSumOf
    <3> QED BY <3>3, <3>4
  <2>2. ASSUME NEW U \in SUBSET T, U # {}
        PROVE  g[U \ {FirstOf(U)}] = SumValue(f, U \ {FirstOf(U)})
    <3>1. U \ {FirstOf(U)} \in SUBSET T /\ U \ {FirstOf(U)} # T
      BY <2>2, FirstOfIsIn
    <3> HIDE DEF g
    <3> QED BY <2>1, <3>1
  <2>3. IsSumOf(f, T, g)
    BY <2>2 DEF IsSumOf
  <2> HIDE DEF g
  <2> QED BY <2>3
<1>2. \A T \in SUBSET S : T \in G
  <2> HIDE DEF G
  <2> QED BY <1>1, SubsetInduction
<1> QED BY <1>2

\* The equation itself.
LEMMA SumUnfolds ==
    ASSUME NEW f, NEW S, IsFiniteSet(S)
    PROVE  SumFunctionOnSet(f, S) =
             IF S = {} THEN 0
             ELSE f[FirstOf(S)] + SumFunctionOnSet(f, S \ {FirstOf(S)})
<1>1. PICK g : IsSumOf(f, S, g)
  BY SumExists
<1>2. SumValue(f, S) = g[S] /\ SumValue(f, S \ {FirstOf(S)}) = g[S \ {FirstOf(S)}]
  BY <1>1, SumOfSubset
<1>3. g[S] = IF S = {} THEN 0 ELSE f[FirstOf(S)] + g[S \ {FirstOf(S)}]
  BY <1>1 DEF IsSumOf
<1> QED BY <1>2, <1>3, SumIsValue

-----------------------------------------------------------------------------
(* Sums of integers                                                        *)

LEMMA SumOfNone ==
    ASSUME NEW f
    PROVE  SumFunctionOnSet(f, {}) = 0
  BY SumUnfolds, FS_EmptySet

\* The sum is an integer, and any element may be taken out of it.
LEMMA SumOneMore ==
    ASSUME NEW f, NEW S, IsFiniteSet(S), \A x \in S : f[x] \in Int
    PROVE  /\ SumFunctionOnSet(f, S) \in Int
           /\ \A x \in S : SumFunctionOnSet(f, S) = f[x] + SumFunctionOnSet(f, S \ {x})
<1> DEFINE Sum(T) == SumFunctionOnSet(f, T)
           G == {T \in SUBSET S : /\ Sum(T) \in Int
                                  /\ \A x \in T : Sum(T) = f[x] + Sum(T \ {x})}
<1>1. ASSUME NEW T \in SUBSET S, \A U \in SUBSET T : U # T => U \in G
      PROVE  T \in G
  <2>1. CASE T = {}
    BY <2>1, SumOfNone
  <2>2. CASE T # {}
    <3> DEFINE first == FirstOf(T)
    <3>1. first \in T
      BY <2>2, FirstOfIsIn
    <3>2. Sum(T) = f[first] + Sum(T \ {first})
      BY <2>2, SumUnfolds, FS_Subset
    <3>3. \A x \in T : T \ {x} \in G
      BY <1>1
    <3> HIDE DEF first, Sum
    <3>4. Sum(T \ {first}) \in Int /\ f[first] \in Int
      BY <3>1, <3>3
    <3>5. ASSUME NEW x \in T, x # first
          PROVE  Sum(T) = f[x] + Sum(T \ {x})
      <4>1. (T \ {first}) \ {x} = (T \ {x}) \ {first}
        OBVIOUS
      <4>2. PICK rest \in G : rest = (T \ {x}) \ {first}
        BY <1>1, <3>1
      <4>3. Sum(T \ {first}) = f[x] + Sum(rest)
        BY <3>1, <3>3, <3>5, <4>1, <4>2
      <4>4. Sum(T \ {x}) = f[first] + Sum(rest)
        BY <3>1, <3>3, <3>5, <4>2
      <4>5. Sum(rest) \in Int /\ f[x] \in Int
        BY <4>2
      <4> QED BY <3>2, <3>4, <4>3, <4>4, <4>5
    <3> QED BY <3>2, <3>4, <3>5
  <2> QED BY <2>1, <2>2
<1>2. S \in G
  <2> HIDE DEF G
  <2> QED BY <1>1, SubsetInduction
<1> QED BY <1>2

\* The same, for an element that is put in.
LEMMA SumOfAdded ==
    ASSUME NEW f, NEW S, IsFiniteSet(S), NEW y, y \notin S,
           f[y] \in Int, \A x \in S : f[x] \in Int
    PROVE  SumFunctionOnSet(f, S \cup {y}) = SumFunctionOnSet(f, S) + f[y]
<1>1. IsFiniteSet(S \cup {y}) /\ (S \cup {y}) \ {y} = S
  BY FS_AddElement
<1>2. SumFunctionOnSet(f, S \cup {y}) = f[y] + SumFunctionOnSet(f, (S \cup {y}) \ {y})
  BY <1>1, SumOneMore
<1> QED BY <1>1, <1>2, SumOneMore

\* A collection that has {} and grows by any element of S has S.
LEMMA GrowthInduction ==
    ASSUME NEW S, IsFiniteSet(S), NEW G, {} \in G,
           \A T \in SUBSET S : \A x \in S \ T : T \in G => T \cup {x} \in G
    PROVE  S \in G
<1>1. ASSUME NEW T \in SUBSET S, \A U \in SUBSET T : U # T => U \in G
      PROVE  T \in G
  <2>1. CASE T # {}
    <3>1. PICK x \in T : TRUE
      BY <2>1
    <3>2. T \ {x} \in SUBSET S /\ x \in S \ (T \ {x}) /\ (T \ {x}) \cup {x} = T
      BY <3>1
    <3>3. T \ {x} \in G
      BY <1>1, <3>1
    <3> QED BY <3>2, <3>3
  <2> QED BY <2>1
<1> QED BY <1>1, SubsetInduction

\* Two sums over one set compare as their terms do.
LEMMA SumCompares ==
    ASSUME NEW f, NEW g, NEW S, IsFiniteSet(S),
           \A x \in S : f[x] \in Int /\ g[x] \in Int /\ f[x] <= g[x]
    PROVE  SumFunctionOnSet(f, S) <= SumFunctionOnSet(g, S)
<1> DEFINE F(T) == SumFunctionOnSet(f, T)
           H(T) == SumFunctionOnSet(g, T)
           G    == {T \in SUBSET S : F(T) <= H(T)}
<1>1. {} \in G
  BY SumOfNone
<1>2. ASSUME NEW T \in SUBSET S, NEW x \in S \ T, T \in G
      PROVE  T \cup {x} \in G
  <2>1. IsFiniteSet(T)
    BY FS_Subset
  <2>2. F(T \cup {x}) = F(T) + f[x] /\ H(T \cup {x}) = H(T) + g[x]
    BY <1>2, <2>1, SumOfAdded
  <2>3. F(T) \in Int /\ H(T) \in Int
    BY <2>1, SumOneMore
  <2> HIDE DEF F, H
  <2> QED BY <1>2, <2>2, <2>3
<1>3. S \in G
  <2> HIDE DEF G
  <2> QED BY <1>1, <1>2, GrowthInduction
<1> QED BY <1>3

\* The sum of naturals is a natural.
LEMMA SumIsNat ==
    ASSUME NEW f, NEW S, IsFiniteSet(S), \A x \in S : f[x] \in Nat
    PROVE  SumFunctionOnSet(f, S) \in Nat
<1> DEFINE G == {T \in SUBSET S : SumFunctionOnSet(f, T) \in Nat}
<1>1. {} \in G
  BY SumOfNone
<1>2. ASSUME NEW T \in SUBSET S, NEW x \in S \ T, T \in G
      PROVE  T \cup {x} \in G
  <2>1. SumFunctionOnSet(f, T \cup {x}) = SumFunctionOnSet(f, T) + f[x]
    BY FS_Subset, SumOfAdded
  <2> QED BY <1>2, <2>1
<1>3. S \in G
  <2> HIDE DEF G
  <2> QED BY <1>1, <1>2, GrowthInduction
<1> QED BY <1>3

\* Equal terms have equal sums.
LEMMA SumSame ==
    ASSUME NEW f, NEW g, NEW S, IsFiniteSet(S), \A x \in S : f[x] \in Int /\ g[x] = f[x]
    PROVE  SumFunctionOnSet(f, S) = SumFunctionOnSet(g, S)
<1>1. SumFunctionOnSet(f, S) \in Int /\ SumFunctionOnSet(g, S) \in Int
  BY SumOneMore
<1>2. SumFunctionOnSet(f, S) <= SumFunctionOnSet(g, S)
  BY SumCompares
<1>3. SumFunctionOnSet(g, S) <= SumFunctionOnSet(f, S)
  BY SumCompares
<1> QED BY <1>1, <1>2, <1>3

\* The sum of the sums is the sum of the pairs.
LEMMA SumOfSums ==
    ASSUME NEW f, NEW g, NEW h, NEW S, IsFiniteSet(S),
           \A x \in S : f[x] \in Int /\ g[x] \in Int /\ h[x] = f[x] + g[x]
    PROVE  SumFunctionOnSet(h, S) = SumFunctionOnSet(f, S) + SumFunctionOnSet(g, S)
<1> DEFINE F(T) == SumFunctionOnSet(f, T)
           H(T) == SumFunctionOnSet(g, T)
           B(T) == SumFunctionOnSet(h, T)
           G    == {T \in SUBSET S : B(T) = F(T) + H(T)}
<1>1. {} \in G
  BY SumOfNone
<1>2. ASSUME NEW T \in SUBSET S, NEW x \in S \ T, T \in G
      PROVE  T \cup {x} \in G
  <2>1. IsFiniteSet(T)
    BY FS_Subset
  <2>2. \A y \in S : h[y] \in Int
    OBVIOUS
  <2>3. /\ F(T \cup {x}) = F(T) + f[x]
        /\ H(T \cup {x}) = H(T) + g[x]
        /\ B(T \cup {x}) = B(T) + h[x]
    BY <1>2, <2>1, <2>2, SumOfAdded
  <2>4. F(T) \in Int /\ H(T) \in Int /\ B(T) \in Int
    BY <2>1, <2>2, SumOneMore
  <2> HIDE DEF F, H, B
  <2> QED BY <1>2, <2>3, <2>4
<1>3. S \in G
  <2> HIDE DEF G
  <2> QED BY <1>1, <1>2, GrowthInduction
<1> QED BY <1>3

\* Terms that are zero may be left out of the set.
LEMMA SumOfSupport ==
    ASSUME NEW f, NEW S, IsFiniteSet(S), NEW T \in SUBSET S,
           \A x \in S : f[x] \in Int, \A x \in S \ T : f[x] = 0
    PROVE  SumFunctionOnSet(f, S) = SumFunctionOnSet(f, T)
<1> DEFINE F(U) == SumFunctionOnSet(f, U)
           Rest == S \ T
           G    == {U \in SUBSET Rest : F(T \cup U) = F(T)}
<1>1. {} \in G
  <2>1. T \cup {} = T
    OBVIOUS
  <2> QED BY <2>1
<1>2. ASSUME NEW U \in SUBSET Rest, NEW x \in Rest \ U, U \in G
      PROVE  U \cup {x} \in G
  <2>1. IsFiniteSet(T \cup U) /\ T \cup U \in SUBSET S /\ x \notin T \cup U
    BY FS_Subset
  <2>2. F((T \cup U) \cup {x}) = F(T \cup U) + f[x] /\ F(T \cup U) \in Int
    BY <2>1, SumOfAdded, SumOneMore
  <2>3. (T \cup U) \cup {x} = T \cup (U \cup {x})
    OBVIOUS
  <2>4. f[x] = 0 /\ F(T \cup U) = F(T) /\ U \cup {x} \in SUBSET Rest
    BY <1>2
  <2> HIDE DEF F
  <2>5. F(T \cup (U \cup {x})) = F((T \cup U) \cup {x})
    BY <2>3
  <2>6. F((T \cup U) \cup {x}) = F(T)
    BY <2>2, <2>4
  <2> QED BY <2>4, <2>5, <2>6
<1>3. Rest \in G
  <2>1. IsFiniteSet(Rest)
    BY FS_Subset
  <2> HIDE DEF G, Rest
  <2> QED BY <1>1, <1>2, <2>1, GrowthInduction
<1>4. T \cup Rest = S
  OBVIOUS
<1> QED BY <1>3, <1>4

\* A set is cut in two.
LEMMA SumOfParts ==
    ASSUME NEW f, NEW S, IsFiniteSet(S), NEW T \in SUBSET S, \A x \in S : f[x] \in Int
    PROVE  /\ SumFunctionOnSet(f, S) = SumFunctionOnSet(f, T) + SumFunctionOnSet(f, S \ T)
           /\ SumFunctionOnSet(f, S) \in Int /\ SumFunctionOnSet(f, T) \in Int
           /\ SumFunctionOnSet(f, S \ T) \in Int
<1> DEFINE F(U) == SumFunctionOnSet(f, U)
           Rest == S \ T
           G    == {U \in SUBSET Rest : F(T \cup U) = F(T) + F(U)}
<1>1. \A U \in SUBSET S : F(U) \in Int /\ IsFiniteSet(U)
  BY FS_Subset, SumOneMore
<1>2. {} \in G
  <2>1. T \cup {} = T /\ F({}) = 0
    BY SumOfNone
  <2>2. F(T) \in Int
    BY <1>1
  <2> HIDE DEF F
  <2> QED BY <2>1, <2>2
<1>3. ASSUME NEW U \in SUBSET Rest, NEW x \in Rest \ U, U \in G
      PROVE  U \cup {x} \in G
  <2>1. T \cup U \in SUBSET S /\ x \notin T \cup U /\ U \in SUBSET S
    OBVIOUS
  <2>2. F((T \cup U) \cup {x}) = F(T \cup U) + f[x] /\ F(U \cup {x}) = F(U) + f[x]
    BY <1>1, <2>1, SumOfAdded
  <2>3. (T \cup U) \cup {x} = T \cup (U \cup {x})
    OBVIOUS
  <2>4. F(T) \in Int /\ F(U) \in Int /\ f[x] \in Int
    BY <1>1, <2>1
  <2>5. F(T \cup U) = F(T) + F(U) /\ U \cup {x} \in SUBSET Rest
    BY <1>3
  <2> HIDE DEF F
  <2>6. F(T \cup (U \cup {x})) = F((T \cup U) \cup {x})
    BY <2>3
  <2>7. F(T \cup (U \cup {x})) = F(T) + F(U \cup {x})
    BY <2>2, <2>4, <2>5, <2>6
  <2> QED BY <2>5, <2>7
<1>4. Rest \in G
  <2>1. IsFiniteSet(Rest)
    BY FS_Subset
  <2> HIDE DEF G, Rest
  <2> QED BY <1>2, <1>3, <2>1, GrowthInduction
<1>5. T \cup Rest = S
  OBVIOUS
<1>6. F(S) = F(T) + F(Rest)
  <2> HIDE DEF F
  <2> QED BY <1>4, <1>5
<1> QED BY <1>1, <1>6

\* A part of a sum of naturals is at most the whole.
LEMMA SumOfPart ==
    ASSUME NEW f, NEW S, IsFiniteSet(S), NEW T \in SUBSET S, \A x \in S : f[x] \in Nat
    PROVE  SumFunctionOnSet(f, T) <= SumFunctionOnSet(f, S)
<1> DEFINE g == [x \in S |-> IF x \in T THEN f[x] ELSE 0]
<1>1. /\ \A x \in S : g[x] \in Nat /\ g[x] <= f[x]
      /\ \A x \in S \ T : g[x] = 0
      /\ \A x \in T : g[x] = f[x]
  OBVIOUS
<1> HIDE DEF g
<1>2. SumFunctionOnSet(g, S) <= SumFunctionOnSet(f, S)
  BY <1>1, SumCompares
<1>3. SumFunctionOnSet(g, S) = SumFunctionOnSet(g, T)
  BY <1>1, SumOfSupport
<1>4. SumFunctionOnSet(f, T) = SumFunctionOnSet(g, T)
  BY <1>1, FS_Subset, SumSame
<1> QED BY <1>2, <1>3, <1>4

\* n equal terms.
LEMMA SumOfEqualTerms ==
    ASSUME NEW f, NEW S, IsFiniteSet(S), NEW c \in Int, \A x \in S : f[x] = c
    PROVE  SumFunctionOnSet(f, S) = Cardinality(S) * c
<1> DEFINE F(T) == SumFunctionOnSet(f, T)
           G    == {T \in SUBSET S : F(T) = Cardinality(T) * c}
<1>1. {} \in G
  BY SumOfNone, FS_EmptySet
<1>2. ASSUME NEW T \in SUBSET S, NEW x \in S \ T, T \in G
      PROVE  T \cup {x} \in G
  <2>1. IsFiniteSet(T)
    BY FS_Subset
  <2>2. F(T \cup {x}) = F(T) + c
    BY <1>2, <2>1, SumOfAdded
  <2>3. Cardinality(T \cup {x}) = Cardinality(T) + 1 /\ Cardinality(T) \in Nat
    BY <1>2, <2>1, FS_AddElement, FS_CardinalityType
  <2>4. \A n \in Nat : (n + 1) * c = n * c + c
    OBVIOUS
  <2> HIDE DEF F
  <2> QED BY <1>2, <2>2, <2>3, <2>4
<1>3. S \in G
  <2> HIDE DEF G
  <2> QED BY <1>1, <1>2, GrowthInduction
<1> QED BY <1>3

\* One term changes.
LEMMA SumOfOneChange ==
    ASSUME NEW f, NEW g, NEW S, IsFiniteSet(S), NEW y \in S,
           \A x \in S : f[x] \in Int /\ g[x] \in Int,
           \A x \in S \ {y} : g[x] = f[x]
    PROVE  SumFunctionOnSet(g, S) = SumFunctionOnSet(f, S) - f[y] + g[y]
<1>1. IsFiniteSet(S \ {y})
  BY FS_RemoveElement
<1>2. SumFunctionOnSet(f, S \ {y}) = SumFunctionOnSet(g, S \ {y})
  BY <1>1, SumSame
<1>3. /\ SumFunctionOnSet(f, S) = f[y] + SumFunctionOnSet(f, S \ {y})
      /\ SumFunctionOnSet(g, S) = g[y] + SumFunctionOnSet(g, S \ {y})
      /\ SumFunctionOnSet(f, S \ {y}) \in Int
  BY <1>1, SumOneMore
<1> QED BY <1>2, <1>3

\* Raising the terms of part of the set by the same amount.
LEMMA SumOfRaised ==
    ASSUME NEW f, NEW g, NEW S, IsFiniteSet(S), NEW T \in SUBSET S, NEW c \in Nat,
           \A x \in S : f[x] \in Int /\ g[x] = f[x] + IF x \in T THEN c ELSE 0
    PROVE  SumFunctionOnSet(g, S) = SumFunctionOnSet(f, S) + Cardinality(T) * c
<1> DEFINE e == [x \in S |-> IF x \in T THEN c ELSE 0]
<1>1. \A x \in S : e[x] = IF x \in T THEN c ELSE 0
  OBVIOUS
<1> HIDE DEF e
<1>2. IsFiniteSet(T)
  BY FS_Subset
<1>3. \A x \in S : e[x] \in Int /\ g[x] = f[x] + e[x]
  BY <1>1
<1>4. SumFunctionOnSet(g, S) = SumFunctionOnSet(f, S) + SumFunctionOnSet(e, S)
  BY <1>3, SumOfSums
<1>5. SumFunctionOnSet(e, S) = SumFunctionOnSet(e, T)
  BY <1>1, <1>3, SumOfSupport
<1>6. SumFunctionOnSet(e, T) = Cardinality(T) * c
  BY <1>1, <1>2, SumOfEqualTerms
<1> QED BY <1>4, <1>5, <1>6

\* A factor of every term is one of the sum.
LEMMA SumOfScaled ==
    ASSUME NEW f, NEW g, NEW S, IsFiniteSet(S), NEW c \in Int,
           \A x \in S : f[x] \in Int /\ g[x] = c * f[x]
    PROVE  SumFunctionOnSet(g, S) = c * SumFunctionOnSet(f, S)
<1> DEFINE F(T) == SumFunctionOnSet(f, T)
           H(T) == SumFunctionOnSet(g, T)
           G    == {T \in SUBSET S : H(T) = c * F(T)}
<1>1. {} \in G
  BY SumOfNone
<1>2. ASSUME NEW T \in SUBSET S, NEW x \in S \ T, T \in G
      PROVE  T \cup {x} \in G
  <2>1. IsFiniteSet(T)
    BY FS_Subset
  <2>2. \A y \in S : g[y] \in Int
    OBVIOUS
  <2>3. F(T \cup {x}) = F(T) + f[x] /\ H(T \cup {x}) = H(T) + g[x] /\ F(T) \in Int
    BY <1>2, <2>1, <2>2, SumOfAdded, SumOneMore
  <2>4. f[x] \in Int /\ g[x] = c * f[x] /\ H(T) = c * F(T)
    BY <1>2
  <2> HIDE DEF F, H
  <2>5. c * (F(T) + f[x]) = c * F(T) + c * f[x]
    BY <2>3, <2>4
  <2> QED BY <2>3, <2>4, <2>5
<1>3. S \in G
  <2> HIDE DEF G
  <2> QED BY <1>1, <1>2, GrowthInduction
<1> QED BY <1>3
==============================================================================
