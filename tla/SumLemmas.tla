------------------------------- MODULE SumLemmas -------------------------------
(***************************************************************************)
(* Facts about SumFunctionOnSet, which the stock and the amounts of orders *)
(* are summed with, for any finite index set.                              *)
(*                                                                         *)
(* It is defined by a recursive function on the subsets of the index set.  *)
(* That there is such a function, and only one, is proved by taking a      *)
(* least counterexample; everything else follows from taking one index out *)
(* of the sum (SumRemove).                                                 *)
(***************************************************************************)
EXTENDS Integers, FiniteSets, Functions, FiniteSetTheorems, WellFoundedInduction, TLAPS

\* The index that is summed next.
Pick(T) == CHOOSE x \in T : TRUE

\* What g says of a set, by the recursion.
Unfold(f, g, T) == IF T = {} THEN 0 ELSE f[Pick(T)] + g[T \ {Pick(T)}]

\* g sums f over every set in F, or over every subset of S.
SumsIn(f, F, g) == g = [T \in F |-> Unfold(f, g, T)]
Sums(f, S, g) == SumsIn(f, SUBSET S, g)

\* C is a family of subsets of S, and not an empty one.
Family(C, S) == C # {} /\ C \subseteq SUBSET S

-----------------------------------------------------------------------------
(* Least counterexamples *)

\* A set of naturals that is not empty has a least element.
LEMMA LeastNatural ==
  ASSUME NEW N, N \subseteq Nat, N # {}
  PROVE  \E m \in N : \A k \in N : m <= k
<1>1. IsWellFoundedOn(OpToRel(<, Nat), Nat)
  BY NatLessThanWellFounded
<1>2. PICK m \in N : \A k \in N : ~ (<<k, m>> \in OpToRel(<, Nat))
  BY <1>1, WFMin
<1>3. \A k \in N : ~ (k < m)
  BY <1>2 DEF OpToRel
<1> QED
  BY <1>3

\* A family of subsets of a finite set that is not empty has a member that
\* contains no other.
LEMMA LeastSubset ==
  ASSUME NEW S, IsFiniteSet(S), NEW C, Family(C, S)
  PROVE  \E T \in C : \A U \in C : U \subseteq T => U = T
<1>1. IsWellFoundedOn(StrictSubsetOrdering(S), SUBSET S)
  BY FS_StrictSubsetOrderingWellFounded, FS_FiniteSubsetsOfFinite
<1>2. PICK T \in C : \A U \in C : ~ (<<U, T>> \in StrictSubsetOrdering(S))
  BY <1>1, WFMin DEF Family
<1>3. \A U \in C : ~ (U \subseteq T /\ U # T)
  BY <1>2 DEF StrictSubsetOrdering, Family
<1> QED
  BY <1>3

-----------------------------------------------------------------------------
(* The recursion *)

\* The sum is what the recursive function says of the whole index set.
LEMMA SumByRecursion ==
  ASSUME NEW f, NEW S
  PROVE  SumFunctionOnSet(f, S) = (CHOOSE g : Sums(f, S, g))[S]
BY DEF SumFunctionOnSet, FoldFunctionOnSet, MapThenFoldSet, Sums, SumsIn, Unfold, Pick

\* Up to any size there is a function that sums the subsets of that size.
LEMMA SumsUpTo ==
  ASSUME NEW S, IsFiniteSet(S), NEW f, NEW n \in Nat
  PROVE  \E g : SumsIn(f, {T \in SUBSET S : Cardinality(T) <= n}, g)
<1> DEFINE Small(m) == {T \in SUBSET S : Cardinality(T) <= m}
           Bad == {m \in Nat : ~ \E g : SumsIn(f, Small(m), g)}
<1>1. ASSUME Bad # {} PROVE FALSE
  <2>1. PICK m \in Bad : \A k \in Bad : m <= k
    BY <1>1, LeastNatural
  <2>2. PICK g : m > 0 => SumsIn(f, Small(m - 1), g)
    <3>1. CASE m = 0
      BY <3>1
    <3>2. CASE m > 0
      <4>1. m \in Nat /\ m - 1 \in Nat /\ ~ (m <= m - 1)
        BY <3>2
      <4>2. m - 1 \notin Bad
        <5> HIDE DEF Bad
        <5> QED
          BY <2>1, <4>1
      <4> QED
        BY <4>1, <4>2
    <3> QED
      BY <3>1, <3>2
  <2> DEFINE h == [T \in Small(m) |-> Unfold(f, g, T)]
  <2>3. ASSUME NEW T \in Small(m), T # {}
        PROVE  T \ {Pick(T)} \in Small(m) /\ m > 0 /\ T \ {Pick(T)} \in Small(m - 1)
    <3>1. Pick(T) \in T
      BY <2>3 DEF Pick
    <3>2. IsFiniteSet(T) /\ Cardinality(T) \in Nat /\ Cardinality(T) <= m
      BY FS_Subset, FS_CardinalityType
    <3>3. Cardinality(T \ {Pick(T)}) = Cardinality(T) - 1
      BY <3>1, <3>2, FS_RemoveElement
    <3>4. Cardinality(T) # 0
      BY <2>3, <3>2, FS_EmptySet
    <3> QED
      BY <2>1, <3>2, <3>3, <3>4
  <2>4. ASSUME NEW T \in Small(m) PROVE h[T] = Unfold(f, h, T)
    <3>1. CASE T = {}
      BY <3>1 DEF Unfold
    <3>2. CASE T # {}
      <4> DEFINE R == T \ {Pick(T)}
      <4>1. R \in Small(m) /\ R \in Small(m - 1) /\ m > 0
        BY <3>2, <2>3
      <4>2. g[R] = Unfold(f, g, R)
        <5> HIDE DEF Small, R
        <5> QED
          BY <4>1, <2>2 DEF SumsIn
      <4>3. h[R] = Unfold(f, g, R)
        BY <4>1
      <4>4. h[T] = f[Pick(T)] + g[R]
        BY <3>2 DEF Unfold
      <4>5. Unfold(f, h, T) = f[Pick(T)] + h[R]
        BY <3>2 DEF Unfold
      <4> QED
        BY <4>2, <4>3, <4>4, <4>5
    <3> QED
      BY <3>1, <3>2
  <2>5. SumsIn(f, Small(m), h)
    <3>1. h = [T \in Small(m) |-> Unfold(f, h, T)]
      <4> DEFINE hh == [T \in Small(m) |-> Unfold(f, h, T)]
      <4>1. DOMAIN h = Small(m) /\ DOMAIN hh = Small(m)
        OBVIOUS
      <4>2. \A T \in Small(m) : h[T] = hh[T]
        BY <2>4
      <4> QED
        BY <4>1, <4>2
    <3> QED
      BY <3>1 DEF SumsIn
  <2> QED
    BY <2>1, <2>5
<1> QED
  BY <1>1

\* There is a function that sums all subsets.
LEMMA SumsExist ==
  ASSUME NEW S, IsFiniteSet(S), NEW f
  PROVE  \E g : Sums(f, S, g)
<1>1. Cardinality(S) \in Nat
  BY FS_CardinalityType
<1>2. \A T \in SUBSET S : Cardinality(T) <= Cardinality(S)
  BY FS_Subset
<1>3. {T \in SUBSET S : Cardinality(T) <= Cardinality(S)} = SUBSET S
  BY <1>2
<1>4. \E g : SumsIn(f, {T \in SUBSET S : Cardinality(T) <= Cardinality(S)}, g)
  BY <1>1, SumsUpTo, Zenon
<1> QED
  BY <1>3, <1>4, Zenon DEF Sums

\* Two functions that sum what is equal agree, whatever they are defined on.
LEMMA SumsAgree ==
  ASSUME NEW S, NEW f, NEW F, Sums(f, S, F),
         NEW R, NEW e, NEW E, Sums(e, R, E),
         IsFiniteSet(S), S \subseteq R, \A x \in S : f[x] = e[x]
  PROVE  F[S] = E[S]
<1> DEFINE Bad == {T \in SUBSET S : F[T] # E[T]}
<1>1. ASSUME Bad # {} PROVE FALSE
  <2>1. PICK T \in Bad : \A U \in Bad : U \subseteq T => U = T
    <3>1. Family(Bad, S)
      BY <1>1 DEF Family
    <3> HIDE DEF Bad
    <3> QED
      BY <3>1, LeastSubset
  <2>2. F[T] = Unfold(f, F, T) /\ E[T] = Unfold(e, E, T)
    BY <2>1 DEF Sums, SumsIn
  <2>3. T # {}
    BY <2>1, <2>2 DEF Unfold
  <2>4. Pick(T) \in T
    BY <2>3 DEF Pick
  <2>5. F[T \ {Pick(T)}] = E[T \ {Pick(T)}]
    BY <2>1, <2>4
  <2>6. f[Pick(T)] = e[Pick(T)]
    BY <2>4
  <2> QED
    BY <2>1, <2>2, <2>3, <2>5, <2>6 DEF Unfold
<1> QED
  BY <1>1

-----------------------------------------------------------------------------
(* Sums *)

\* A sum over nothing is zero.
LEMMA SumEmpty == ASSUME NEW f PROVE SumFunctionOnSet(f, {}) = 0
<1>1. PICK g : Sums(f, {}, g)
  BY SumsExist, FS_EmptySet
<1> DEFINE G == CHOOSE h : Sums(f, {}, h)
<1>2. Sums(f, {}, G)
  BY <1>1
<1> HIDE DEF G
<1>3. G[{}] = Unfold(f, G, {})
  BY <1>2 DEF Sums, SumsIn
<1>4. SumFunctionOnSet(f, {}) = G[{}]
  BY SumByRecursion DEF G
<1> QED
  BY <1>3, <1>4 DEF Unfold

\* Sums of equal values are equal.
LEMMA SumEqual ==
  ASSUME NEW S, IsFiniteSet(S), NEW f, NEW e, \A x \in S : f[x] = e[x]
  PROVE  SumFunctionOnSet(f, S) = SumFunctionOnSet(e, S)
<1>1. /\ \E g : Sums(f, S, g)
      /\ \E g : Sums(e, S, g)
  BY SumsExist
<1> DEFINE F == CHOOSE g : Sums(f, S, g)
           E == CHOOSE g : Sums(e, S, g)
<1>2. Sums(f, S, F) /\ Sums(e, S, E)
  BY <1>1
<1>3. SumFunctionOnSet(f, S) = F[S] /\ SumFunctionOnSet(e, S) = E[S]
  BY SumByRecursion
<1> HIDE DEF F, E
<1> QED
  BY <1>2, <1>3, SumsAgree

\* One step of the recursion.
LEMMA SumPick ==
  ASSUME NEW S, IsFiniteSet(S), NEW f, S # {}
  PROVE  SumFunctionOnSet(f, S) = f[Pick(S)] + SumFunctionOnSet(f, S \ {Pick(S)})
<1> DEFINE R == S \ {Pick(S)}
           F == CHOOSE g : Sums(f, S, g)
           E == CHOOSE g : Sums(f, R, g)
<1>1. IsFiniteSet(R) /\ R \subseteq S
  BY FS_RemoveElement
<1>2. Sums(f, S, F) /\ Sums(f, R, E)
  <2>1. (\E g : Sums(f, S, g)) /\ (\E g : Sums(f, R, g))
    BY <1>1, SumsExist
  <2> QED
    BY <2>1
<1>3. SumFunctionOnSet(f, S) = F[S] /\ SumFunctionOnSet(f, R) = E[R]
  BY SumByRecursion
<1> HIDE DEF F, E
<1>4. F[R] = E[R]
  BY <1>1, <1>2, SumsAgree
<1>5. F[S] = f[Pick(S)] + F[R]
  BY <1>2 DEF Sums, SumsIn, Unfold
<1> QED
  BY <1>3, <1>4, <1>5

\* A sum of integers is an integer, and one of naturals a natural.
LEMMA SumType ==
  ASSUME NEW S, IsFiniteSet(S), NEW f
  PROVE  /\ (\A x \in S : f[x] \in Int) => SumFunctionOnSet(f, S) \in Int
         /\ (\A x \in S : f[x] \in Nat) => SumFunctionOnSet(f, S) \in Nat
<1>1. ASSUME NEW N, N \in {Int, Nat}, \A x \in S : f[x] \in N
      PROVE  SumFunctionOnSet(f, S) \in N
  <2> DEFINE Bad == {T \in SUBSET S : SumFunctionOnSet(f, T) \notin N}
  <2>1. ASSUME Bad # {} PROVE FALSE
    <3>1. PICK T \in Bad : \A U \in Bad : U \subseteq T => U = T
      <4>1. Family(Bad, S)
        BY <2>1 DEF Family
      <4> HIDE DEF Bad
      <4> QED
        BY <4>1, LeastSubset
    <3>2. T # {}
      BY <3>1, <1>1, SumEmpty
    <3>3. Pick(T) \in T
      BY <3>2 DEF Pick
    <3>4. SumFunctionOnSet(f, T \ {Pick(T)}) \in N
      BY <3>1, <3>3
    <3>5. IsFiniteSet(T)
      BY FS_Subset
    <3>6. SumFunctionOnSet(f, T) = f[Pick(T)] + SumFunctionOnSet(f, T \ {Pick(T)})
      BY <3>2, <3>5, SumPick
    <3>7. f[Pick(T)] \in N
      BY <1>1, <3>3
    <3>8. \A v, w \in N : v + w \in N
      BY <1>1
    <3> QED
      BY <3>1, <3>4, <3>6, <3>7, <3>8
  <2> QED
    BY <2>1
<1> QED
  BY <1>1

\* Any index can be taken out of a sum.
LEMMA SumRemove ==
  ASSUME NEW S, IsFiniteSet(S), NEW f, \A x \in S : f[x] \in Int, NEW x \in S
  PROVE  SumFunctionOnSet(f, S) = f[x] + SumFunctionOnSet(f, S \ {x})
<1> DEFINE Total(T) == SumFunctionOnSet(f, T)
           Bad == {T \in SUBSET S : \E y \in T : Total(T) # f[y] + Total(T \ {y})}
<1>1. \A T \in SUBSET S : IsFiniteSet(T) /\ Total(T) \in Int
  <2> SUFFICES ASSUME NEW T \in SUBSET S PROVE IsFiniteSet(T) /\ Total(T) \in Int
    OBVIOUS
  <2>1. IsFiniteSet(T) /\ \A y \in T : f[y] \in Int
    BY FS_Subset
  <2> QED
    BY <2>1, SumType
<1>2. \A T \in SUBSET S : T # {} => Pick(T) \in T /\ Total(T) = f[Pick(T)] + Total(T \ {Pick(T)})
  BY <1>1, SumPick DEF Pick
<1> HIDE DEF Total
<1>3. ASSUME Bad # {} PROVE FALSE
  <2>1. PICK T \in Bad : \A U \in Bad : U \subseteq T => U = T
    <3>1. Family(Bad, S)
      BY <1>3 DEF Family
    <3> HIDE DEF Bad
    <3> QED
      BY <3>1, LeastSubset
  <2>2. PICK y \in T : Total(T) # f[y] + Total(T \ {y})
    BY <2>1
  <2> DEFINE p == Pick(T)
             rest == T \ {y, p}
  <2>3. p \in T /\ Total(T) = f[p] + Total(T \ {p})
    BY <1>2, <2>1
  <2>4. y # p
    BY <2>2, <2>3
  <2>5. T \ {p} \notin Bad /\ T \ {y} \notin Bad
    BY <2>1, <2>3
  <2>6. (T \ {p}) \ {y} = rest /\ (T \ {y}) \ {p} = rest
    OBVIOUS
  <2>7. Total(T \ {p}) = f[y] + Total(rest)
    BY <2>4, <2>5, <2>6
  <2>8. Total(T \ {y}) = f[p] + Total(rest)
    BY <2>3, <2>4, <2>5, <2>6
  <2>9. f[y] \in Int /\ f[p] \in Int /\ Total(rest) \in Int
    BY <1>1, <2>3
  <2> QED
    BY <2>2, <2>3, <2>7, <2>8, <2>9
<1>4. Total(S) = f[x] + Total(S \ {x})
  BY <1>3
<1> QED
  BY <1>4 DEF Total

\* The sum of pointwise sums is the sum of the sums.
LEMMA SumPlus ==
  ASSUME NEW S, IsFiniteSet(S),
         NEW f, \A x \in S : f[x] \in Int,
         NEW e, \A x \in S : e[x] \in Int,
         NEW h, \A x \in S : h[x] = f[x] + e[x]
  PROVE  SumFunctionOnSet(h, S) = SumFunctionOnSet(f, S) + SumFunctionOnSet(e, S)
<1> DEFINE F(T) == SumFunctionOnSet(f, T)
           E(T) == SumFunctionOnSet(e, T)
           H(T) == SumFunctionOnSet(h, T)
           Bad == {T \in SUBSET S : H(T) # F(T) + E(T)}
<1>1. ASSUME NEW T \in SUBSET S, NEW x \in T
      PROVE  /\ F(T) = f[x] + F(T \ {x}) /\ F(T \ {x}) \in Int
             /\ E(T) = e[x] + E(T \ {x}) /\ E(T \ {x}) \in Int
             /\ H(T) = h[x] + H(T \ {x})
  <2>1. IsFiniteSet(T) /\ IsFiniteSet(T \ {x})
    BY FS_Subset, FS_RemoveElement
  <2>2. \A y \in T : f[y] \in Int /\ e[y] \in Int /\ h[y] \in Int
    OBVIOUS
  <2> QED
    BY <2>1, <2>2, SumRemove, SumType
<1>2. F({}) = 0 /\ E({}) = 0 /\ H({}) = 0
  BY SumEmpty
<1> HIDE DEF F, E, H
<1>3. ASSUME Bad # {} PROVE FALSE
  <2>1. PICK T \in Bad : \A U \in Bad : U \subseteq T => U = T
    <3>1. Family(Bad, S)
      BY <1>3 DEF Family
    <3> HIDE DEF Bad
    <3> QED
      BY <3>1, LeastSubset
  <2>2. PICK x \in T : TRUE
    <3>1. H({}) = F({}) + E({})
      BY <1>2
    <3> QED
      BY <2>1, <3>1
  <2>3. H(T \ {x}) = F(T \ {x}) + E(T \ {x})
    BY <2>1, <2>2
  <2>4. h[x] = f[x] + e[x] /\ f[x] \in Int /\ e[x] \in Int
    BY <2>1, <2>2
  <2> QED
    BY <1>1, <2>1, <2>2, <2>3, <2>4
<1>4. H(S) = F(S) + E(S)
  BY <1>3
<1> QED
  BY <1>4 DEF F, E, H

\* A common factor can be taken out of a sum.
LEMMA SumTimes ==
  ASSUME NEW S, IsFiniteSet(S), NEW c \in Int,
         NEW f, \A x \in S : f[x] \in Int,
         NEW h, \A x \in S : h[x] = c * f[x]
  PROVE  SumFunctionOnSet(h, S) = c * SumFunctionOnSet(f, S)
<1> DEFINE F(T) == SumFunctionOnSet(f, T)
           H(T) == SumFunctionOnSet(h, T)
           Bad == {T \in SUBSET S : H(T) # c * F(T)}
<1>1. ASSUME NEW T \in SUBSET S, NEW x \in T
      PROVE  /\ F(T) = f[x] + F(T \ {x}) /\ F(T \ {x}) \in Int
             /\ H(T) = h[x] + H(T \ {x})
  <2>1. IsFiniteSet(T) /\ IsFiniteSet(T \ {x})
    BY FS_Subset, FS_RemoveElement
  <2>2. \A y \in Int : c * y \in Int
    OBVIOUS
  <2>3. \A y \in T : f[y] \in Int /\ h[y] \in Int
    BY <2>2
  <2> QED
    BY <2>1, <2>3, SumRemove, SumType
<1>2. F({}) = 0 /\ H({}) = 0
  BY SumEmpty
<1> HIDE DEF F, H
<1>3. ASSUME Bad # {} PROVE FALSE
  <2>1. PICK T \in Bad : \A U \in Bad : U \subseteq T => U = T
    <3>1. Family(Bad, S)
      BY <1>3 DEF Family
    <3> HIDE DEF Bad
    <3> QED
      BY <3>1, LeastSubset
  <2>2. PICK x \in T : TRUE
    <3>1. c * 0 = 0
      OBVIOUS
    <3> QED
      BY <1>2, <2>1, <3>1
  <2>3. H(T \ {x}) = c * F(T \ {x})
    BY <2>1, <2>2
  <2>4. h[x] = c * f[x] /\ f[x] \in Int
    BY <2>1, <2>2
  <2>5. \A v, w \in Int : c * (v + w) = c * v + c * w
    OBVIOUS
  <2> QED
    BY <1>1, <2>1, <2>2, <2>3, <2>4, <2>5
<1>4. H(S) = c * F(S)
  BY <1>3
<1> QED
  BY <1>4 DEF F, H

\* Indices whose value is zero do not matter.
LEMMA SumOfPart ==
  ASSUME NEW S, IsFiniteSet(S), NEW P \in SUBSET S,
         NEW f, \A x \in S : f[x] \in Int, \A x \in S \ P : f[x] = 0
  PROVE  SumFunctionOnSet(f, S) = SumFunctionOnSet(f, P)
<1> DEFINE F(T) == SumFunctionOnSet(f, T)
           Bad == {T \in SUBSET S : P \subseteq T /\ F(T) # F(P)}
<1>1. ASSUME NEW T \in SUBSET S, NEW x \in T
      PROVE  F(T) = f[x] + F(T \ {x}) /\ F(T \ {x}) \in Int
  <2>1. IsFiniteSet(T) /\ IsFiniteSet(T \ {x})
    BY FS_Subset, FS_RemoveElement
  <2> QED
    BY <2>1, SumRemove, SumType
<1> HIDE DEF F
<1>2. ASSUME Bad # {} PROVE FALSE
  <2>1. PICK T \in Bad : \A U \in Bad : U \subseteq T => U = T
    <3>1. Family(Bad, S)
      BY <1>2 DEF Family
    <3> HIDE DEF Bad
    <3> QED
      BY <3>1, LeastSubset
  <2>2. PICK x \in T \ P : TRUE
    BY <2>1
  <2>3. F(T \ {x}) = F(P)
    BY <2>1, <2>2
  <2>4. F(T) = f[x] + F(T \ {x}) /\ F(T \ {x}) \in Int /\ f[x] = 0
    BY <1>1, <2>1, <2>2
  <2> QED
    BY <2>1, <2>3, <2>4
<1>3. F(S) = F(P)
  BY <1>2
<1> QED
  BY <1>3 DEF F

\* A sum over 1..n+1 is its first value and the sum of the others, renumbered.
LEMMA SumShift ==
  ASSUME NEW n \in Nat, NEW f, \A k \in 1..(n + 1) : f[k] \in Int,
         NEW e, \A k \in 1..n : e[k] = f[k + 1]
  PROVE  SumFunctionOnSet(f, 1..(n + 1)) = f[1] + SumFunctionOnSet(e, 1..n)
<1> DEFINE F(m) == SumFunctionOnSet(f, 1..m)
           E(m) == SumFunctionOnSet(e, 1..m)
           Bad == {m \in 0..n : F(m + 1) # f[1] + E(m)}
<1>1. ASSUME NEW m \in 1..(n + 1)
      PROVE  F(m) = f[m] + F(m - 1) /\ F(m - 1) \in Int
  <2> DEFINE I == 1..m
             J == 1..(m - 1)
  <2>1. IsFiniteSet(I) /\ IsFiniteSet(J)
    BY FS_Interval
  <2>2. m \in I /\ I \ {m} = J
    OBVIOUS
  <2>3. \A k \in I : f[k] \in Int
    OBVIOUS
  <2>4. F(m) = SumFunctionOnSet(f, I) /\ F(m - 1) = SumFunctionOnSet(f, J)
    OBVIOUS
  <2> HIDE DEF I, J, F
  <2>5. SumFunctionOnSet(f, I) = f[m] + SumFunctionOnSet(f, J)
    BY <2>1, <2>2, <2>3, SumRemove
  <2>6. SumFunctionOnSet(f, J) \in Int
    BY <2>1, <2>2, <2>3, SumType
  <2> QED
    BY <2>4, <2>5, <2>6
<1>2. ASSUME NEW m \in 1..n
      PROVE  E(m) = e[m] + E(m - 1) /\ E(m - 1) \in Int
  <2> DEFINE I == 1..m
             J == 1..(m - 1)
  <2>1. IsFiniteSet(I) /\ IsFiniteSet(J)
    BY FS_Interval
  <2>2. m \in I /\ I \ {m} = J
    OBVIOUS
  <2>3. \A k \in I : e[k] \in Int
    OBVIOUS
  <2>4. E(m) = SumFunctionOnSet(e, I) /\ E(m - 1) = SumFunctionOnSet(e, J)
    OBVIOUS
  <2> HIDE DEF I, J, E
  <2>5. SumFunctionOnSet(e, I) = e[m] + SumFunctionOnSet(e, J)
    BY <2>1, <2>2, <2>3, SumRemove
  <2>6. SumFunctionOnSet(e, J) \in Int
    BY <2>1, <2>2, <2>3, SumType
  <2> QED
    BY <2>4, <2>5, <2>6
<1>3. F(0) = 0 /\ E(0) = 0
  <2>1. 1..0 = {}
    OBVIOUS
  <2> QED
    BY <2>1, SumEmpty
<1> HIDE DEF F, E
<1>4. ASSUME Bad # {} PROVE FALSE
  <2>1. PICK m \in Bad : \A k \in Bad : m <= k
    <3>1. Bad \subseteq Nat
      OBVIOUS
    <3> HIDE DEF Bad
    <3> QED
      BY <1>4, <3>1, LeastNatural
  <2>2. m # 0
    <3>1. F(1) = f[1] + F(0) /\ f[1] \in Int
      BY <1>1
    <3> QED
      BY <1>3, <2>1, <3>1
  <2>3. m \in 1..n /\ m + 1 \in 1..(n + 1) /\ (m + 1) - 1 = m
    BY <2>1, <2>2
  <2>4. F(m + 1) = f[m + 1] + F(m) /\ E(m) = e[m] + E(m - 1) /\ E(m - 1) \in Int
    BY <1>1, <1>2, <2>3
  <2>5. F(m) = f[1] + E(m - 1)
    <3>1. m - 1 \in 0..n /\ (m - 1) + 1 = m /\ ~ (m <= m - 1)
      BY <2>3
    <3>2. m - 1 \notin Bad
      <4> HIDE DEF Bad
      <4> QED
        BY <2>1, <3>1
    <3> QED
      BY <3>1, <3>2
  <2>6. f[1] \in Int /\ f[m + 1] \in Int /\ e[m] = f[m + 1]
    BY <2>3
  <2> QED
    BY <2>1, <2>4, <2>5, <2>6
<1>5. F(n + 1) = f[1] + E(n)
  BY <1>4
<1> QED
  BY <1>5 DEF F, E
=============================================================================
