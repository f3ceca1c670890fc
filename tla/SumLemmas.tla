------------------------------ MODULE SumLemmas ------------------------------
(***************************************************************************)
(* What a sum over a finite set does, whatever order it is taken in: the   *)
(* facts about SumFunctionOnSet on which the proofs about balances rest.   *)
(* The induction is by a least counterexample, a set and not an operator.  *)
(***************************************************************************)
EXTENDS Functions, FiniteSetTheorems, WellFoundedInduction, TLAPS

\* A set of numbers that holds 0 and each successor holds them all.
Below == {nm \in Nat \X Nat : nm[1] < nm[2]}

LEMMA NatBySuccessor ==
  ASSUME NEW N \in SUBSET Nat, 0 \in N, \A n \in N : n + 1 \in N
  PROVE  N = Nat
<1> SUFFICES ASSUME Nat \ N # {} PROVE FALSE
  OBVIOUS
<1>1. IsWellFoundedOn(Below, Nat)
  BY NatLessThanWellFounded DEF OpToRel, Below
<1>2. PICK m \in Nat \ N : \A n \in Nat \ N : <<n, m>> \notin Below
  BY <1>1, WFMin, Nat \ N \subseteq Nat
<1>3. m # 0 /\ m - 1 \in Nat /\ m - 1 < m
  BY <1>2
<1>4. <<m - 1, m>> \in Below
  BY <1>3 DEF Below
<1>5. m - 1 \in N
  BY <1>2, <1>3, <1>4
<1> QED
  BY <1>2, <1>3, <1>5

\* Among subsets of a finite set there is one from which no element can be
\* taken without leaving them.
LEMMA MinimalSet ==
  ASSUME NEW S, IsFiniteSet(S), NEW B \in SUBSET SUBSET S, B # {}
  PROVE  \E T \in B : \A x \in T : T \ {x} \notin B
<1>1. IsWellFoundedOn(StrictSubsetOrdering(S), SUBSET S)
  BY FS_StrictSubsetOrderingWellFounded, FS_FiniteSubsetsOfFinite
<1>2. PICK T \in B : \A U \in B : <<U, T>> \notin StrictSubsetOrdering(S)
  BY <1>1, WFMin
<1>3. ASSUME NEW x \in T PROVE <<T \ {x}, T>> \in StrictSubsetOrdering(S)
  BY <1>2, <1>3 DEF StrictSubsetOrdering
<1> QED
  BY <1>2, <1>3

-----------------------------------------------------------------------------
\* The recursion by which SumFunctionOnSet is defined has a solution.

AnyOf(s) == CHOOSE x \in s : TRUE
Unfolded(f, g, s) == IF s = {} THEN 0 ELSE f[AnyOf(s)] + g[s \ {AnyOf(s)}]
Solves(f, g, S) == g = [s \in SUBSET S |-> Unfolded(f, g, s)]

LEMMA AnyOfIsIn == ASSUME NEW s, s # {} PROVE AnyOf(s) \in s
  BY DEF AnyOf

\* Solutions up to a size extend to the next size.
LEMMA Solvable ==
  ASSUME NEW f, NEW S, IsFiniteSet(S)
  PROVE  \E g : Solves(f, g, S)
<1> DEFINE Upto(g, n) ==
             /\ g = [s \in SUBSET S |-> g[s]]
             /\ \A s \in SUBSET S : Cardinality(s) <= n => g[s] = Unfolded(f, g, s)
           N == {n \in Nat : \E g : Upto(g, n)}
<1>1. \A s \in SUBSET S : IsFiniteSet(s) /\ Cardinality(s) \in Nat
  BY FS_Subset, FS_CardinalityType
<1>2. 0 \in N
  <2> DEFINE g == [s \in SUBSET S |-> 0]
  <2>1. ASSUME NEW s \in SUBSET S, Cardinality(s) <= 0 PROVE g[s] = Unfolded(f, g, s)
    <3>1. s = {}
      BY <1>1, <2>1, FS_EmptySet
    <3> QED
      BY <3>1 DEF Unfolded
  <2>2. Upto(g, 0)
    BY <2>1
  <2> HIDE DEF g
  <2> QED
    BY <2>2
<1>3. ASSUME NEW n \in N PROVE n + 1 \in N
  <2>1. PICK h : Upto(h, n)
    OBVIOUS
  <2> DEFINE g == [s \in SUBSET S |-> Unfolded(f, h, s)]
  <2>2. ASSUME NEW s \in SUBSET S, Cardinality(s) <= n PROVE g[s] = h[s]
    BY <2>1, <2>2
  <2>3. ASSUME NEW s \in SUBSET S, Cardinality(s) <= n + 1, s # {}
        PROVE  g[s] = Unfolded(f, g, s)
    <3> DEFINE p == AnyOf(s)
    <3>1. p \in s
      BY <2>3, AnyOfIsIn
    <3>2. s \ {p} \in SUBSET S /\ Cardinality(s \ {p}) = Cardinality(s) - 1
      BY <1>1, <3>1, FS_RemoveElement
    <3>3. g[s \ {p}] = h[s \ {p}]
      <4>1. Cardinality(s \ {p}) <= n
        BY <1>1, <2>3, <3>2
      <4> HIDE DEF p, g
      <4> QED
        BY <2>2, <3>2, <4>1
    <3>4. g[s] = f[p] + h[s \ {p}]
      BY <2>3 DEF Unfolded
    <3>5. Unfolded(f, g, s) = f[p] + g[s \ {p}]
      BY <2>3 DEF Unfolded
    <3> HIDE DEF g, p
    <3> QED
      BY <3>3, <3>4, <3>5
  <2>4. \A s \in SUBSET S : Cardinality(s) <= n + 1 => g[s] = Unfolded(f, g, s)
    <3>1. g[{}] = Unfolded(f, g, {})
      BY DEF Unfolded
    <3> HIDE DEF g
    <3> QED
      BY <2>3, <3>1
  <2>5. g = [s \in SUBSET S |-> g[s]]
    OBVIOUS
  <2>6. Upto(g, n + 1)
    BY <2>4, <2>5
  <2> HIDE DEF g, Upto
  <2> QED
    BY <2>6
<1>4. N = Nat
  <2> HIDE DEF N
  <2> QED
    <3>1. N \in SUBSET Nat
      BY DEF N
    <3> QED
      BY <1>2, <1>3, <3>1, NatBySuccessor
<1>5. Cardinality(S) \in N
  BY <1>1, <1>4
<1>6. PICK g : Upto(g, Cardinality(S))
  BY <1>5
<1>7. \A s \in SUBSET S : g[s] = Unfolded(f, g, s)
  BY <1>6, FS_Subset
<1> QED
  BY <1>6, <1>7 DEF Solves

LEMMA SumIsSolution ==
  ASSUME NEW f, NEW S, IsFiniteSet(S)
  PROVE  \E g : Solves(f, g, S) /\ SumFunctionOnSet(f, S) = g[S]
<1> DEFINE g == CHOOSE g : Solves(f, g, S)
<1>1. Solves(f, g, S)
  BY Solvable
<1>2. SumFunctionOnSet(f, S) = g[S]
  BY DEF SumFunctionOnSet, FoldFunctionOnSet, MapThenFoldSet, Solves, Unfolded, AnyOf
<1> QED
  BY <1>1, <1>2

-----------------------------------------------------------------------------
\* What a sum is: nothing for no elements, and for others that of all but the
\* element the definition takes first.

LEMMA SolutionsAgree ==
  ASSUME NEW f, NEW S, IsFiniteSet(S), NEW T \in SUBSET S,
         NEW g, Solves(f, g, S), NEW h, Solves(f, h, T)
  PROVE  g[T] = h[T]
<1> DEFINE B == {U \in SUBSET T : g[U] # h[U]}
<1> SUFFICES ASSUME B # {} PROVE FALSE
  OBVIOUS
<1>1. IsFiniteSet(T)
  BY FS_Subset
<1>2. PICK U \in B : \A x \in U : U \ {x} \notin B
  <2> HIDE DEF B
  <2>1. B \in SUBSET SUBSET T
    BY DEF B
  <2> QED
    BY <1>1, <2>1, MinimalSet
<1>3. g[U] = Unfolded(f, g, U) /\ h[U] = Unfolded(f, h, U)
  BY <1>2 DEF Solves
<1>4. U # {}
  BY <1>2, <1>3 DEF Unfolded
<1>5. AnyOf(U) \in U
  BY <1>4, AnyOfIsIn
<1>6. g[U \ {AnyOf(U)}] = h[U \ {AnyOf(U)}]
  BY <1>2, <1>5
<1> QED
  BY <1>2, <1>3, <1>6 DEF Unfolded

LEMMA SumUnfolds ==
  ASSUME NEW f, NEW S, IsFiniteSet(S)
  PROVE  SumFunctionOnSet(f, S) =
           IF S = {} THEN 0
           ELSE f[AnyOf(S)] + SumFunctionOnSet(f, S \ {AnyOf(S)})
<1> DEFINE T == S \ {AnyOf(S)}
<1>1. T \in SUBSET S /\ IsFiniteSet(T)
  BY FS_Subset
<1>2. PICK g : Solves(f, g, S) /\ SumFunctionOnSet(f, S) = g[S]
  BY SumIsSolution
<1>3. PICK h : Solves(f, h, T) /\ SumFunctionOnSet(f, T) = h[T]
  BY <1>1, SumIsSolution
<1>4. g[T] = h[T]
  <2> HIDE DEF T
  <2> QED
    BY <1>1, <1>2, <1>3, SolutionsAgree
<1>5. g[S] = Unfolded(f, g, S)
  BY <1>2 DEF Solves
<1> QED
  BY <1>2, <1>3, <1>4, <1>5 DEF Unfolded

LEMMA SumOfNone == ASSUME NEW f PROVE SumFunctionOnSet(f, {}) = 0
  BY SumUnfolds, FS_EmptySet

LEMMA SumIsNat ==
  ASSUME NEW C, NEW f \in [C -> Nat], NEW S \in SUBSET C, IsFiniteSet(S)
  PROVE  SumFunctionOnSet(f, S) \in Nat
<1> DEFINE B == {T \in SUBSET S : SumFunctionOnSet(f, T) \notin Nat}
<1> SUFFICES ASSUME B # {} PROVE FALSE
  OBVIOUS
<1>1. PICK T \in B : \A x \in T : T \ {x} \notin B
  <2> HIDE DEF B
  <2>1. B \in SUBSET SUBSET S
    BY DEF B
  <2> QED
    BY <2>1, MinimalSet
<1>2. IsFiniteSet(T) /\ SumFunctionOnSet(f, T) \notin Nat
  BY <1>1, FS_Subset
<1>3. T # {}
  BY <1>2, SumOfNone
<1>4. AnyOf(T) \in T
  BY <1>3, AnyOfIsIn
<1>5. SumFunctionOnSet(f, T \ {AnyOf(T)}) \in Nat
  BY <1>1, <1>4
<1>6. f[AnyOf(T)] \in Nat
  BY <1>1, <1>4
<1> QED
  BY <1>2, <1>3, <1>5, <1>6, SumUnfolds

\* The order does not matter: any element can be the one taken first.
LEMMA SumWithout ==
  ASSUME NEW C, NEW f \in [C -> Nat], NEW S \in SUBSET C, IsFiniteSet(S),
         NEW c \in S
  PROVE  SumFunctionOnSet(f, S) = f[c] + SumFunctionOnSet(f, S \ {c})
<1> DEFINE Sum(T) == SumFunctionOnSet(f, T)
           Sound(T) == \A x \in T : Sum(T) = f[x] + Sum(T \ {x})
           B == {T \in SUBSET S : ~ Sound(T)}
<1> SUFFICES ASSUME B # {} PROVE FALSE
  OBVIOUS
<1>1. PICK T \in B : \A x \in T : T \ {x} \notin B
  <2> HIDE DEF B
  <2>1. B \in SUBSET SUBSET S
    BY DEF B
  <2> QED
    BY <2>1, MinimalSet
<1> HIDE DEF Sum
<1>2. \A U \in SUBSET S : IsFiniteSet(U) /\ Sum(U) \in Nat
  BY FS_Subset, SumIsNat DEF Sum
<1>3. PICK x \in T : Sum(T) # f[x] + Sum(T \ {x})
  BY <1>1
<1> DEFINE p == AnyOf(T)
<1>4. p \in T
  BY <1>3, AnyOfIsIn
<1>5. Sum(T) = f[p] + Sum(T \ {p})
  BY <1>1, <1>2, <1>3, SumUnfolds DEF Sum
<1>6. p # x
  BY <1>3, <1>5
<1> HIDE DEF p
<1>7. Sum(T \ {p}) = f[x] + Sum((T \ {p}) \ {x})
  BY <1>1, <1>4, <1>6
<1>8. Sum(T \ {x}) = f[p] + Sum((T \ {x}) \ {p})
  BY <1>1, <1>3, <1>4, <1>6
<1>9. (T \ {p}) \ {x} = (T \ {x}) \ {p}
  OBVIOUS
<1>10. \A a, b, m \in Nat : a + (b + m) = b + (a + m)
  OBVIOUS
<1>11. f[x] \in Nat /\ f[p] \in Nat /\ Sum((T \ {x}) \ {p}) \in Nat
  BY <1>1, <1>2, <1>3, <1>4
<1>12. Sum(T) = f[p] + (f[x] + Sum((T \ {x}) \ {p}))
  BY <1>5, <1>7, <1>9, Zenon
<1>13. f[x] + Sum(T \ {x}) = f[x] + (f[p] + Sum((T \ {x}) \ {p}))
  BY <1>8, Zenon
<1>14. f[p] + (f[x] + Sum((T \ {x}) \ {p})) = f[x] + (f[p] + Sum((T \ {x}) \ {p}))
  BY <1>10, <1>11
<1> QED
  BY <1>3, <1>12, <1>13, <1>14, Zenon

LEMMA SumWith ==
  ASSUME NEW C, NEW f \in [C -> Nat], NEW S \in SUBSET C, IsFiniteSet(S),
         NEW c \in C, c \notin S
  PROVE  SumFunctionOnSet(f, S \cup {c}) = SumFunctionOnSet(f, S) + f[c]
<1>1. IsFiniteSet(S \cup {c})
  BY FS_AddElement
<1>2. (S \cup {c}) \ {c} = S
  OBVIOUS
<1>3. SumFunctionOnSet(f, S \cup {c}) = f[c] + SumFunctionOnSet(f, S)
  BY <1>1, <1>2, SumWithout
<1> QED
  BY <1>3, SumIsNat

\* Fewer numbers, none of them negative, do not add up to more.
LEMMA SumOfFewer ==
  ASSUME NEW C, NEW f \in [C -> Nat], NEW S \in SUBSET C, IsFiniteSet(S),
         NEW T \in SUBSET S
  PROVE  SumFunctionOnSet(f, T) <= SumFunctionOnSet(f, S)
<1> DEFINE Sum(U) == SumFunctionOnSet(f, U)
           B == {U \in SUBSET S : T \subseteq U /\ ~ Sum(T) <= Sum(U)}
<1> SUFFICES ASSUME B # {} PROVE FALSE
  OBVIOUS
<1>1. PICK U \in B : \A x \in U : U \ {x} \notin B
  <2> HIDE DEF B
  <2>1. B \in SUBSET SUBSET S
    BY DEF B
  <2> QED
    BY <2>1, MinimalSet
<1> HIDE DEF Sum
<1>2. \A V \in SUBSET S : IsFiniteSet(V) /\ Sum(V) \in Nat
  BY FS_Subset, SumIsNat DEF Sum
<1>3. U # T
  BY <1>1, <1>2
<1>4. PICK x \in U : x \notin T
  BY <1>1, <1>3
<1>5. Sum(U) = f[x] + Sum(U \ {x})
  BY <1>1, <1>2, SumWithout DEF Sum
<1>6. Sum(T) <= Sum(U \ {x})
  BY <1>1, <1>4
<1>7. f[x] \in Nat
  BY <1>1
<1> QED
  BY <1>1, <1>2, <1>5, <1>6, <1>7

=============================================================================
