----------------------------- MODULE SumTheorems -----------------------------
(***************************************************************************)
(* Sums over finite sets.  MapThenSumSet takes the elements of a set in an *)
(* order of its own; the sum does not depend on it, so that a set with one *)
(* element more has a sum that is greater by that element.                 *)
(*                                                                         *)
(* The induction over the subsets of a finite set is here a statement      *)
(* about a set of subsets (SubsetInduction), not about a predicate: it     *)
(* follows from the fact that strict inclusion is well-founded.            *)
(***************************************************************************)
EXTENDS FiniteSetsExt, Integers, FiniteSetTheorems, TLAPS

(* The sum of V[d] over the elements d of S. *)
Sum(V, S) == MapThenSumSet(LAMBDA d : V[d], S)

------------------------------------------------------------------------------
(* A set of subsets that has T whenever it has every smaller subset of T has *)
(* them all.                                                                 *)
LEMMA SubsetInduction ==
    ASSUME NEW U, IsFiniteSet(U), NEW Good,
           \A T \in SUBSET U : (\A S \in SUBSET T : S # T => S \in Good) => T \in Good
    PROVE  \A T \in SUBSET U : T \in Good
<1> DEFINE Bad == (SUBSET U) \ Good
<1> SUFFICES ASSUME Bad # {} PROVE FALSE
  OBVIOUS
<1>1. Bad \subseteq FiniteSubsetsOf(U)
  BY FS_FiniteSubsetsOfFinite
<1>2. \E T \in Bad : \A S \in Bad : ~ (<<S, T>> \in StrictSubsetOrdering(U))
  <2> HIDE DEF Bad
  <2> QED
    BY <1>1, FS_StrictSubsetOrderingWellFounded, WFMin
<1>. PICK T \in Bad : \A S \in Bad : ~ (<<S, T>> \in StrictSubsetOrdering(U))
  BY <1>2
<1>3. \A S \in SUBSET T : S # T => S \in Good
  BY DEF StrictSubsetOrdering
<1>. QED
  BY <1>3

------------------------------------------------------------------------------
(* The recursive function behind MapThenSumSet.                              *)
Pick(s) == CHOOSE x \in s : TRUE

Rest(s) == s \ {Pick(s)}

IsFold(g, V, U) ==
    g = [s \in SUBSET U |-> IF s = {} THEN 0 ELSE V[Pick(s)] + g[Rest(s)]]

LEMMA SumIsFold ==
    ASSUME NEW V, NEW S
    PROVE  Sum(V, S) = (CHOOSE g : IsFold(g, V, S))[S]
  BY DEF Sum, MapThenSumSet, MapThenFoldSet, IsFold, Pick, Rest

LEMMA RestIsSmaller ==
    ASSUME NEW S, S # {}
    PROVE  Pick(S) \in S /\ Rest(S) \subseteq S /\ Rest(S) # S
  BY DEF Pick, Rest

LEMMA FoldUnfold ==
    ASSUME NEW g, NEW V, NEW U, IsFold(g, V, U), NEW s \in SUBSET U
    PROVE  g[s] = IF s = {} THEN 0 ELSE V[Pick(s)] + g[Rest(s)]
  BY Zenon DEF IsFold

(* Where two such functions are both defined they agree.                     *)
LEMMA FoldUnique ==
    ASSUME NEW V, NEW U, IsFiniteSet(U), NEW W, NEW g, NEW h,
           IsFold(g, V, U), IsFold(h, V, W)
    PROVE  \A T \in SUBSET U : T \subseteq W => g[T] = h[T]
<1> DEFINE Good == {T \in SUBSET U : T \subseteq W => g[T] = h[T]}
<1>1. ASSUME NEW T \in SUBSET U, \A S \in SUBSET T : S # T => S \in Good
      PROVE  T \in Good
  <2> SUFFICES ASSUME T \subseteq W PROVE g[T] = h[T]
    OBVIOUS
  <2>1. CASE T = {}
    BY <2>1, FoldUnfold
  <2>2. CASE T # {}
    <3>1. Rest(T) \in SUBSET T /\ Rest(T) # T
      BY <2>2, RestIsSmaller
    <3>2. g[Rest(T)] = h[Rest(T)]
      BY <1>1, <3>1
    <3>3. g[T] = V[Pick(T)] + g[Rest(T)] /\ h[T] = V[Pick(T)] + h[Rest(T)]
      BY <2>2, FoldUnfold
    <3>. QED
      BY <3>2, <3>3
  <2>. QED
    BY <2>1, <2>2
<1>2. \A T \in SUBSET U : T \in Good
  <2> HIDE DEF Good
  <2> QED
    BY <1>1, SubsetInduction
<1>. QED
  BY <1>2

(* There is one for every finite set.                                        *)
LEMMA FoldExists ==
    ASSUME NEW V, NEW U, IsFiniteSet(U)
    PROVE  \E g : IsFold(g, V, U)
<1> DEFINE Good == {T \in SUBSET U : \E g : IsFold(g, V, T)}
           H(s) == CHOOSE h : IsFold(h, V, s)
<1>1. ASSUME NEW T \in SUBSET U, \A S \in SUBSET T : S # T => S \in Good
      PROVE  T \in Good
  <2> DEFINE g == [s \in SUBSET T |->
                      IF s = {} THEN 0 ELSE V[Pick(s)] + H(Rest(s))[Rest(s)]]
  <2>1. ASSUME NEW r \in SUBSET T, r # T PROVE IsFold(H(r), V, r)
    BY <1>1, <2>1
  <2>2. ASSUME NEW r \in SUBSET T, r # T PROVE g[r] = H(r)[r]
    <3>0. IsFold(H(r), V, r)
      BY <2>1, <2>2
    <3>1. CASE r = {}
      <4>1. H(r)[r] = 0
        BY <3>0, <3>1, FoldUnfold
      <4>. QED
        BY <3>1, <4>1
    <3>2. CASE r # {}
      <4>1. Rest(r) \in SUBSET r /\ Rest(r) # r /\ Rest(r) \in SUBSET T /\ Rest(r) # T
        BY <2>2, <3>2, RestIsSmaller
      <4>2. IsFold(H(Rest(r)), V, Rest(r)) /\ IsFiniteSet(Rest(r))
        BY <2>1, <4>1, FS_Subset
      <4>3. H(Rest(r))[Rest(r)] = H(r)[Rest(r)]
        <5> HIDE DEF H
        <5> QED
          BY <3>0, <4>1, <4>2, FoldUnique
      <4>4. H(r)[r] = V[Pick(r)] + H(r)[Rest(r)]
        <5> HIDE DEF H
        <5> QED
          BY <3>0, <3>2, FoldUnfold
      <4>. QED
        BY <3>2, <4>3, <4>4
    <3>. QED
      BY <3>1, <3>2
  <2>3. ASSUME NEW s \in SUBSET T
        PROVE  g[s] = IF s = {} THEN 0 ELSE V[Pick(s)] + g[Rest(s)]
    <3>1. CASE s = {}
      BY <3>1
    <3>2. CASE s # {}
      <4>1. Rest(s) \in SUBSET T /\ Rest(s) # T
        BY <3>2, RestIsSmaller
      <4>2. g[Rest(s)] = H(Rest(s))[Rest(s)]
        BY <2>2, <4>1
      <4>. QED
        BY <3>2, <4>2
    <3>. QED
      BY <3>1, <3>2
  <2>4. g = [s \in SUBSET T |-> g[s]]
    OBVIOUS
  <2>5. IsFold(g, V, T)
    <3> HIDE DEF g
    <3> QED
      BY <2>3, <2>4 DEF IsFold
  <2>. QED
    BY <2>5
<1>2. \A T \in SUBSET U : T \in Good
  <2> HIDE DEF Good
  <2> QED
    BY <1>1, SubsetInduction
<1>. QED
  BY <1>2

------------------------------------------------------------------------------
(* The sum over the empty set is zero.                                       *)
LEMMA SumEmpty ==
    ASSUME NEW V
    PROVE  Sum(V, {}) = 0
<1> DEFINE g == CHOOSE h : IsFold(h, V, {})
<1>1. IsFold(g, V, {})
  BY FoldExists, FS_EmptySet
<1>2. g[{}] = 0
  <2> HIDE DEF g
  <2> QED
    BY <1>1, FoldUnfold
<1>. QED
  BY <1>2, SumIsFold

(* The sum takes away the element that MapThenSumSet picks, ...              *)
LEMMA SumPick ==
    ASSUME NEW V, NEW S, IsFiniteSet(S), S # {}
    PROVE  Sum(V, S) = V[Pick(S)] + Sum(V, Rest(S))
<1> DEFINE g == CHOOSE f : IsFold(f, V, S)
           h == CHOOSE f : IsFold(f, V, Rest(S))
<1>1. Rest(S) \subseteq S /\ IsFiniteSet(Rest(S))
  BY RestIsSmaller, FS_Subset
<1>2. IsFold(g, V, S) /\ IsFold(h, V, Rest(S))
  BY <1>1, FoldExists
<1>3. Sum(V, S) = g[S] /\ Sum(V, Rest(S)) = h[Rest(S)]
  BY SumIsFold
<1>4. g[S] = V[Pick(S)] + g[Rest(S)] /\ h[Rest(S)] = g[Rest(S)]
  <2> HIDE DEF g, h
  <2> QED
    BY <1>1, <1>2, FoldUnfold, FoldUnique
<1>. QED
  BY <1>3, <1>4

(* ... is a number, ...                                                      *)
LEMMA SumType ==
    ASSUME NEW V, NEW S, IsFiniteSet(S), \A d \in S : V[d] \in Nat
    PROVE  Sum(V, S) \in Nat
<1> DEFINE Good == {T \in SUBSET S : Sum(V, T) \in Nat}
<1>1. ASSUME NEW T \in SUBSET S, \A R \in SUBSET T : R # T => R \in Good
      PROVE  T \in Good
  <2>1. CASE T = {}
    BY <2>1, SumEmpty
  <2>2. CASE T # {}
    <3>1. Rest(T) \in Good /\ V[Pick(T)] \in Nat
      BY <1>1, <2>2, RestIsSmaller
    <3>2. Sum(V, T) = V[Pick(T)] + Sum(V, Rest(T))
      BY <2>2, SumPick, FS_Subset
    <3>. QED
      BY <3>1, <3>2
  <2>. QED
    BY <2>1, <2>2
<1>2. \A T \in SUBSET S : T \in Good
  <2> HIDE DEF Good
  <2> QED
    BY <1>1, SubsetInduction
<1>. QED
  BY <1>2

(* ... and may take away any other element instead.                          *)
LEMMA SumRemove ==
    ASSUME NEW V, NEW S, IsFiniteSet(S), \A d \in S : V[d] \in Nat, NEW e \in S
    PROVE  Sum(V, S) = V[e] + Sum(V, S \ {e})
<1> DEFINE Good == {T \in SUBSET S : \A x \in T : Sum(V, T) = V[x] + Sum(V, T \ {x})}
<1>0. ASSUME NEW T \in SUBSET S PROVE IsFiniteSet(T) /\ Sum(V, T) \in Nat
  BY SumType, FS_Subset
<1>1. ASSUME NEW T \in SUBSET S, \A R \in SUBSET T : R # T => R \in Good
      PROVE  T \in Good
  <2> SUFFICES ASSUME NEW x \in T PROVE Sum(V, T) = V[x] + Sum(V, T \ {x})
    OBVIOUS
  <2> DEFINE c == Pick(T)
             both == (T \ {c}) \ {x}
  <2>1. Sum(V, T) = V[c] + Sum(V, T \ {c}) /\ c \in T
    BY <1>0, SumPick, RestIsSmaller DEF Rest
  <2>2. CASE x = c
    BY <2>1, <2>2
  <2>3. CASE x # c
    <3>1. Sum(V, T \ {c}) = V[x] + Sum(V, both)
      <4>1. T \ {c} \in Good /\ x \in T \ {c}
        BY <1>1, <2>1, <2>3
      <4>. QED
        BY <4>1
    <3>2. Sum(V, T \ {x}) = V[c] + Sum(V, both)
      <4>1. T \ {x} \in Good /\ c \in T \ {x}
        BY <1>1, <2>1, <2>3
      <4>2. (T \ {x}) \ {c} = both
        OBVIOUS
      <4>3. Sum(V, T \ {x}) = V[c] + Sum(V, (T \ {x}) \ {c})
        BY <4>1
      <4>. QED
        BY <4>2, <4>3
    <3>3. V[c] \in Nat /\ V[x] \in Nat /\ Sum(V, both) \in Nat
      BY <1>0, <2>1
    <3>. QED
      BY <2>1, <3>1, <3>2, <3>3
  <2>. QED
    BY <2>2, <2>3
<1>2. \A T \in SUBSET S : T \in Good
  <2> HIDE DEF Good
  <2> QED
    BY <1>1, SubsetInduction
<1>. QED
  BY <1>2

(* One element more makes the sum greater by that element.                   *)
THEOREM SumAdd ==
    ASSUME NEW V, NEW S, IsFiniteSet(S), NEW e, e \notin S,
           \A d \in S \cup {e} : V[d] \in Nat
    PROVE  Sum(V, S \cup {e}) = Sum(V, S) + V[e]
<1> DEFINE T == S \cup {e}
<1>1. IsFiniteSet(T) /\ e \in T /\ T \ {e} = S
  BY FS_AddElement
<1>2. Sum(V, T) = V[e] + Sum(V, T \ {e})
  <2>1. \A d \in T : V[d] \in Nat
    OBVIOUS
  <2> HIDE DEF T
  <2> QED
    BY <1>1, <2>1, SumRemove
<1>3. Sum(V, S) \in Nat /\ V[e] \in Nat
  BY SumType
<1>. QED
  BY <1>1, <1>2, <1>3

------------------------------------------------------------------------------
(* A sum looks at nothing but the values of its elements, ...                *)
LEMMA SumCongruent ==
    ASSUME NEW V, NEW W, NEW S, IsFiniteSet(S), \A d \in S : V[d] = W[d]
    PROVE  Sum(V, S) = Sum(W, S)
<1> DEFINE Good == {T \in SUBSET S : Sum(V, T) = Sum(W, T)}
<1>1. ASSUME NEW T \in SUBSET S, \A R \in SUBSET T : R # T => R \in Good
      PROVE  T \in Good
  <2>1. CASE T = {}
    BY <2>1, SumEmpty
  <2>2. CASE T # {}
    <3>1. Rest(T) \in Good /\ V[Pick(T)] = W[Pick(T)]
      BY <1>1, <2>2, RestIsSmaller
    <3>2. /\ Sum(V, T) = V[Pick(T)] + Sum(V, Rest(T))
          /\ Sum(W, T) = W[Pick(T)] + Sum(W, Rest(T))
      BY <2>2, SumPick, FS_Subset
    <3>. QED
      BY <3>1, <3>2
  <2>. QED
    BY <2>1, <2>2
<1>2. \A T \in SUBSET S : T \in Good
  <2> HIDE DEF Good
  <2> QED
    BY <1>1, SubsetInduction
<1>. QED
  BY <1>2

(* ... so that it changes by as much as the one element whose value changes, *)
THEOREM SumChange ==
    ASSUME NEW V, NEW W, NEW S, IsFiniteSet(S), NEW e \in S,
           \A d \in S : V[d] \in Nat /\ W[d] \in Nat,
           \A d \in S \ {e} : V[d] = W[d]
    PROVE  Sum(V, S) + W[e] = Sum(W, S) + V[e]
<1>1. IsFiniteSet(S \ {e})
  BY FS_Subset
<1>2. Sum(V, S \ {e}) = Sum(W, S \ {e}) /\ Sum(V, S \ {e}) \in Nat
  BY <1>1, SumCongruent, SumType
<1>3. Sum(V, S) = V[e] + Sum(V, S \ {e}) /\ Sum(W, S) = W[e] + Sum(W, S \ {e})
  BY SumRemove
<1>. QED
  BY <1>2, <1>3

(* ... and no element is greater than the sum.                               *)
LEMMA SumAtLeast ==
    ASSUME NEW V, NEW S, IsFiniteSet(S), \A d \in S : V[d] \in Nat, NEW e \in S
    PROVE  V[e] <= Sum(V, S)
<1>1. Sum(V, S \ {e}) \in Nat /\ V[e] \in Nat
  BY FS_Subset, SumType
<1>. QED
  BY <1>1, SumRemove
=============================================================================
