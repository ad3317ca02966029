------------------------------- MODULE SumFacts -------------------------------
(***************************************************************************)
(* What the proofs need to know of sums over finite sets, and of numbers.  *)
(*                                                                         *)
(* The money invariants of this project add up amounts with the community  *)
(* operator SumFunctionOnSet, which folds a function over a set.  Its      *)
(* definition is a recursive function over the subsets of that set; the    *)
(* library's induction theorems take an operator as a parameter, which the *)
(* provers cannot instantiate, so the induction is made here once, on a    *)
(* smallest counterexample, and everything else follows from SumWithout:   *)
(* any one element can be taken out of a sum.                              *)
(*                                                                         *)
(* At the end, in the same way: a finite set of integers has a least and a *)
(* greatest member, and induction over numbers.                            *)
(***************************************************************************)
EXTENDS Functions, FiniteSetTheorems, TLAPS

\* Induction over the subsets of a finite set, with a set in place of a predicate:
\* if a set is good whenever all its proper subsets are, all are good.
LEMMA SubsetInduction ==
    ASSUME NEW S, IsFiniteSet(S), NEW Good,
           \A T \in SUBSET S :
               (\A U \in SUBSET T : U # T => U \in Good) => T \in Good
    PROVE  \A T \in SUBSET S : T \in Good
<1> DEFINE Bad == {T \in SUBSET S : T \notin Good}
<1>1. SUFFICES ASSUME Bad # {} PROVE FALSE
  OBVIOUS
<1>2. IsWellFoundedOn(StrictSubsetOrdering(S), SUBSET S)
  BY FS_StrictSubsetOrderingWellFounded, FS_FiniteSubsetsOfFinite
<1>3. PICK T \in Bad : \A U \in Bad : ~(<<U, T>> \in StrictSubsetOrdering(S))
  <2> HIDE DEF Bad
  <2>1. Bad \subseteq SUBSET S
    BY DEF Bad
  <2>2. QED
    BY <1>1, <1>2, <2>1, WFMin
<1>4. \A U \in SUBSET T : U # T => U \in Good
  BY <1>3 DEF StrictSubsetOrdering
<1>5. QED
  BY <1>3, <1>4

-----------------------------------------------------------------------------
(* The fold behind a sum is what its definition says. *)

AnyOf(s) == CHOOSE x \in s : TRUE

Unfolds(it, f, S) == it = [s \in SUBSET S |->
    IF s = {} THEN 0 ELSE f[AnyOf(s)] + it[s \ {AnyOf(s)}]]

\* A sum is the value, at the whole set, of the function that takes one element
\* after the other away.
LEMMA SumIsFold ==
    ASSUME NEW f, NEW S
    PROVE  SumFunctionOnSet(f, S) = (CHOOSE it : Unfolds(it, f, S))[S]
BY DEF SumFunctionOnSet, FoldFunctionOnSet, MapThenFoldSet, Unfolds, AnyOf

\* The element that is picked is one of the set.
LEMMA AnyOfIn == ASSUME NEW s, s # {} PROVE AnyOf(s) \in s
BY DEF AnyOf

\* Two folds agree where both are defined.
LEMMA FoldsAgree ==
    ASSUME NEW f, NEW A, NEW B, NEW g, NEW h, NEW S, S \subseteq A, S \subseteq B,
           IsFiniteSet(S), Unfolds(g, f, A), Unfolds(h, f, B)
    PROVE  g[S] = h[S]
<1> DEFINE Good == {T \in SUBSET S : g[T] = h[T]}
<1>1. ASSUME NEW T \in SUBSET S, \A U \in SUBSET T : U # T => U \in Good
      PROVE  T \in Good
  <2>1. CASE T = {}
    <3>1. g[T] = 0 /\ h[T] = 0
      BY <2>1 DEF Unfolds
    <3>2. QED
      BY <3>1
  <2>2. CASE T # {}
    <3> DEFINE U == T \ {AnyOf(T)}
    <3>1. U \in SUBSET T /\ U # T
      BY <2>2, AnyOfIn
    <3>2. g[U] = h[U]
      BY <3>1, <1>1
    <3>3. g[T] = f[AnyOf(T)] + g[U] /\ h[T] = f[AnyOf(T)] + h[U]
      BY <2>2 DEF Unfolds
    <3>4. QED
      BY <3>2, <3>3
  <2>3. QED
    BY <2>1, <2>2
<1> HIDE DEF Good
<1>2. S \in Good
  BY <1>1, SubsetInduction
<1>3. QED
  BY <1>2 DEF Good

\* There is such a fold on the subsets of every finite set.
LEMMA FoldExists ==
    ASSUME NEW f, NEW S, IsFiniteSet(S)
    PROVE  \E it : Unfolds(it, f, S)
<1> DEFINE Good == {T \in SUBSET S : \E it : Unfolds(it, f, T)}
           Fold(T) == CHOOSE it : Unfolds(it, f, T)
           Value(T) == Fold(T)[T]
<1>1. ASSUME NEW T \in SUBSET S, \A U \in SUBSET T : U # T => U \in Good
      PROVE  T \in Good
  <2> DEFINE g == [s \in SUBSET T |->
                      IF s = {} THEN 0 ELSE f[AnyOf(s)] + Value(s \ {AnyOf(s)})]
  <2>1. \A U \in SUBSET T : U # T => Unfolds(Fold(U), f, U)
    BY <1>1
  <2>2. \A U \in SUBSET T : IsFiniteSet(U)
    BY FS_Subset
  <2> HIDE DEF Fold
  <2>3. ASSUME NEW U \in SUBSET T, U # T
        PROVE  Value(U) = g[U]
    <3>1. CASE U = {}
      <4>1. Fold(U)[U] = 0
        BY <2>1, <2>3, <3>1 DEF Unfolds
      <4>2. QED
        BY <3>1, <4>1
    <3>2. CASE U # {}
      <4> DEFINE V == U \ {AnyOf(U)}
      <4>1. V \in SUBSET U /\ V \in SUBSET T /\ V # T
        BY <3>2, AnyOfIn
      <4>2. Fold(U)[U] = f[AnyOf(U)] + Fold(U)[V]
        BY <2>1, <2>3, <3>2 DEF Unfolds
      <4>3. Fold(U)[V] = Fold(V)[V]
        <5>1. Unfolds(Fold(U), f, U) /\ Unfolds(Fold(V), f, V) /\ IsFiniteSet(V)
          BY <2>1, <2>2, <2>3, <4>1
        <5> HIDE DEF V
        <5>2. QED
          BY <5>1, <4>1, FoldsAgree
      <4>4. g[U] = f[AnyOf(U)] + Value(V)
        BY <3>2
      <4>5. QED
        BY <4>2, <4>3, <4>4
    <3>3. QED
      BY <3>1, <3>2
  <2> HIDE DEF Value
  <2>4. \A s \in SUBSET T : s # {} =>
            s \ {AnyOf(s)} \in SUBSET T /\ s \ {AnyOf(s)} # T
    BY AnyOfIn
  <2>5. g = [s \in SUBSET T |->
                IF s = {} THEN 0 ELSE f[AnyOf(s)] + g[s \ {AnyOf(s)}]]
    BY <2>3, <2>4
  <2> HIDE DEF g
  <2>6. QED
    BY <2>5 DEF Unfolds
<1> HIDE DEF Good
<1>2. S \in Good
  BY <1>1, SubsetInduction
<1>3. QED
  BY <1>2 DEF Good

\* Whatever function unfolds in that way gives the sum.
LEMMA SumUnfolds ==
    ASSUME NEW f, NEW S, IsFiniteSet(S), NEW it, Unfolds(it, f, S)
    PROVE  SumFunctionOnSet(f, S) = it[S]
<1> DEFINE g == CHOOSE h : Unfolds(h, f, S)
<1>1. Unfolds(g, f, S)
  OBVIOUS
<1>2. SumFunctionOnSet(f, S) = g[S]
  BY SumIsFold
<1> HIDE DEF g
<1>3. g[S] = it[S]
  BY <1>1, FoldsAgree
<1>4. QED
  BY <1>2, <1>3

\* The sum over nothing is zero.
LEMMA SumEmpty == ASSUME NEW f PROVE SumFunctionOnSet(f, {}) = 0
<1>1. IsFiniteSet({})
  BY FS_EmptySet
<1>2. PICK it : Unfolds(it, f, {})
  BY <1>1, FoldExists
<1>3. it[{}] = 0
  BY <1>2 DEF Unfolds
<1>4. QED
  BY <1>1, <1>2, <1>3, SumUnfolds

\* The definition's recursion: the picked element is added to the sum of the rest.
LEMMA SumPicked ==
    ASSUME NEW f, NEW S, IsFiniteSet(S), S # {}
    PROVE  SumFunctionOnSet(f, S) =
               f[AnyOf(S)] + SumFunctionOnSet(f, S \ {AnyOf(S)})
<1> DEFINE T == S \ {AnyOf(S)}
<1>1. PICK it : Unfolds(it, f, S)
  BY FoldExists
<1>2. it[S] = f[AnyOf(S)] + it[T]
  BY <1>1 DEF Unfolds
<1>3. IsFiniteSet(T) /\ T \subseteq S
  BY FS_Subset
<1>4. PICK h : Unfolds(h, f, T)
  <2> HIDE DEF T
  <2>1. QED
    BY <1>3, FoldExists
<1>5. it[T] = h[T]
  <2> HIDE DEF T
  <2>1. QED
    BY <1>1, <1>3, <1>4, FoldsAgree
<1>6. SumFunctionOnSet(f, S) = it[S]
  BY <1>1, SumUnfolds
<1>7. SumFunctionOnSet(f, T) = h[T]
  <2> HIDE DEF T
  <2>1. QED
    BY <1>3, <1>4, SumUnfolds
<1>8. QED
  BY <1>2, <1>5, <1>6, <1>7

-----------------------------------------------------------------------------
(* What the proofs cite. *)

\* A sum of integers is an integer.
LEMMA SumInt ==
    ASSUME NEW f, NEW S, IsFiniteSet(S), \A x \in S : f[x] \in Int
    PROVE  SumFunctionOnSet(f, S) \in Int
<1> DEFINE Good == {T \in SUBSET S : SumFunctionOnSet(f, T) \in Int}
<1>1. ASSUME NEW T \in SUBSET S, \A U \in SUBSET T : U # T => U \in Good
      PROVE  T \in Good
  <2>1. CASE T = {}
    BY <2>1, SumEmpty
  <2>2. CASE T # {}
    <3> DEFINE U == T \ {AnyOf(T)}
    <3>1. AnyOf(T) \in S /\ U \in SUBSET T /\ U # T /\ IsFiniteSet(T)
      BY <2>2, AnyOfIn, FS_Subset
    <3>2. SumFunctionOnSet(f, T) = f[AnyOf(T)] + SumFunctionOnSet(f, U)
      BY <2>2, <3>1, SumPicked
    <3>3. SumFunctionOnSet(f, U) \in Int
      BY <1>1, <3>1
    <3>4. QED
      BY <3>1, <3>2, <3>3
  <2>3. QED
    BY <2>1, <2>2
<1> HIDE DEF Good
<1>2. S \in Good
  BY <1>1, SubsetInduction
<1>3. QED
  BY <1>2 DEF Good

\* Any element can be taken out of a sum.
LEMMA SumWithout ==
    ASSUME NEW f, NEW S, IsFiniteSet(S), \A y \in S : f[y] \in Int, NEW x \in S
    PROVE  SumFunctionOnSet(f, S) = f[x] + SumFunctionOnSet(f, S \ {x})
<1> DEFINE Good == {T \in SUBSET S : \A y \in T :
               SumFunctionOnSet(f, T) = f[y] + SumFunctionOnSet(f, T \ {y})}
<1>1. ASSUME NEW T \in SUBSET S, \A U \in SUBSET T : U # T => U \in Good
      PROVE  T \in Good
  <2>1. SUFFICES ASSUME NEW y \in T
                 PROVE  SumFunctionOnSet(f, T)
                            = f[y] + SumFunctionOnSet(f, T \ {y})
    OBVIOUS
  <2> DEFINE p == AnyOf(T)
             U == T \ {p}
             V == T \ {y}
             W == U \ {y}
  <2>2. p \in T
    BY <2>1, AnyOfIn
  <2>3. IsFiniteSet(T) /\ IsFiniteSet(U) /\ IsFiniteSet(V) /\ IsFiniteSet(W)
    BY FS_Subset
  <2>4. SumFunctionOnSet(f, T) = f[p] + SumFunctionOnSet(f, U)
    BY <2>1, <2>3, SumPicked
  <2>5. CASE p = y
    BY <2>4, <2>5
  <2>6. CASE p # y
    <3>1. SumFunctionOnSet(f, U) = f[y] + SumFunctionOnSet(f, W)
      <4>1. U \in SUBSET T /\ U # T /\ y \in U
        BY <2>1, <2>2, <2>6
      <4>2. QED
        BY <1>1, <4>1
    <3>2. SumFunctionOnSet(f, V) = f[p] + SumFunctionOnSet(f, W)
      <4>1. V \in SUBSET T /\ V # T /\ p \in V /\ V \ {p} = W
        BY <2>1, <2>2, <2>6
      <4>2. QED
        BY <1>1, <4>1
    <3>3. f[p] \in Int /\ f[y] \in Int /\ SumFunctionOnSet(f, W) \in Int
      <4>1. \A z \in W : f[z] \in Int
        OBVIOUS
      <4>2. SumFunctionOnSet(f, W) \in Int
        <5> HIDE DEF W
        <5>1. QED
          BY <2>3, <4>1, SumInt
      <4>3. QED
        BY <2>2, <4>2
    <3> HIDE DEF p, U, V, W
    <3>4. QED
      BY <2>4, <3>1, <3>2, <3>3 DEF V
  <2>7. QED
    BY <2>5, <2>6
<1> HIDE DEF Good
<1>2. S \in Good
  BY <1>1, SubsetInduction
<1>3. QED
  BY <1>2 DEF Good

\* A new element adds its value.
LEMMA SumWith ==
    ASSUME NEW f, NEW S, IsFiniteSet(S), NEW x, x \notin S, f[x] \in Int,
           \A y \in S : f[y] \in Int
    PROVE  SumFunctionOnSet(f, S \cup {x}) = SumFunctionOnSet(f, S) + f[x]
<1> DEFINE T == S \cup {x}
<1>1. IsFiniteSet(T) /\ x \in T /\ T \ {x} = S /\ \A y \in T : f[y] \in Int
  BY FS_AddElement
<1>2. SumFunctionOnSet(f, T) = f[x] + SumFunctionOnSet(f, S)
  <2> HIDE DEF T
  <2>1. SumFunctionOnSet(f, T) = f[x] + SumFunctionOnSet(f, T \ {x})
    BY <1>1, SumWithout
  <2>2. QED
    BY <1>1, <2>1
<1>3. SumFunctionOnSet(f, S) \in Int
  BY SumInt
<1>4. QED
  BY <1>2, <1>3

\* Functions that agree on a set have the same sum over it.
LEMMA SumAgree ==
    ASSUME NEW f, NEW g, NEW S, IsFiniteSet(S), \A x \in S : f[x] = g[x]
    PROVE  SumFunctionOnSet(f, S) = SumFunctionOnSet(g, S)
<1> DEFINE Good == {T \in SUBSET S :
               SumFunctionOnSet(f, T) = SumFunctionOnSet(g, T)}
<1>1. ASSUME NEW T \in SUBSET S, \A U \in SUBSET T : U # T => U \in Good
      PROVE  T \in Good
  <2>1. CASE T = {}
    BY <2>1, SumEmpty
  <2>2. CASE T # {}
    <3> DEFINE U == T \ {AnyOf(T)}
    <3>1. AnyOf(T) \in S /\ U \in SUBSET T /\ U # T /\ IsFiniteSet(T)
      BY <2>2, AnyOfIn, FS_Subset
    <3>2. /\ SumFunctionOnSet(f, T) = f[AnyOf(T)] + SumFunctionOnSet(f, U)
          /\ SumFunctionOnSet(g, T) = g[AnyOf(T)] + SumFunctionOnSet(g, U)
      BY <2>2, <3>1, SumPicked
    <3>3. SumFunctionOnSet(f, U) = SumFunctionOnSet(g, U)
      BY <1>1, <3>1
    <3>4. QED
      BY <3>1, <3>2, <3>3
  <2>3. QED
    BY <2>1, <2>2
<1> HIDE DEF Good
<1>2. S \in Good
  BY <1>1, SubsetInduction
<1>3. QED
  BY <1>2 DEF Good

\* A sum whose function changes at one element changes by what that one does.
LEMMA SumChange ==
    ASSUME NEW f, NEW g, NEW S, IsFiniteSet(S), NEW x \in S,
           \A y \in S : f[y] \in Int, g[x] \in Int,
           \A y \in S : y # x => g[y] = f[y]
    PROVE  SumFunctionOnSet(g, S) = SumFunctionOnSet(f, S) + (g[x] - f[x])
<1> DEFINE T == S \ {x}
<1>1. IsFiniteSet(T)
  BY FS_Subset
<1>2. SumFunctionOnSet(g, T) = SumFunctionOnSet(f, T)
  <2>1. \A y \in T : g[y] = f[y]
    OBVIOUS
  <2> HIDE DEF T
  <2>2. QED
    BY <1>1, <2>1, SumAgree
<1>3. /\ SumFunctionOnSet(f, S) = f[x] + SumFunctionOnSet(f, T)
      /\ SumFunctionOnSet(g, S) = g[x] + SumFunctionOnSet(g, T)
  <2>1. \A y \in S : g[y] \in Int
    OBVIOUS
  <2>2. QED
    BY <2>1, SumWithout
<1>4. SumFunctionOnSet(f, T) \in Int
  <2>1. \A y \in T : f[y] \in Int
    OBVIOUS
  <2> HIDE DEF T
  <2>2. QED
    BY <1>1, <2>1, SumInt
<1> HIDE DEF T
<1>5. QED
  BY <1>2, <1>3, <1>4

\* The same for two elements.
LEMMA SumChangeTwo ==
    ASSUME NEW f, NEW g, NEW S, IsFiniteSet(S), NEW x \in S, NEW z \in S, x # z,
           \A y \in S : f[y] \in Int, g[x] \in Int, g[z] \in Int,
           \A y \in S : y # x /\ y # z => g[y] = f[y]
    PROVE  SumFunctionOnSet(g, S)
               = SumFunctionOnSet(f, S) + (g[x] - f[x]) + (g[z] - f[z])
<1> DEFINE h == [y \in S |-> IF y = x THEN g[x] ELSE f[y]]
<1>1. h[x] = g[x] /\ h[z] = f[z] /\ \A y \in S : h[y] \in Int
  OBVIOUS
<1>2. \A y \in S : y # x => h[y] = f[y]
  OBVIOUS
<1>3. \A y \in S : y # z => g[y] = h[y]
  OBVIOUS
<1> HIDE DEF h
<1>4. SumFunctionOnSet(h, S) = SumFunctionOnSet(f, S) + (h[x] - f[x])
  BY <1>1, <1>2, SumChange
<1>5. SumFunctionOnSet(g, S) = SumFunctionOnSet(h, S) + (g[z] - h[z])
  BY <1>1, <1>3, SumChange
<1>6. SumFunctionOnSet(f, S) \in Int
  BY SumInt
<1>7. QED
  BY <1>1, <1>4, <1>5, <1>6

\* The sum over two sets without a common element.
LEMMA SumUnion ==
    ASSUME NEW f, NEW A, NEW B, IsFiniteSet(A), IsFiniteSet(B), A \cap B = {},
           \A y \in A \cup B : f[y] \in Int
    PROVE  SumFunctionOnSet(f, A \cup B)
               = SumFunctionOnSet(f, A) + SumFunctionOnSet(f, B)
<1> DEFINE Good == {T \in SUBSET B : SumFunctionOnSet(f, A \cup T)
                        = SumFunctionOnSet(f, A) + SumFunctionOnSet(f, T)}
<1>0. SumFunctionOnSet(f, A) \in Int
  BY SumInt
<1>1. ASSUME NEW T \in SUBSET B, \A U \in SUBSET T : U # T => U \in Good
      PROVE  T \in Good
  <2>1. CASE T = {}
    <3>1. A \cup T = A /\ SumFunctionOnSet(f, T) = 0
      BY <2>1, SumEmpty
    <3>2. QED
      BY <1>0, <3>1
  <2>2. CASE T # {}
    <3>1. PICK x \in T : TRUE
      BY <2>2
    <3> DEFINE U == T \ {x}
               AU == A \cup U
    <3>2. U \in SUBSET T /\ U # T
      OBVIOUS
    <3>3. IsFiniteSet(T) /\ IsFiniteSet(U) /\ IsFiniteSet(AU)
      BY FS_Subset, FS_Union
    <3>4. SumFunctionOnSet(f, AU)
              = SumFunctionOnSet(f, A) + SumFunctionOnSet(f, U)
      BY <1>1, <3>2
    <3>5. SumFunctionOnSet(f, U) \in Int
      <4>1. \A y \in U : f[y] \in Int
        OBVIOUS
      <4> HIDE DEF U
      <4>2. QED
        BY <3>3, <4>1, SumInt
    <3>6. SumFunctionOnSet(f, T) = SumFunctionOnSet(f, U) + f[x]
      <4>1. x \notin U /\ f[x] \in Int /\ T = U \cup {x}
            /\ \A y \in U : f[y] \in Int
        OBVIOUS
      <4> HIDE DEF U
      <4>2. SumFunctionOnSet(f, U \cup {x}) = SumFunctionOnSet(f, U) + f[x]
        BY <3>3, <4>1, SumWith
      <4>3. QED
        BY <4>1, <4>2
    <3>7. SumFunctionOnSet(f, A \cup T) = SumFunctionOnSet(f, AU) + f[x]
      <4>1. x \notin AU /\ f[x] \in Int /\ A \cup T = AU \cup {x}
            /\ \A y \in AU : f[y] \in Int
        OBVIOUS
      <4> HIDE DEF AU
      <4>2. SumFunctionOnSet(f, AU \cup {x}) = SumFunctionOnSet(f, AU) + f[x]
        BY <3>3, <4>1, SumWith
      <4>3. QED
        BY <4>1, <4>2
    <3>8. f[x] \in Int
      OBVIOUS
    <3> HIDE DEF U, AU
    <3>9. QED
      BY <1>0, <3>4, <3>5, <3>6, <3>7, <3>8
  <2>3. QED
    BY <2>1, <2>2
<1> HIDE DEF Good
<1>2. B \in Good
  BY <1>1, SubsetInduction
<1>3. QED
  BY <1>2 DEF Good

\* A sum of naturals is a natural, and grows with its set.
LEMMA SumNat ==
    ASSUME NEW f, NEW S, IsFiniteSet(S), \A x \in S : f[x] \in Nat
    PROVE  SumFunctionOnSet(f, S) \in Nat
<1> DEFINE Good == {T \in SUBSET S : SumFunctionOnSet(f, T) \in Nat}
<1>1. ASSUME NEW T \in SUBSET S, \A U \in SUBSET T : U # T => U \in Good
      PROVE  T \in Good
  <2>1. CASE T = {}
    BY <2>1, SumEmpty
  <2>2. CASE T # {}
    <3> DEFINE U == T \ {AnyOf(T)}
    <3>1. AnyOf(T) \in S /\ U \in SUBSET T /\ U # T /\ IsFiniteSet(T)
      BY <2>2, AnyOfIn, FS_Subset
    <3>2. SumFunctionOnSet(f, T) = f[AnyOf(T)] + SumFunctionOnSet(f, U)
      BY <2>2, <3>1, SumPicked
    <3>3. SumFunctionOnSet(f, U) \in Nat
      BY <1>1, <3>1
    <3>4. QED
      BY <3>1, <3>2, <3>3
  <2>3. QED
    BY <2>1, <2>2
<1> HIDE DEF Good
<1>2. S \in Good
  BY <1>1, SubsetInduction
<1>3. QED
  BY <1>2 DEF Good

\* A part of naturals sums to no more than the whole.
LEMMA SumSubset ==
    ASSUME NEW f, NEW S, IsFiniteSet(S), \A x \in S : f[x] \in Nat,
           NEW T \in SUBSET S
    PROVE  SumFunctionOnSet(f, T) <= SumFunctionOnSet(f, S)
<1> DEFINE U == S \ T
<1>1. IsFiniteSet(T) /\ IsFiniteSet(U) /\ T \cap U = {} /\ S = T \cup U
      /\ \A y \in T \cup U : f[y] \in Int
  BY FS_Subset
<1>2. \A y \in U : f[y] \in Nat
  OBVIOUS
<1> HIDE DEF U
<1>3. SumFunctionOnSet(f, T \cup U)
          = SumFunctionOnSet(f, T) + SumFunctionOnSet(f, U)
  BY <1>1, SumUnion
<1>4. SumFunctionOnSet(f, T) \in Nat /\ SumFunctionOnSet(f, U) \in Nat
  BY <1>1, <1>2, SumNat
<1>5. QED
  BY <1>1, <1>3, <1>4

\* A sum of naturals is no less than any one of them.
LEMMA SumBounds ==
    ASSUME NEW f, NEW S, IsFiniteSet(S), \A x \in S : f[x] \in Nat, NEW x \in S
    PROVE  f[x] <= SumFunctionOnSet(f, S)
<1>1. SumFunctionOnSet(f, S) = f[x] + SumFunctionOnSet(f, S \ {x})
  BY SumWithout
<1>2. SumFunctionOnSet(f, S \ {x}) \in Nat
  <2> DEFINE T == S \ {x}
  <2>1. IsFiniteSet(T) /\ \A y \in T : f[y] \in Nat
    BY FS_Subset
  <2> HIDE DEF T
  <2>2. SumFunctionOnSet(f, T) \in Nat
    BY <2>1, SumNat
  <2>3. QED
    BY <2>2 DEF T
<1>3. QED
  BY <1>1, <1>2

\* g is f after a transfer of d from z to x, which may be the same.
Transfers(f, g, S, x, z, d) ==
    \A y \in S : g[y] = f[y] + (IF y = x THEN d ELSE 0) - (IF y = z THEN d ELSE 0)

\* A transfer leaves the sum as it was.
LEMMA SumTransfer ==
    ASSUME NEW f, NEW g, NEW S, IsFiniteSet(S), \A y \in S : f[y] \in Int,
           NEW x \in S, NEW z \in S, NEW d \in Int, Transfers(f, g, S, x, z, d)
    PROVE  SumFunctionOnSet(g, S) = SumFunctionOnSet(f, S)
<1>1. CASE x = z
  <2>1. \A y \in S : g[y] = f[y]
    BY <1>1 DEF Transfers
  <2>2. QED
    BY <2>1, SumAgree
<1>2. CASE x # z
  <2>1. g[x] = f[x] + d /\ g[z] = f[z] - d /\ f[x] \in Int /\ f[z] \in Int
    BY <1>2 DEF Transfers
  <2>2. \A y \in S : y # x /\ y # z => g[y] = f[y]
    BY DEF Transfers
  <2>3. SumFunctionOnSet(g, S)
            = SumFunctionOnSet(f, S) + (g[x] - f[x]) + (g[z] - f[z])
    BY <1>2, <2>1, <2>2, SumChangeTwo
  <2>4. SumFunctionOnSet(f, S) \in Int
    BY SumInt
  <2>5. QED
    BY <2>1, <2>3, <2>4
<1>3. QED
  BY <1>1, <1>2

\* A sum of zeros is zero.
LEMMA SumZero ==
    ASSUME NEW f, NEW S, IsFiniteSet(S), \A x \in S : f[x] = 0
    PROVE  SumFunctionOnSet(f, S) = 0
<1> DEFINE Good == {T \in SUBSET S : SumFunctionOnSet(f, T) = 0}
<1>1. ASSUME NEW T \in SUBSET S, \A U \in SUBSET T : U # T => U \in Good
      PROVE  T \in Good
  <2>1. CASE T = {}
    BY <2>1, SumEmpty
  <2>2. CASE T # {}
    <3> DEFINE U == T \ {AnyOf(T)}
    <3>1. AnyOf(T) \in S /\ U \in SUBSET T /\ U # T /\ IsFiniteSet(T)
      BY <2>2, AnyOfIn, FS_Subset
    <3>2. SumFunctionOnSet(f, T) = f[AnyOf(T)] + SumFunctionOnSet(f, U)
      BY <2>2, <3>1, SumPicked
    <3>3. SumFunctionOnSet(f, U) = 0
      BY <1>1, <3>1
    <3>4. QED
      BY <3>1, <3>2, <3>3
  <2>3. QED
    BY <2>1, <2>2
<1> HIDE DEF Good
<1>2. S \in Good
  BY <1>1, SubsetInduction
<1>3. QED
  BY <1>2 DEF Good

\* The sum over a part of a set is that of the function that is zero elsewhere.
LEMMA SumFilter ==
    ASSUME NEW f, NEW S, IsFiniteSet(S), NEW T \in SUBSET S,
           \A x \in T : f[x] \in Int,
           NEW g, \A x \in S : g[x] = IF x \in T THEN f[x] ELSE 0
    PROVE  SumFunctionOnSet(f, T) = SumFunctionOnSet(g, S)
<1> DEFINE U == S \ T
<1>1. /\ IsFiniteSet(T) /\ IsFiniteSet(U) /\ T \cap U = {} /\ S = T \cup U
      /\ \A x \in T \cup U : g[x] \in Int
      /\ \A x \in T : f[x] = g[x]
      /\ \A x \in U : g[x] = 0
  BY FS_Subset
<1> HIDE DEF U
<1>2. SumFunctionOnSet(g, T \cup U)
          = SumFunctionOnSet(g, T) + SumFunctionOnSet(g, U)
  BY <1>1, SumUnion
<1>3. SumFunctionOnSet(g, U) = 0
  BY <1>1, SumZero
<1>4. SumFunctionOnSet(f, T) = SumFunctionOnSet(g, T)
  BY <1>1, SumAgree
<1>5. SumFunctionOnSet(g, T) \in Int
  <2>1. \A x \in T : g[x] \in Int
    BY <1>1
  <2>2. QED
    BY <1>1, <2>1, SumInt
<1>6. QED
  BY <1>1, <1>2, <1>3, <1>4, <1>5

\* A function's sum is the sum over its domain.
LEMMA SumOfFunction ==
    ASSUME NEW f, NEW S, S = DOMAIN f
    PROVE  SumFunction(f) = SumFunctionOnSet(f, S)
BY DEF SumFunction
-----------------------------------------------------------------------------
(* Induction over numbers. *)

\* A finite set of integers has a least and a greatest member.
LEMMA LeastOf ==
    ASSUME NEW S, IsFiniteSet(S), S \subseteq Int, S # {}
    PROVE  \E n \in S : \A m \in S : n <= m
<1> DEFINE Good == {T \in SUBSET S : T # {} => \E n \in T : \A m \in T : n <= m}
<1>1. ASSUME NEW T \in SUBSET S, \A U \in SUBSET T : U # T => U \in Good
      PROVE  T \in Good
  <2>1. SUFFICES ASSUME NEW x \in T PROVE \E n \in T : \A m \in T : n <= m
    OBVIOUS
  <2> DEFINE U == {y \in T : y < x}
  <2>2. x \in Int /\ \A y \in T : y \in Int
    OBVIOUS
  <2>3. U \in SUBSET T /\ U # T
    BY <2>2
  <2>4. CASE U = {}
    <3>1. \A m \in T : x <= m
      BY <2>2, <2>4
    <3>2. QED
      BY <3>1
  <2>5. CASE U # {}
    <3>1. PICK n \in U : \A m \in U : n <= m
      BY <1>1, <2>3, <2>5
    <3>2. \A m \in T : n <= m
      BY <2>2, <3>1
    <3>3. QED
      BY <3>1, <3>2
  <2>6. QED
    BY <2>4, <2>5
<1> HIDE DEF Good
<1>2. S \in Good
  BY <1>1, SubsetInduction
<1>3. QED
  BY <1>2 DEF Good

LEMMA GreatestOf ==
    ASSUME NEW S, IsFiniteSet(S), S \subseteq Int, S # {}
    PROVE  \E n \in S : \A m \in S : m <= n
<1> DEFINE Good == {T \in SUBSET S : T # {} => \E n \in T : \A m \in T : m <= n}
<1>1. ASSUME NEW T \in SUBSET S, \A U \in SUBSET T : U # T => U \in Good
      PROVE  T \in Good
  <2>1. SUFFICES ASSUME NEW x \in T PROVE \E n \in T : \A m \in T : m <= n
    OBVIOUS
  <2> DEFINE U == {y \in T : y > x}
  <2>2. x \in Int /\ \A y \in T : y \in Int
    OBVIOUS
  <2>3. U \in SUBSET T /\ U # T
    BY <2>2
  <2>4. CASE U = {}
    <3>1. \A m \in T : m <= x
      BY <2>2, <2>4
    <3>2. QED
      BY <3>1
  <2>5. CASE U # {}
    <3>1. PICK n \in U : \A m \in U : m <= n
      BY <1>1, <2>3, <2>5
    <3>2. \A m \in T : m <= n
      BY <2>2, <3>1
    <3>3. QED
      BY <3>1, <3>2
  <2>6. QED
    BY <2>4, <2>5
<1> HIDE DEF Good
<1>2. S \in Good
  BY <1>1, SubsetInduction
<1>3. QED
  BY <1>2 DEF Good

\* If a number is good whenever all smaller ones are, all up to N are.
LEMMA NumberInduction ==
    ASSUME NEW N \in Nat, NEW Good,
           \A n \in 0 .. N : (\A m \in 0 .. N : m < n => m \in Good) => n \in Good
    PROVE  \A n \in 0 .. N : n \in Good
<1> DEFINE Bad == {n \in 0 .. N : n \notin Good}
<1>1. SUFFICES ASSUME Bad # {} PROVE FALSE
  OBVIOUS
<1>2. IsFiniteSet(Bad) /\ Bad \subseteq Int
  <2>1. IsFiniteSet(0 .. N)
    BY FS_Interval
  <2>2. QED
    BY <2>1, FS_Subset
<1>3. PICK n \in Bad : \A m \in Bad : n <= m
  <2> HIDE DEF Bad
  <2>1. QED
    BY <1>1, <1>2, LeastOf
<1>4. \A m \in 0 .. N : m < n => m \in Good
  BY <1>3
<1>5. QED
  BY <1>3, <1>4
=============================================================================
