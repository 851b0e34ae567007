----------------------------- MODULE SumTheorems -----------------------------
(***************************************************************************)
(* Sums of the values of a function over a finite set of indices: the      *)
(* facts about SumFunctionOnSet that the proofs about stock and totals use. *)
(* The provers cannot instantiate an induction theorem with a predicate,   *)
(* so induction is stated here for a set of subsets, and the equation of   *)
(* the recursive fold is proved from it.                                   *)
(***************************************************************************)
EXTENDS Integers, FiniteSetTheorems, Functions, TLAPS

-----------------------------------------------------------------------------
(* Induction.                                                              *)

\* A finite non-empty set of integers has a greatest element.
LEMMA Greatest ==
    ASSUME NEW X, IsFiniteSet(X), X \subseteq Int, X # {}
    PROVE  \E p \in X : \A q \in X : q <= p
<1> DEFINE Above(p) == {y \in X : y > p}
           T == {Above(p) : p \in X}
<1>1. IsWellFoundedOn(StrictSubsetOrdering(X), SUBSET X)
    BY FS_StrictSubsetOrderingWellFounded, FS_FiniteSubsetsOfFinite
<1>2. T \subseteq SUBSET X /\ T # {}
    OBVIOUS
<1>3. PICK U \in T : \A V \in T : <<V, U>> \notin StrictSubsetOrdering(X)
    <2> HIDE DEF T
    <2> QED BY <1>1, <1>2, WFMin
<1>4. PICK p \in X : U = Above(p)
    BY <1>3
<1>5. ASSUME NEW q \in X, q > p
      PROVE  FALSE
    <2>1. p \in Int /\ q \in Int
        OBVIOUS
    <2>2. \A y \in X : y > q => y > p
        BY <1>5, <2>1
    <2>3. ~(q > q)
        BY <2>1
    <2>4. q \in Above(p) /\ q \notin Above(q) /\ Above(q) \subseteq Above(p)
        BY <1>5, <2>2, <2>3, Zenon
    <2>5. <<Above(q), U>> \in StrictSubsetOrdering(X)
        BY <1>4, <2>4 DEF StrictSubsetOrdering
    <2> QED BY <1>3, <2>5
<1> QED BY <1>5

\* Induction up to n: a set of numbers that has 0 and the successor of each of
\* its members reaches n.
LEMMA UpTo ==
    ASSUME NEW n \in Nat, NEW G, 0 \in G,
           \A k \in 0 .. n - 1 : k \in G => k + 1 \in G
    PROVE  n \in G
<1> DEFINE X == G \cap (0 .. n)
<1>1. IsFiniteSet(X) /\ X \subseteq Int /\ 0 \in X
    <2>1. IsFiniteSet(0 .. n)
        BY FS_Interval
    <2> QED BY <2>1, FS_Subset
<1>2. PICK k \in X : \A q \in X : q <= k
    <2> HIDE DEF X
    <2> QED BY <1>1, Greatest
<1>3. k = n
    <2>1. k \in 0 .. n /\ k \in G
        OBVIOUS
    <2>2. SUFFICES ASSUME k # n PROVE FALSE
        OBVIOUS
    <2>3. k \in 0 .. n - 1 /\ k + 1 \in 0 .. n
        BY <2>1, <2>2
    <2>4. k + 1 \in X
        BY <2>1, <2>3
    <2> QED BY <1>2, <2>1, <2>4
<1> QED BY <1>3

\* Induction on a finite set: a family that has the empty set, and T with any
\* further element whenever it has T, has the whole set.
LEMMA SetInduction ==
    ASSUME NEW S, IsFiniteSet(S), NEW G, {} \in G,
           \A T \in SUBSET S, x \in S : T \in G /\ x \notin T => T \cup {x} \in G
    PROVE  S \in G
<1> DEFINE N == {k \in 0 .. Cardinality(S) :
                    \A T \in SUBSET S : Cardinality(T) <= k => T \in G}
<1>a. Cardinality(S) \in Nat
    BY FS_CardinalityType
<1>b. \A T \in SUBSET S : IsFiniteSet(T) /\ Cardinality(T) \in Nat
    BY FS_Subset, FS_CardinalityType
<1>1. 0 \in N
    <2> SUFFICES ASSUME NEW T \in SUBSET S, Cardinality(T) <= 0 PROVE T \in G
        BY <1>a
    <2>1. Cardinality(T) = 0
        BY <1>b
    <2> QED BY <1>b, <2>1, FS_EmptySet
<1>2. ASSUME NEW k \in 0 .. Cardinality(S) - 1, k \in N
      PROVE  k + 1 \in N
    <2> SUFFICES ASSUME NEW T \in SUBSET S, Cardinality(T) <= k + 1 PROVE T \in G
        BY <1>a
    <2>1. CASE T = {}
        BY <2>1
    <2>2. CASE T # {}
        <3>1. PICK x \in T : TRUE
            BY <2>2
        <3>2. T \ {x} \in SUBSET S /\ Cardinality(T \ {x}) = Cardinality(T) - 1
            BY <1>b, FS_RemoveElement
        <3>3. Cardinality(T \ {x}) <= k
            BY <1>b, <3>2
        <3>4. T \ {x} \in G
            BY <1>2, <3>2, <3>3
        <3>5. (T \ {x}) \cup {x} = T
            OBVIOUS
        <3> QED BY <3>2, <3>4, <3>5
    <2> QED BY <2>1, <2>2
<1>3. Cardinality(S) \in N
    <2> HIDE DEF N
    <2> QED BY <1>a, <1>1, <1>2, UpTo
<1> QED BY <1>a, <1>3

-----------------------------------------------------------------------------
(* The recursive equation.                                                 *)

\* What the fold adds up for the subset s, given its value for smaller ones.
Added(f, g, s) ==
    IF s = {} THEN 0 ELSE LET x == CHOOSE x \in s : TRUE IN f[x] + g[s \ {x}]

\* The function the fold recurses on.
Folded(f, S) == CHOOSE g : g = [s \in SUBSET S |-> Added(f, g, s)]

LEMMA SumIsFolded == ASSUME NEW f, NEW S PROVE SumFunctionOnSet(f, S) = Folded(f, S)[S]
BY DEF SumFunctionOnSet, FoldFunctionOnSet, MapThenFoldSet, Folded, Added

LEMMA AddedSame ==
    ASSUME NEW f, NEW g, NEW h, NEW s,
           s # {} => g[s \ {CHOOSE x \in s : TRUE}] = h[s \ {CHOOSE x \in s : TRUE}]
    PROVE  Added(f, g, s) = Added(f, h, s)
BY DEF Added

\* Taking the chosen element away leaves a smaller subset.
LEMMA Smaller ==
    ASSUME NEW S, IsFiniteSet(S), NEW s \in SUBSET S, s # {}, NEW k \in Nat, Cardinality(s) <= k + 1
    PROVE  LET u == s \ {CHOOSE x \in s : TRUE} IN u \in SUBSET S /\ Cardinality(u) <= k
<1>1. (CHOOSE x \in s : TRUE) \in s
    OBVIOUS
<1>2. IsFiniteSet(s) /\ Cardinality(s) \in Nat
    BY FS_Subset, FS_CardinalityType
<1> DEFINE x == CHOOSE x \in s : TRUE
<1>3. x \in s
    BY <1>1
<1> HIDE DEF x
<1>4. Cardinality(s \ {x}) = Cardinality(s) - 1
    BY <1>2, <1>3, FS_RemoveElement
<1>5. s \ {x} \in SUBSET S /\ Cardinality(s \ {x}) <= k
    BY <1>2, <1>4
<1> QED BY <1>5 DEF x

\* The recursion is well founded: the function exists.
LEMMA FoldedExists ==
    ASSUME NEW f, NEW S, IsFiniteSet(S)
    PROVE  \A s \in SUBSET S : Folded(f, S)[s] = Added(f, Folded(f, S), s)
<1> DEFINE Upto(g, k) == \A s \in SUBSET S : Cardinality(s) <= k => g[s] = Added(f, g, s)
           N == {k \in Nat : \E g : Upto(g, k)}
<1>a. Cardinality(S) \in Nat
    BY FS_CardinalityType
<1>b. \A s \in SUBSET S : IsFiniteSet(s) /\ Cardinality(s) \in Nat /\ Cardinality(s) <= Cardinality(S)
    BY FS_Subset, FS_CardinalityType
<1>1. 0 \in N
    <2> DEFINE g == [s \in SUBSET S |-> 0]
    <2>1. ASSUME NEW s \in SUBSET S, Cardinality(s) <= 0
          PROVE  g[s] = Added(f, g, s)
        <3>1. s = {}
            BY <1>b, <2>1, FS_EmptySet
        <3> QED BY <3>1 DEF Added
    <2>2. Upto(g, 0)
        BY <2>1
    <2> HIDE DEF g
    <2> QED BY <2>2
<1>2. ASSUME NEW k \in Nat, k \in N
      PROVE  k + 1 \in N
    <2>1. PICK g : Upto(g, k)
        BY <1>2
    <2> DEFINE h == [s \in SUBSET S |-> Added(f, g, s)]
    <2>2. ASSUME NEW s \in SUBSET S, Cardinality(s) <= k + 1
          PROVE  h[s] = Added(f, h, s)
        <3>1. CASE s = {}
            BY <3>1 DEF Added
        <3>2. CASE s # {}
            <4> DEFINE u == s \ {CHOOSE x \in s : TRUE}
            <4>1. u \in SUBSET S /\ Cardinality(u) <= k
                BY <2>2, <3>2, Smaller
            <4>2. g[u] = h[u]
                BY <2>1, <4>1
            <4> QED BY <4>2, AddedSame
        <3> QED BY <3>1, <3>2
    <2>3. Upto(h, k + 1)
        BY <2>2
    <2> HIDE DEF h
    <2> QED BY <2>3
<1>3. Cardinality(S) \in N
    <2> HIDE DEF N
    <2> QED BY <1>a, <1>1, <1>2, UpTo
<1>4. PICK g : Upto(g, Cardinality(S))
    BY <1>3
<1> DEFINE h == [s \in SUBSET S |-> Added(f, g, s)]
<1>5. ASSUME NEW s \in SUBSET S
      PROVE  h[s] = Added(f, h, s)
    <2>1. CASE s = {}
        BY <2>1 DEF Added
    <2>2. CASE s # {}
        <3> DEFINE u == s \ {CHOOSE x \in s : TRUE}
        <3>1. u \in SUBSET S
            OBVIOUS
        <3>2. g[u] = h[u]
            BY <1>b, <1>4, <3>1
        <3> QED BY <3>2, AddedSame
    <2> QED BY <2>1, <2>2
<1>6. h = [s \in SUBSET S |-> Added(f, h, s)]
    BY <1>5
<1>7. \E e : e = [s \in SUBSET S |-> Added(f, e, s)]
    <2> HIDE DEF h
    <2> QED BY <1>6
<1>8. Folded(f, S) = [s \in SUBSET S |-> Added(f, Folded(f, S), s)]
    BY <1>7 DEF Folded
<1> DEFINE F == Folded(f, S)
<1>9. F = [s \in SUBSET S |-> Added(f, F, s)]
    BY <1>8
<1> HIDE DEF F
<1>10. \A s \in SUBSET S : F[s] = Added(f, F, s)
    BY <1>9
<1> QED BY <1>10 DEF F

\* The recursion for a subset gives what the recursion for the whole set gives.
LEMMA FoldedSubset ==
    ASSUME NEW f, NEW S, IsFiniteSet(S), NEW T \in SUBSET S
    PROVE  Folded(f, T)[T] = Folded(f, S)[T]
<1> DEFINE g == Folded(f, T)
           h == Folded(f, S)
           N == {k \in Nat : \A s \in SUBSET T : Cardinality(s) <= k => g[s] = h[s]}
<1>a. IsFiniteSet(T) /\ Cardinality(T) \in Nat
    BY FS_Subset, FS_CardinalityType
<1>b. \A s \in SUBSET T : IsFiniteSet(s) /\ Cardinality(s) \in Nat
    BY <1>a, FS_Subset, FS_CardinalityType
<1>c. \A s \in SUBSET T : g[s] = Added(f, g, s) /\ h[s] = Added(f, h, s)
    BY <1>a, FoldedExists
<1> HIDE DEF g, h
<1>1. 0 \in N
    <2> SUFFICES ASSUME NEW s \in SUBSET T, Cardinality(s) <= 0 PROVE g[s] = h[s]
        OBVIOUS
    <2>1. s = {}
        BY <1>b, FS_EmptySet
    <2> QED BY <1>c, <2>1 DEF Added
<1>2. ASSUME NEW k \in Nat, k \in N
      PROVE  k + 1 \in N
    <2> SUFFICES ASSUME NEW s \in SUBSET T, Cardinality(s) <= k + 1 PROVE g[s] = h[s]
        OBVIOUS
    <2>1. s # {} => g[s \ {CHOOSE x \in s : TRUE}] = h[s \ {CHOOSE x \in s : TRUE}]
        BY <1>a, <1>2, Smaller
    <2> QED BY <1>c, <2>1, AddedSame
<1>3. Cardinality(T) \in N
    <2> HIDE DEF N
    <2> QED BY <1>a, <1>1, <1>2, UpTo
<1> QED BY <1>a, <1>3 DEF g, h

LEMMA SumEmpty == ASSUME NEW f PROVE SumFunctionOnSet(f, {}) = 0
<1>1. Folded(f, {})[{}] = Added(f, Folded(f, {}), {})
    BY FS_EmptySet, FoldedExists
<1> QED BY <1>1, SumIsFolded DEF Added

\* The equation of the fold.
LEMMA SumChosen ==
    ASSUME NEW f, NEW S, IsFiniteSet(S), S # {}
    PROVE  \E x \in S : SumFunctionOnSet(f, S) = f[x] + SumFunctionOnSet(f, S \ {x})
<1> DEFINE x == CHOOSE x \in S : TRUE
<1>1. x \in S
    OBVIOUS
<1>2. Folded(f, S)[S] = f[x] + Folded(f, S)[S \ {x}]
    <2> DEFINE g == Folded(f, S)
    <2>1. g[S] = Added(f, g, S)
        BY FoldedExists
    <2> HIDE DEF g
    <2>2. Added(f, g, S) = f[x] + g[S \ {x}]
        BY DEF Added
    <2> QED BY <2>1, <2>2 DEF g
<1>3. Folded(f, S \ {x})[S \ {x}] = Folded(f, S)[S \ {x}]
    BY FoldedSubset
<1>4. SumFunctionOnSet(f, S) = f[x] + SumFunctionOnSet(f, S \ {x})
    BY <1>2, <1>3, SumIsFolded
<1> HIDE DEF x
<1> QED BY <1>1, <1>4

-----------------------------------------------------------------------------
(* Sums of integers.                                                       *)

LEMMA SumType ==
    ASSUME NEW f, NEW S, IsFiniteSet(S), \A x \in S : f[x] \in Int
    PROVE  SumFunctionOnSet(f, S) \in Int
<1> DEFINE N == {k \in Nat : \A T \in SUBSET S :
                    Cardinality(T) <= k => SumFunctionOnSet(f, T) \in Int}
<1>a. Cardinality(S) \in Nat
    BY FS_CardinalityType
<1>b. \A T \in SUBSET S : IsFiniteSet(T) /\ Cardinality(T) \in Nat
    BY FS_Subset, FS_CardinalityType
<1>1. 0 \in N
    <2> SUFFICES ASSUME NEW T \in SUBSET S, Cardinality(T) <= 0 PROVE SumFunctionOnSet(f, T) \in Int
        OBVIOUS
    <2>1. T = {}
        BY <1>b, FS_EmptySet
    <2> QED BY <2>1, SumEmpty
<1>2. ASSUME NEW k \in Nat, k \in N
      PROVE  k + 1 \in N
    <2> SUFFICES ASSUME NEW T \in SUBSET S, Cardinality(T) <= k + 1, T # {}
                 PROVE  SumFunctionOnSet(f, T) \in Int
        BY SumEmpty
    <2>1. PICK x \in T : SumFunctionOnSet(f, T) = f[x] + SumFunctionOnSet(f, T \ {x})
        BY <1>b, SumChosen
    <2>2. Cardinality(T \ {x}) <= k
        BY <1>b, FS_RemoveElement
    <2>3. SumFunctionOnSet(f, T \ {x}) \in Int
        BY <1>2, <2>2
    <2> QED BY <2>1, <2>3
<1>3. Cardinality(S) \in N
    <2> HIDE DEF N
    <2> QED BY <1>a, <1>1, <1>2, UpTo
<1> QED BY <1>a, <1>3

\* The order of the summands does not matter: any of them can be taken out.
LEMMA SumRemove ==
    ASSUME NEW f, NEW S, IsFiniteSet(S), \A x \in S : f[x] \in Int, NEW y \in S
    PROVE  SumFunctionOnSet(f, S) = f[y] + SumFunctionOnSet(f, S \ {y})
<1> DEFINE N == {k \in Nat : \A T \in SUBSET S : \A z \in T :
                    Cardinality(T) <= k =>
                        SumFunctionOnSet(f, T) = f[z] + SumFunctionOnSet(f, T \ {z})}
<1>a. Cardinality(S) \in Nat
    BY FS_CardinalityType
<1>b. \A T \in SUBSET S : /\ IsFiniteSet(T) /\ Cardinality(T) \in Nat
                           /\ SumFunctionOnSet(f, T) \in Int
    BY FS_Subset, FS_CardinalityType, SumType
<1>1. 0 \in N
    <2> SUFFICES ASSUME NEW T \in SUBSET S, NEW z \in T, Cardinality(T) <= 0 PROVE FALSE
        OBVIOUS
    <2> QED BY <1>b, FS_EmptySet
<1>2. ASSUME NEW k \in Nat, k \in N
      PROVE  k + 1 \in N
    <2> SUFFICES ASSUME NEW T \in SUBSET S, NEW z \in T, Cardinality(T) <= k + 1
                 PROVE  SumFunctionOnSet(f, T) = f[z] + SumFunctionOnSet(f, T \ {z})
        OBVIOUS
    <2>1. PICK x \in T : SumFunctionOnSet(f, T) = f[x] + SumFunctionOnSet(f, T \ {x})
        BY <1>b, SumChosen
    <2>2. CASE x = z
        BY <2>1, <2>2
    <2>3. CASE x # z
        <3>1. \A w \in T : T \ {w} \in SUBSET S /\ Cardinality(T \ {w}) <= k
            BY <1>b, FS_RemoveElement
        <3>2. SumFunctionOnSet(f, T \ {x}) = f[z] + SumFunctionOnSet(f, (T \ {x}) \ {z})
            BY <1>2, <2>3, <3>1
        <3>3. SumFunctionOnSet(f, T \ {z}) = f[x] + SumFunctionOnSet(f, (T \ {z}) \ {x})
            BY <1>2, <2>3, <3>1
        <3>4. (T \ {x}) \ {z} = (T \ {z}) \ {x}
            OBVIOUS
        <3>5. SumFunctionOnSet(f, (T \ {z}) \ {x}) \in Int /\ f[x] \in Int /\ f[z] \in Int
            BY <1>b
        <3> DEFINE rest == SumFunctionOnSet(f, (T \ {z}) \ {x})
        <3>6. SumFunctionOnSet(f, T) = f[x] + (f[z] + rest)
            BY <2>1, <3>2, <3>4
        <3>7. SumFunctionOnSet(f, T \ {z}) = f[x] + rest
            BY <3>3
        <3> HIDE DEF rest
        <3> QED BY <3>5, <3>6, <3>7 DEF rest
    <2> QED BY <2>2, <2>3
<1>3. Cardinality(S) \in N
    <2> HIDE DEF N
    <2> QED BY <1>a, <1>1, <1>2, UpTo
<1> QED BY <1>a, <1>3

LEMMA SumAdd ==
    ASSUME NEW f, NEW S, IsFiniteSet(S), NEW y, y \notin S, \A x \in S \cup {y} : f[x] \in Int
    PROVE  SumFunctionOnSet(f, S \cup {y}) = f[y] + SumFunctionOnSet(f, S)
<1>1. IsFiniteSet(S \cup {y}) /\ (S \cup {y}) \ {y} = S
    BY FS_AddElement
<1> QED BY <1>1, SumRemove

\* Only the values on the set matter.
LEMMA SumSame ==
    ASSUME NEW f, NEW g, NEW S, IsFiniteSet(S), \A x \in S : f[x] \in Int /\ g[x] = f[x]
    PROVE  SumFunctionOnSet(g, S) = SumFunctionOnSet(f, S)
<1> DEFINE G == {T \in SUBSET S : SumFunctionOnSet(g, T) = SumFunctionOnSet(f, T)}
<1>1. {} \in G
    BY SumEmpty
<1>2. ASSUME NEW T \in SUBSET S, NEW x \in S, T \in G, x \notin T
      PROVE  T \cup {x} \in G
    <2>1. IsFiniteSet(T) /\ T \cup {x} \in SUBSET S
        BY FS_Subset
    <2>2. SumFunctionOnSet(f, T \cup {x}) = f[x] + SumFunctionOnSet(f, T)
        BY <1>2, <2>1, SumAdd
    <2>3. SumFunctionOnSet(g, T \cup {x}) = g[x] + SumFunctionOnSet(g, T)
        BY <1>2, <2>1, SumAdd
    <2> QED BY <1>2, <2>1, <2>2, <2>3
<1>3. S \in G
    <2> HIDE DEF G
    <2> QED BY <1>1, <1>2, SetInduction
<1> QED BY <1>3

\* A sum when one value is replaced.
LEMMA SumReplace ==
    ASSUME NEW f, NEW g, NEW S, IsFiniteSet(S), \A x \in S : f[x] \in Int, NEW y \in S,
           g[y] \in Int, \A x \in S \ {y} : g[x] = f[x]
    PROVE  SumFunctionOnSet(g, S) = SumFunctionOnSet(f, S) - f[y] + g[y]
<1>1. IsFiniteSet(S \ {y})
    BY FS_RemoveElement
<1>2. SumFunctionOnSet(f, S \ {y}) \in Int
    BY <1>1, SumType
<1>3. SumFunctionOnSet(g, S \ {y}) = SumFunctionOnSet(f, S \ {y})
    BY <1>1, SumSame
<1>4. SumFunctionOnSet(f, S) = f[y] + SumFunctionOnSet(f, S \ {y})
    BY SumRemove
<1>5. SumFunctionOnSet(g, S) = g[y] + SumFunctionOnSet(g, S \ {y})
    BY SumRemove
<1> QED BY <1>2, <1>3, <1>4, <1>5

LEMMA SumNat ==
    ASSUME NEW f, NEW S, IsFiniteSet(S), \A x \in S : f[x] \in Nat
    PROVE  SumFunctionOnSet(f, S) \in Nat
<1> DEFINE G == {T \in SUBSET S : SumFunctionOnSet(f, T) \in Nat}
<1>1. {} \in G
    BY SumEmpty
<1>2. ASSUME NEW T \in SUBSET S, NEW x \in S, T \in G, x \notin T
      PROVE  T \cup {x} \in G
    <2>1. IsFiniteSet(T) /\ T \cup {x} \in SUBSET S
        BY FS_Subset
    <2>2. SumFunctionOnSet(f, T \cup {x}) = f[x] + SumFunctionOnSet(f, T)
        BY <1>2, <2>1, SumAdd
    <2> QED BY <1>2, <2>1, <2>2
<1>3. S \in G
    <2> HIDE DEF G
    <2> QED BY <1>1, <1>2, SetInduction
<1> QED BY <1>3

\* No summand exceeds a sum of natural numbers.
LEMMA SumMember ==
    ASSUME NEW f, NEW S, IsFiniteSet(S), \A x \in S : f[x] \in Nat, NEW y \in S
    PROVE  f[y] <= SumFunctionOnSet(f, S)
<1>1. IsFiniteSet(S \ {y})
    BY FS_RemoveElement
<1>2. SumFunctionOnSet(f, S \ {y}) \in Nat
    BY <1>1, SumNat
<1>3. SumFunctionOnSet(f, S) = f[y] + SumFunctionOnSet(f, S \ {y})
    BY SumRemove
<1> QED BY <1>2, <1>3

\* A sum over two disjoint sets.
LEMMA SumUnion ==
    ASSUME NEW f, NEW R, NEW S, IsFiniteSet(R), IsFiniteSet(S), R \cap S = {},
           \A x \in R \cup S : f[x] \in Int
    PROVE  SumFunctionOnSet(f, R \cup S) = SumFunctionOnSet(f, R) + SumFunctionOnSet(f, S)
<1> DEFINE G == {T \in SUBSET S :
                    SumFunctionOnSet(f, R \cup T) = SumFunctionOnSet(f, R) + SumFunctionOnSet(f, T)}
<1>0. SumFunctionOnSet(f, R) \in Int
    BY SumType
<1>1. {} \in G
    <2>1. R \cup {} = R
        OBVIOUS
    <2> QED BY <1>0, <2>1, SumEmpty
<1>2. ASSUME NEW T \in SUBSET S, NEW x \in S, T \in G, x \notin T
      PROVE  T \cup {x} \in G
    <2>1. IsFiniteSet(T) /\ T \cup {x} \in SUBSET S
        BY FS_Subset
    <2>2. IsFiniteSet(R \cup T) /\ x \notin R \cup T /\ R \cup (T \cup {x}) = (R \cup T) \cup {x}
        BY <1>2, <2>1, FS_Union
    <2>3. SumFunctionOnSet(f, T \cup {x}) = f[x] + SumFunctionOnSet(f, T)
        BY <1>2, <2>1, SumAdd
    <2>4. SumFunctionOnSet(f, (R \cup T) \cup {x}) = f[x] + SumFunctionOnSet(f, R \cup T)
        BY <1>2, <2>2, SumAdd
    <2>5. SumFunctionOnSet(f, T) \in Int /\ f[x] \in Int
        BY <2>1, SumType
    <2>6. SumFunctionOnSet(f, R \cup T) = SumFunctionOnSet(f, R) + SumFunctionOnSet(f, T)
        BY <1>2
    <2>7. SumFunctionOnSet(f, R \cup (T \cup {x}))
            = SumFunctionOnSet(f, R) + SumFunctionOnSet(f, T \cup {x})
        <3> DEFINE a == SumFunctionOnSet(f, R)
                   b == SumFunctionOnSet(f, T)
        <3>1. SumFunctionOnSet(f, R \cup (T \cup {x})) = f[x] + (a + b)
            BY <2>2, <2>4, <2>6
        <3>2. SumFunctionOnSet(f, T \cup {x}) = f[x] + b
            BY <2>3
        <3>3. a \in Int /\ b \in Int /\ f[x] \in Int
            BY <1>0, <2>5
        <3> HIDE DEF a, b
        <3>4. f[x] + (a + b) = a + (f[x] + b)
            BY <3>3
        <3> QED BY <3>1, <3>2, <3>4 DEF a
    <2> QED BY <2>1, <2>7
<1>3. S \in G
    <2> HIDE DEF G
    <2> QED BY <1>1, <1>2, SetInduction
<1> QED BY <1>3

\* A common factor.
LEMMA SumScale ==
    ASSUME NEW f, NEW g, NEW S, IsFiniteSet(S), NEW c \in Int,
           \A x \in S : f[x] \in Int /\ g[x] = c * f[x]
    PROVE  SumFunctionOnSet(g, S) = c * SumFunctionOnSet(f, S)
<1> DEFINE G == {T \in SUBSET S : SumFunctionOnSet(g, T) = c * SumFunctionOnSet(f, T)}
<1>0. \A a, b \in Int : c * (a + b) = c * a + c * b /\ c * a \in Int /\ c * 0 = 0
    OBVIOUS
<1>1. {} \in G
    BY <1>0, SumEmpty
<1>2. ASSUME NEW T \in SUBSET S, NEW x \in S, T \in G, x \notin T
      PROVE  T \cup {x} \in G
    <2>1. IsFiniteSet(T) /\ T \cup {x} \in SUBSET S
        BY FS_Subset
    <2>2. SumFunctionOnSet(f, T \cup {x}) = f[x] + SumFunctionOnSet(f, T)
        BY <1>2, <2>1, SumAdd
    <2>3. \A y \in S : g[y] \in Int
        BY <1>0
    <2>4. SumFunctionOnSet(g, T \cup {x}) = g[x] + SumFunctionOnSet(g, T)
        BY <1>2, <2>1, <2>3, SumAdd
    <2>5. SumFunctionOnSet(f, T) \in Int /\ f[x] \in Int
        BY <2>1, SumType
    <2>6. SumFunctionOnSet(g, T) = c * SumFunctionOnSet(f, T) /\ g[x] = c * f[x]
        BY <1>2
    <2>7. SumFunctionOnSet(g, T \cup {x}) = c * SumFunctionOnSet(f, T \cup {x})
        BY <1>0, <2>2, <2>4, <2>5, <2>6
    <2> QED BY <2>1, <2>7
<1>3. S \in G
    <2> HIDE DEF G
    <2> QED BY <1>1, <1>2, SetInduction
<1> QED BY <1>3

\* A sum over R that grows by c times what q adds up to on T.
LEMMA SumMore ==
    ASSUME NEW f, NEW g, NEW q, NEW R, NEW T, IsFiniteSet(R), IsFiniteSet(T), R \cap T = {},
           NEW c \in Int,
           \A x \in R : f[x] \in Int /\ g[x] = f[x],
           \A x \in T : q[x] \in Int /\ g[x] = c * q[x]
    PROVE  SumFunctionOnSet(g, R \cup T) = SumFunctionOnSet(f, R) + c * SumFunctionOnSet(q, T)
<1>1. SumFunctionOnSet(g, R) = SumFunctionOnSet(f, R)
    BY SumSame
<1>2. SumFunctionOnSet(g, T) = c * SumFunctionOnSet(q, T)
    BY SumScale
<1>3. \A x \in R \cup T : g[x] \in Int
    OBVIOUS
<1>4. SumFunctionOnSet(g, R \cup T) = SumFunctionOnSet(g, R) + SumFunctionOnSet(g, T)
    BY <1>3, SumUnion
<1> QED BY <1>1, <1>2, <1>4

\* A bound on the summands bounds the sum.
LEMMA SumBound ==
    ASSUME NEW f, NEW S, IsFiniteSet(S), NEW c \in Nat,
           \A x \in S : f[x] \in Int /\ f[x] <= c
    PROVE  SumFunctionOnSet(f, S) <= c * Cardinality(S)
<1> DEFINE G == {T \in SUBSET S : SumFunctionOnSet(f, T) <= c * Cardinality(T)}
<1>0. \A n \in Nat : c * (n + 1) = c * n + c /\ c * n \in Nat /\ c * 0 = 0
    OBVIOUS
<1>1. {} \in G
    BY <1>0, SumEmpty, FS_EmptySet
<1>2. ASSUME NEW T \in SUBSET S, NEW x \in S, T \in G, x \notin T
      PROVE  T \cup {x} \in G
    <2>1. IsFiniteSet(T) /\ T \cup {x} \in SUBSET S
        BY FS_Subset
    <2>2. SumFunctionOnSet(f, T \cup {x}) = f[x] + SumFunctionOnSet(f, T)
        BY <1>2, <2>1, SumAdd
    <2>3. Cardinality(T) \in Nat /\ Cardinality(T \cup {x}) = Cardinality(T) + 1
        BY <1>2, <2>1, FS_CardinalityType, FS_AddElement
    <2>4. SumFunctionOnSet(f, T) \in Int /\ f[x] \in Int /\ f[x] <= c
        BY <2>1, SumType
    <2>5. c * Cardinality(T \cup {x}) = c * Cardinality(T) + c /\ c * Cardinality(T) \in Nat
        BY <1>0, <2>3
    <2>6. SumFunctionOnSet(f, T \cup {x}) <= c * Cardinality(T \cup {x})
        <3>1. SumFunctionOnSet(f, T) <= c * Cardinality(T)
            BY <1>2
        <3> QED BY <2>2, <2>4, <2>5, <3>1
    <2> QED BY <2>1, <2>6
<1>3. S \in G
    <2> HIDE DEF G
    <2> QED BY <1>1, <1>2, SetInduction
<1> QED BY <1>3

-----------------------------------------------------------------------------
(* Sums in a word: congruence modulo m.                                    *)

Congruent(a, b, m) == \E k \in Int : a = b + k * m

LEMMA CongruentPlus ==
    ASSUME NEW m \in Int, NEW a \in Int, NEW b \in Int, NEW c \in Int, NEW d \in Int,
           Congruent(a, b, m), Congruent(c, d, m)
    PROVE  Congruent(a + c, b + d, m)
<1>1. PICK k \in Int : a = b + k * m
    BY DEF Congruent
<1>2. PICK l \in Int : c = d + l * m
    BY DEF Congruent
<1>3. k * m \in Int /\ l * m \in Int /\ (k + l) * m = k * m + l * m
    OBVIOUS
<1>4. a + c = (b + d) + (k + l) * m /\ k + l \in Int
    BY <1>1, <1>2, <1>3
<1> QED BY <1>4 DEF Congruent

LEMMA CongruentTimes ==
    ASSUME NEW m \in Int, NEW a \in Int, NEW b \in Int, NEW c \in Int, Congruent(a, b, m)
    PROVE  Congruent(c * a, c * b, m)
<1>1. PICK k \in Int : a = b + k * m
    BY DEF Congruent
<1>2. c * (b + k * m) = c * b + (c * k) * m /\ c * k \in Int
    OBVIOUS
<1> QED BY <1>1, <1>2 DEF Congruent

LEMMA CongruentSame ==
    ASSUME NEW m \in Int, NEW a \in Int, NEW b \in Int, Congruent(a, b, m)
    PROVE  Congruent(b, a, m)
<1>1. PICK k \in Int : a = b + k * m
    BY DEF Congruent
<1>2. k * m \in Int /\ (-k) * m = -(k * m) /\ -k \in Int
    OBVIOUS
<1>3. b = a + (-k) * m
    BY <1>1, <1>2
<1> QED BY <1>2, <1>3 DEF Congruent

LEMMA CongruentTrans ==
    ASSUME NEW m \in Int, NEW a \in Int, NEW b \in Int, NEW c \in Int,
           Congruent(a, b, m), Congruent(b, c, m)
    PROVE  Congruent(a, c, m)
<1>1. PICK k \in Int : a = b + k * m
    BY DEF Congruent
<1>2. PICK l \in Int : b = c + l * m
    BY DEF Congruent
<1>3. k * m \in Int /\ l * m \in Int /\ (k + l) * m = k * m + l * m
    OBVIOUS
<1>4. a = c + (k + l) * m /\ k + l \in Int
    BY <1>1, <1>2, <1>3
<1> QED BY <1>4 DEF Congruent

\* Summands that agree modulo m have sums that do.
LEMMA SumCongruent ==
    ASSUME NEW f, NEW g, NEW S, IsFiniteSet(S), NEW m \in Int,
           \A x \in S : f[x] \in Int /\ g[x] \in Int /\ Congruent(f[x], g[x], m)
    PROVE  Congruent(SumFunctionOnSet(f, S), SumFunctionOnSet(g, S), m)
<1> DEFINE G == {T \in SUBSET S : Congruent(SumFunctionOnSet(f, T), SumFunctionOnSet(g, T), m)}
<1>1. {} \in G
    <2>1. 0 = 0 + 0 * m
        OBVIOUS
    <2>2. Congruent(0, 0, m)
        BY <2>1 DEF Congruent
    <2> QED BY <2>2, SumEmpty
<1>2. ASSUME NEW T \in SUBSET S, NEW x \in S, T \in G, x \notin T
      PROVE  T \cup {x} \in G
    <2>1. IsFiniteSet(T) /\ T \cup {x} \in SUBSET S
        BY FS_Subset
    <2>2. SumFunctionOnSet(f, T \cup {x}) = f[x] + SumFunctionOnSet(f, T)
        BY <1>2, <2>1, SumAdd
    <2>3. SumFunctionOnSet(g, T \cup {x}) = g[x] + SumFunctionOnSet(g, T)
        BY <1>2, <2>1, SumAdd
    <2>4. SumFunctionOnSet(f, T) \in Int /\ SumFunctionOnSet(g, T) \in Int
        BY <2>1, SumType
    <2>5. Congruent(f[x] + SumFunctionOnSet(f, T), g[x] + SumFunctionOnSet(g, T), m)
        BY <1>2, <2>4, CongruentPlus
    <2> QED BY <2>1, <2>2, <2>3, <2>5
<1>3. S \in G
    <2> HIDE DEF G
    <2> QED BY <1>1, <1>2, SetInduction
<1> QED BY <1>3
=============================================================================
