------------------------------ MODULE SumProofs ------------------------------
(* Sums over finite sets. SumFunctionOnSet is a fold, which takes the        *)
(* elements in the order CHOOSE has them; the lemmas show that the order is  *)
(* of no consequence. Each looks at a smallest set for which it failed.      *)
EXTENDS Integers, FiniteSets, Functions, FiniteSetTheorems, WellFoundedInduction, TLAPS

Picked(s) == CHOOSE x \in s : TRUE

Folds(a, f, S) ==
    f = [s \in SUBSET S |->
            IF s = {} THEN 0 ELSE a[Picked(s)] + f[s \ {Picked(s)}]]

LEMMA SumIsFold ==
    ASSUME NEW a, NEW S
    PROVE  SumFunctionOnSet(a, S) = (CHOOSE f : Folds(a, f, S))[S]
BY DEF SumFunctionOnSet, FoldFunctionOnSet, MapThenFoldSet, Folds, Picked

\* A non-empty set of subsets of a finite set has a smallest element.
LEMMA Smallest ==
    ASSUME NEW S, IsFiniteSet(S), NEW B, B \subseteq SUBSET S, B # {}
    PROVE  \E T \in B : \A U \in B : ~(U \subseteq T /\ U # T)
<1> DEFINE R == StrictSubsetOrdering(S)
           F == FiniteSubsetsOf(S)
<1>1. IsWellFoundedOn(R, F)
  BY FS_StrictSubsetOrderingWellFounded
<1>2. B \subseteq F
  BY FS_Subset DEF FiniteSubsetsOf
<1>3. \E T \in B : \A U \in B : ~(<<U, T>> \in R)
  <2> HIDE DEF R, F
  <2> QED
    BY <1>1, <1>2, WFMin
<1> QED
  BY <1>3 DEF StrictSubsetOrdering

LEMMA PickedIn ==
    ASSUME NEW s, s # {}
    PROVE  Picked(s) \in s
BY DEF Picked

LEMMA FoldsAt ==
    ASSUME NEW a, NEW S, NEW f, Folds(a, f, S), NEW T \in SUBSET S
    PROVE  f[T] = IF T = {} THEN 0 ELSE a[Picked(T)] + f[T \ {Picked(T)}]
BY DEF Folds

\* Two folds agree wherever both are defined.
LEMMA FoldsAgree ==
    ASSUME NEW a, NEW S, IsFiniteSet(S), NEW T, NEW f, NEW g, Folds(a, f, S), Folds(a, g, T),
           NEW U, U \subseteq S, U \subseteq T
    PROVE  f[U] = g[U]
<1> DEFINE B == {V \in SUBSET S : V \subseteq T /\ f[V] # g[V]}
<1>1. SUFFICES B = {}
  OBVIOUS
<1>2. SUFFICES ASSUME B # {} PROVE FALSE
  OBVIOUS
<1>3. PICK V \in B : \A W \in B : ~(W \subseteq V /\ W # V)
  <2>1. B \subseteq SUBSET S
    OBVIOUS
  <2> HIDE DEF B
  <2> QED
    BY <1>2, <2>1, Smallest
<1>a. V \in SUBSET S /\ V \in SUBSET T
  BY <1>3
<1>4. V # {}
  <2>1. V = {} => f[V] = 0 /\ g[V] = 0
    BY <1>a, FoldsAt
  <2> QED
    BY <1>3, <2>1
<1>5. Picked(V) \in V
  BY <1>4, PickedIn
<1>6. f[V \ {Picked(V)}] = g[V \ {Picked(V)}]
  BY <1>3, <1>5
<1>7. f[V] = a[Picked(V)] + f[V \ {Picked(V)}]
  BY <1>a, <1>4, FoldsAt
<1>8. g[V] = a[Picked(V)] + g[V \ {Picked(V)}]
  BY <1>a, <1>4, FoldsAt
<1> QED
  BY <1>3, <1>6, <1>7, <1>8

\* Every finite set has a fold.
LEMMA FoldExists ==
    ASSUME NEW a, NEW S, IsFiniteSet(S)
    PROVE  \E f : Folds(a, f, S)
<1> DEFINE B == {V \in SUBSET S : ~\E f : Folds(a, f, V)}
<1>1. SUFFICES ASSUME B # {} PROVE FALSE
  OBVIOUS
<1>2. PICK T \in B : \A W \in B : ~(W \subseteq T /\ W # T)
  <2>1. B \subseteq SUBSET S
    OBVIOUS
  <2> HIDE DEF B
  <2> QED
    BY <1>1, <2>1, Smallest
<1> DEFINE F(V) == CHOOSE f : Folds(a, f, V)
           G(V) == IF V = {} THEN 0
                   ELSE a[Picked(V)] + F(V \ {Picked(V)})[V \ {Picked(V)}]
           g == [V \in SUBSET T |-> G(V)]
<1>3. ASSUME NEW V, V \subseteq T, V # T PROVE Folds(a, F(V), V)
  <2>1. \E f : Folds(a, f, V)
    BY <1>2, <1>3
  <2> QED
    BY <2>1
<1>4. \A V \in SUBSET T : IsFiniteSet(V)
  BY <1>2, FS_Subset
<1> HIDE DEF F
<1>5. ASSUME NEW V, V \subseteq T, V # T PROVE F(V)[V] = G(V)
  <2>1. CASE V = {}
    <3>1. Folds(a, F(V), V)
      BY <1>3, <1>5
    <3>2. F(V)[V] = 0
      BY <2>1, <3>1, FoldsAt
    <3> QED
      BY <2>1, <3>2
  <2>2. CASE V # {}
    <3> DEFINE W == V \ {Picked(V)}
    <3>1. W \subseteq V /\ W \subseteq T /\ W # T
      BY <1>5
    <3>2. Folds(a, F(V), V) /\ Folds(a, F(W), W) /\ IsFiniteSet(V)
      BY <1>3, <1>4, <1>5, <3>1
    <3>3. F(V)[W] = F(W)[W]
      <4> HIDE DEF W
      <4> QED
        BY <3>1, <3>2, FoldsAgree
    <3>4. F(V)[V] = a[Picked(V)] + F(V)[W]
      BY <2>2, <3>2, FoldsAt
    <3> QED
      BY <2>2, <3>3, <3>4
  <2> QED
    BY <2>1, <2>2
<1>6. ASSUME NEW V \in SUBSET T
      PROVE  g[V] = IF V = {} THEN 0 ELSE a[Picked(V)] + g[V \ {Picked(V)}]
  <2>1. CASE V = {}
    BY <2>1
  <2>2. CASE V # {}
    <3> DEFINE W == V \ {Picked(V)}
    <3>1. W \subseteq T /\ W # T
      BY <2>2, PickedIn
    <3>2. F(W)[W] = G(W) /\ g[W] = G(W)
      BY <1>5, <3>1
    <3> QED
      BY <2>2, <3>2
  <2> QED
    BY <2>1, <2>2
<1>7. Folds(a, g, T)
  <2> HIDE DEF G
  <2>1. g = [V \in SUBSET T |-> g[V]]
    OBVIOUS
  <2> HIDE DEF g
  <2> QED
    BY <1>6, <2>1 DEF Folds
<1> QED
  BY <1>2, <1>7

LEMMA FoldsNat ==
    ASSUME NEW a, NEW S, IsFiniteSet(S), \A i \in S : a[i] \in Nat, NEW f, Folds(a, f, S)
    PROVE  \A T \in SUBSET S : f[T] \in Nat
<1> DEFINE B == {V \in SUBSET S : f[V] \notin Nat}
<1>1. SUFFICES ASSUME B # {} PROVE FALSE
  OBVIOUS
<1>2. PICK V \in B : \A W \in B : ~(W \subseteq V /\ W # V)
  <2>1. B \subseteq SUBSET S
    OBVIOUS
  <2> HIDE DEF B
  <2> QED
    BY <1>1, <2>1, Smallest
<1>3. V # {}
  <2>1. V \in SUBSET S /\ f[V] \notin Nat
    BY <1>2
  <2>2. V = {} => f[V] = 0
    BY <2>1, FoldsAt
  <2> QED
    BY <2>1, <2>2
<1>4. Picked(V) \in V
  BY <1>3, PickedIn
<1>5. f[V \ {Picked(V)}] \in Nat
  BY <1>2, <1>4
<1>6. a[Picked(V)] \in Nat
  BY <1>2, <1>4
<1>7. f[V] = a[Picked(V)] + f[V \ {Picked(V)}]
  <2>1. V \in SUBSET S
    BY <1>2
  <2>2. f[V] = IF V = {} THEN 0 ELSE a[Picked(V)] + f[V \ {Picked(V)}]
    BY <2>1, FoldsAt
  <2> QED
    BY <1>3, <2>2
<1> QED
  BY <1>2, <1>5, <1>6, <1>7

\* Adding an element adds its amount, whichever element the fold begins with.
LEMMA FoldsAdd ==
    ASSUME NEW a, NEW S, IsFiniteSet(S), \A i \in S : a[i] \in Nat, NEW f, Folds(a, f, S),
           NEW U \in SUBSET S, NEW i \in S, i \notin U
    PROVE  f[U \cup {i}] = a[i] + f[U]
<1> DEFINE Adds(V, j) == f[V] = a[j] + f[V \ {j}]
           B == {V \in SUBSET S : \E j \in V : ~Adds(V, j)}
<1>1. SUFFICES B = {}
  <2>1. Adds(U \cup {i}, i)
    BY <1>1
  <2>2. (U \cup {i}) \ {i} = U
    OBVIOUS
  <2> QED
    BY <2>1, <2>2
<1>2. SUFFICES ASSUME B # {} PROVE FALSE
  OBVIOUS
<1>3. PICK V \in B : \A W \in B : ~(W \subseteq V /\ W # V)
  <2>1. B \subseteq SUBSET S
    OBVIOUS
  <2> HIDE DEF B
  <2> QED
    BY <1>2, <2>1, Smallest
<1>4. PICK j \in V : ~Adds(V, j)
  BY <1>3
<1> DEFINE x == Picked(V)
<1>5. x \in V /\ Adds(V, x)
  BY <1>3, <1>4, PickedIn, FoldsAt
<1>6. j # x
  BY <1>4, <1>5
<1>7. Adds(V \ {x}, j) /\ Adds(V \ {j}, x)
  <2>1. V \ {x} \notin B /\ V \ {j} \notin B
    BY <1>3, <1>4, <1>5
  <2>2. V \ {x} \in SUBSET S /\ V \ {j} \in SUBSET S /\ j \in V \ {x} /\ x \in V \ {j}
    BY <1>3, <1>4, <1>5, <1>6
  <2> QED
    BY <2>1, <2>2
<1>8. (V \ {x}) \ {j} = (V \ {j}) \ {x}
  OBVIOUS
<1> DEFINE W == (V \ {j}) \ {x}
<1>9. a[x] \in Nat /\ a[j] \in Nat /\ f[W] \in Nat
  <2>1. x \in S /\ j \in S /\ W \in SUBSET S
    BY <1>3, <1>4, <1>5
  <2> QED
    BY <2>1, FoldsNat
<1>10. /\ f[V] = a[x] + f[V \ {x}]
       /\ f[V \ {x}] = a[j] + f[W]
       /\ f[V \ {j}] = a[x] + f[W]
  BY <1>5, <1>7, <1>8
<1>11. f[V] = a[j] + f[V \ {j}]
  <2> HIDE DEF W, x
  <2> QED
    BY <1>9, <1>10
<1> QED
  BY <1>4, <1>11

\* The sum of a finite set of naturals, and of the set with one element more.
LEMMA SumFacts ==
    ASSUME NEW a, NEW S, IsFiniteSet(S), \A i \in S : a[i] \in Nat
    PROVE  SumFunctionOnSet(a, S) \in Nat
<1> DEFINE F(V) == CHOOSE f : Folds(a, f, V)
<1>1. Folds(a, F(S), S)
  BY FoldExists
<1>2. SumFunctionOnSet(a, S) = F(S)[S]
  BY SumIsFold
<1> HIDE DEF F
<1> QED
  BY <1>1, <1>2, FoldsNat

LEMMA SumAdds ==
    ASSUME NEW a, NEW S, IsFiniteSet(S), NEW i, i \notin S,
           \A j \in S \cup {i} : a[j] \in Nat
    PROVE  SumFunctionOnSet(a, S \cup {i}) = SumFunctionOnSet(a, S) + a[i]
<1> DEFINE F(V) == CHOOSE f : Folds(a, f, V)
           T == S \cup {i}
<1>1. \A V : IsFiniteSet(V) => Folds(a, F(V), V)
  BY FoldExists
<1>2. \A V : SumFunctionOnSet(a, V) = F(V)[V]
  BY SumIsFold
<1> HIDE DEF F
<1>3. SumFunctionOnSet(a, S) \in Nat
  BY SumFacts
<1>4. IsFiniteSet(T) /\ S \in SUBSET T /\ i \in T
  BY FS_AddElement
<1>5. F(T)[T] = a[i] + F(T)[S]
  BY <1>1, <1>4, FoldsAdd
<1>6. F(T)[S] = F(S)[S]
  <2>1. Folds(a, F(T), T) /\ Folds(a, F(S), S)
    BY <1>1, <1>4
  <2> HIDE DEF T
  <2> QED
    BY <1>4, <2>1, FoldsAgree
<1> QED
  BY <1>2, <1>3, <1>5, <1>6

LEMMA SumOfNone ==
    ASSUME NEW a
    PROVE  SumFunctionOnSet(a, {}) = 0
<1> DEFINE F == CHOOSE f : Folds(a, f, {})
<1>1. Folds(a, F, {})
  BY FoldExists, FS_EmptySet
<1>2. SumFunctionOnSet(a, {}) = F[{}]
  BY SumIsFold
<1> QED
  BY <1>1, <1>2 DEF Folds

\* Only the values on the set matter.
LEMMA SumOfSame ==
    ASSUME NEW a, NEW b, NEW S, IsFiniteSet(S),
           \A i \in S : a[i] \in Nat /\ b[i] = a[i]
    PROVE  SumFunctionOnSet(a, S) = SumFunctionOnSet(b, S)
<1> DEFINE B == {V \in SUBSET S : SumFunctionOnSet(a, V) # SumFunctionOnSet(b, V)}
<1>1. SUFFICES ASSUME B # {} PROVE FALSE
  OBVIOUS
<1>2. PICK V \in B : \A W \in B : ~(W \subseteq V /\ W # V)
  <2>1. B \subseteq SUBSET S
    OBVIOUS
  <2> HIDE DEF B
  <2> QED
    BY <1>1, <2>1, Smallest
<1>3. V # {}
  BY <1>2, SumOfNone
<1>4. PICK i : i \in V
  BY <1>3
<1> DEFINE W == V \ {i}
<1>5. SumFunctionOnSet(a, W) = SumFunctionOnSet(b, W)
  BY <1>2, <1>4
<1>6. IsFiniteSet(W) /\ i \notin W /\ W \cup {i} = V /\ V \subseteq S
  BY <1>2, <1>4, FS_Subset
<1>7. \A j \in V : a[j] \in Nat /\ b[j] = a[j]
  BY <1>6
<1> HIDE DEF W
<1>8. SumFunctionOnSet(a, V) = SumFunctionOnSet(a, W) + a[i]
  BY <1>6, <1>7, SumAdds
<1>9. SumFunctionOnSet(b, V) = SumFunctionOnSet(b, W) + b[i]
  BY <1>6, <1>7, SumAdds
<1> QED
  BY <1>2, <1>4, <1>5, <1>7, <1>8, <1>9

-----------------------------------------------------------------------------
(* Sums over the first elements of a sequence.                              *)

\* A non-empty set of naturals has a least element.
LEMMA LeastNatural ==
    ASSUME NEW S, S \subseteq Nat, S # {}
    PROVE  \E n \in S : \A m \in S : n <= m
<1> DEFINE R == OpToRel(<, Nat)
<1>1. IsWellFoundedOn(R, Nat)
  BY NatLessThanWellFounded
<1>2. \E n \in S : \A m \in S : ~(<<m, n>> \in R)
  <2> HIDE DEF R
  <2> QED
    BY <1>1, WFMin
<1>3. \A m, n \in Nat : <<m, n>> \in R <=> m < n
  BY DEF OpToRel
<1> HIDE DEF R
<1>4. PICK n \in S : \A m \in S : ~(<<m, n>> \in R)
  BY <1>2
<1>5. ASSUME NEW m \in S PROVE n <= m
  <2>1. m \in Nat /\ n \in Nat
    OBVIOUS
  <2>2. ~(m < n)
    BY <1>3, <1>4, <2>1
  <2> QED
    BY <2>1, <2>2
<1> QED
  BY <1>5

LEMMA FirstPlusOne ==
    ASSUME NEW n \in Nat, n > 0
    PROVE  /\ IsFiniteSet(1..(n - 1)) /\ n \notin 1..(n - 1)
           /\ 1..n = (1..(n - 1)) \cup {n}
<1>1. n - 1 \in Nat
  OBVIOUS
<1>2. IsFiniteSet(1..(n - 1))
  BY <1>1, FS_Interval
<1>3. 1..n = (1..(n - 1)) \cup {n}
  OBVIOUS
<1> QED
  BY <1>2, <1>3

LEMMA SumOfFirst ==
    ASSUME NEW f, NEW n \in Nat, \A i \in 1..n : f[i] \in Nat
    PROVE  SumFunctionOnSet(f, 1..n) \in Nat
<1>1. IsFiniteSet(1..n)
  BY FS_Interval
<1> QED
  BY <1>1, SumFacts

LEMMA SumOfNext ==
    ASSUME NEW f, NEW n \in Nat, n > 0, \A i \in 1..n : f[i] \in Nat
    PROVE  SumFunctionOnSet(f, 1..n) = SumFunctionOnSet(f, 1..(n - 1)) + f[n]
<1> DEFINE S == 1..(n - 1)
<1>1. IsFiniteSet(S) /\ n \notin S /\ 1..n = S \cup {n}
  BY FirstPlusOne
<1>2. \A i \in S \cup {n} : f[i] \in Nat
  BY <1>1
<1>3. SumFunctionOnSet(f, S \cup {n}) = SumFunctionOnSet(f, S) + f[n]
  <2> HIDE DEF S
  <2> QED
    BY <1>1, <1>2, SumAdds
<1> QED
  BY <1>1, <1>3

LEMMA SumOfOne ==
    ASSUME NEW f, f[1] \in Nat
    PROVE  SumFunctionOnSet(f, 1..1) = f[1]
<1>1. \A i \in {} \cup {1} : f[i] \in Nat
  OBVIOUS
<1>2. SumFunctionOnSet(f, {} \cup {1}) = SumFunctionOnSet(f, {}) + f[1]
  BY <1>1, SumAdds, FS_EmptySet
<1>3. SumFunctionOnSet(f, {}) = 0 /\ 1..1 = {} \cup {1}
  BY SumOfNone
<1> QED
  BY <1>2, <1>3

LEMMA SumOfZeros ==
    ASSUME NEW f, NEW N \in Nat, \A i \in 1..N : f[i] = 0
    PROVE  SumFunctionOnSet(f, 1..N) = 0
<1> DEFINE B == {n \in 0..N : SumFunctionOnSet(f, 1..n) # 0}
<1>1. SUFFICES ASSUME B # {} PROVE FALSE
  OBVIOUS
<1>2. PICK n \in B : \A m \in B : n <= m
  <2>1. B \subseteq Nat
    OBVIOUS
  <2> HIDE DEF B
  <2> QED
    BY <1>1, <2>1, LeastNatural
<1>3. n \in Nat /\ n <= N /\ SumFunctionOnSet(f, 1..n) # 0
  BY <1>2
<1>4. n # 0
  <2>1. 1..0 = {}
    OBVIOUS
  <2> QED
    BY <1>3, <2>1, SumOfNone
<1>5. n > 0 /\ n - 1 \in 0..N /\ ~(n <= n - 1) /\ \A i \in 1..n : f[i] \in Nat
  BY <1>3, <1>4
<1>6. SumFunctionOnSet(f, 1..n) = SumFunctionOnSet(f, 1..(n - 1)) + f[n]
  BY <1>3, <1>5, SumOfNext
<1>7. SumFunctionOnSet(f, 1..(n - 1)) = 0 /\ f[n] = 0
  BY <1>2, <1>3, <1>5
<1> QED
  BY <1>3, <1>6, <1>7

\* The first element is one larger.
LEMMA SumRaised ==
    ASSUME NEW f, NEW g, NEW n \in Nat, n > 0, \A i \in 1..n : f[i] \in Nat,
           g[1] = f[1] + 1, \A i \in 2..n : g[i] = f[i]
    PROVE  SumFunctionOnSet(g, 1..n) = SumFunctionOnSet(f, 1..n) + 1
<1> DEFINE S == 2..n
<1>1. IsFiniteSet(S) /\ 1 \notin S /\ 1..n = S \cup {1}
  <2>1. IsFiniteSet(S)
    BY FS_Interval
  <2> QED
    BY <2>1
<1>2. (\A i \in S : f[i] \in Nat /\ g[i] = f[i]) /\ f[1] \in Nat
  OBVIOUS
<1>3. \A i \in S \cup {1} : f[i] \in Nat /\ g[i] \in Nat
  BY <1>2
<1> HIDE DEF S
<1>4. SumFunctionOnSet(f, S) = SumFunctionOnSet(g, S) /\ SumFunctionOnSet(f, S) \in Nat
  BY <1>1, <1>2, SumOfSame, SumFacts
<1>5. SumFunctionOnSet(f, S \cup {1}) = SumFunctionOnSet(f, S) + f[1]
  BY <1>1, <1>3, SumAdds
<1>6. SumFunctionOnSet(g, S \cup {1}) = SumFunctionOnSet(g, S) + (f[1] + 1)
  BY <1>1, <1>3, SumAdds
<1>7. SumFunctionOnSet(g, S \cup {1}) = SumFunctionOnSet(f, S \cup {1}) + 1
  BY <1>2, <1>4, <1>5, <1>6
<1> QED
  BY <1>1, <1>7

\* All elements move up by one, and the first is 0.
LEMMA SumShifted ==
    ASSUME NEW f, NEW g, NEW N \in Nat, \A i \in 1..N : f[i] \in Nat,
           \A i \in 1..N : g[i] = IF i = 1 THEN 0 ELSE f[i - 1],
           NEW k \in 1..N
    PROVE  SumFunctionOnSet(g, 1..k) = SumFunctionOnSet(f, 1..(k - 1))
<1> DEFINE B == {n \in 1..N : SumFunctionOnSet(g, 1..n) # SumFunctionOnSet(f, 1..(n - 1))}
<1>1. SUFFICES ASSUME B # {} PROVE FALSE
  OBVIOUS
<1>2. PICK n \in B : \A m \in B : n <= m
  <2>1. B \in SUBSET Nat
    OBVIOUS
  <2> HIDE DEF B
  <2> QED
    BY <1>1, <2>1, LeastNatural
<1>3. /\ n \in Nat /\ n > 0 /\ n <= N
      /\ SumFunctionOnSet(g, 1..n) # SumFunctionOnSet(f, 1..(n - 1))
  BY <1>2
<1>4. \A i \in 1..n : g[i] \in Nat
  BY <1>3
<1>5. SumFunctionOnSet(g, 1..n) = SumFunctionOnSet(g, 1..(n - 1)) + g[n]
  BY <1>3, <1>4, SumOfNext
<1>6. CASE n = 1
  <2>1. 1..(n - 1) = {} /\ g[n] = 0
    BY <1>3, <1>6
  <2> QED
    BY <1>3, <1>5, <2>1, SumOfNone
<1>7. CASE n > 1
  <2>1. n - 1 \in 1..N /\ ~(n <= n - 1) /\ n - 1 \in Nat /\ n - 1 > 0
    BY <1>3, <1>7
  <2>2. n - 1 \notin B
    BY <1>2, <2>1
  <2>3. SumFunctionOnSet(g, 1..(n - 1)) = SumFunctionOnSet(f, 1..(n - 1 - 1))
    BY <2>1, <2>2
  <2>4. \A i \in 1..(n - 1) : f[i] \in Nat
    BY <1>3
  <2>5. SumFunctionOnSet(f, 1..(n - 1)) = SumFunctionOnSet(f, 1..(n - 1 - 1)) + f[n - 1]
    BY <2>1, <2>4, SumOfNext
  <2>6. g[n] = f[n - 1]
    BY <1>3, <1>7
  <2> QED
    BY <1>3, <1>5, <2>3, <2>5, <2>6
<1> QED
  BY <1>3, <1>6, <1>7
=============================================================================
