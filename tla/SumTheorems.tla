---------------------------- MODULE SumTheorems ----------------------------
(***************************************************************************)
(* Facts about SumFunctionOnSet, the sum of the community modules that the *)
(* models use for counters kept in a map or a list.                        *)
(*                                                                         *)
(* The sum is a recursive function on the subsets of its index set, so     *)
(* these facts need induction.  The induction theorems of the library      *)
(* take a predicate as a parameter; here the predicate is a set instead (a *)
(* set of numbers, or of subsets), and the principle follows from the      *)
(* existence of least elements (WFMin).                                    *)
(***************************************************************************)
EXTENDS Integers, Functions, FiniteSetTheorems, WellFoundedInduction, TLAPS

-----------------------------------------------------------------------------
(* Induction.                                                              *)

\* A set of natural numbers that contains 0 and, with a number, its successor,
\* contains them all.
LEMMA NaturalInduction ==
    ASSUME NEW P \in SUBSET Nat, 0 \in P, \A n \in P : n + 1 \in P
    PROVE  \A n \in Nat : n \in P
<1> DEFINE B == Nat \ P
<1>1. SUFFICES ASSUME B # {} PROVE FALSE
  OBVIOUS
<1>2. PICK m \in B : \A y \in B : ~ (<<y, m>> \in OpToRel(<, Nat))
  <2>1. B \subseteq Nat
    OBVIOUS
  <2> HIDE DEF B
  <2> QED BY <1>1, <2>1, NatLessThanWellFounded, WFMin, Zenon
<1>3. m \in Nat /\ m # 0 /\ m \notin P
  OBVIOUS
<1>4. m - 1 \in Nat /\ m - 1 < m /\ (m - 1) + 1 = m
  BY <1>3
<1>5. m - 1 \notin B
  BY <1>2, <1>3, <1>4 DEF OpToRel
<1>6. m - 1 \in P
  BY <1>4, <1>5
<1> QED BY <1>3, <1>4, <1>6

\* A family of subsets of a finite set that contains the empty set and, with a
\* subset, every subset of one more element, contains the whole set.
LEMMA SubsetInduction ==
    ASSUME NEW S, IsFiniteSet(S), NEW P, {} \in P,
           \A T \in SUBSET S : \A x \in S \ T : T \in P => T \cup {x} \in P
    PROVE  S \in P
<1> DEFINE N == {n \in Nat : \A T \in SUBSET S : Cardinality(T) = n => T \in P}
<1>1. \A T \in SUBSET S : IsFiniteSet(T) /\ Cardinality(T) \in Nat
  BY FS_Subset, FS_CardinalityType
<1>2. 0 \in N
  BY <1>1, FS_EmptySet
<1>3. ASSUME NEW n \in N PROVE n + 1 \in N
  <2> SUFFICES ASSUME NEW T \in SUBSET S, Cardinality(T) = n + 1 PROVE T \in P
    OBVIOUS
  <2>1. IsFiniteSet(T) /\ n \in Nat /\ T # {}
    BY <1>1, FS_EmptySet
  <2>2. PICK x \in T : TRUE
    BY <2>1
  <2>3. T \ {x} \in SUBSET S /\ x \in S \ (T \ {x}) /\ T = (T \ {x}) \cup {x}
    OBVIOUS
  <2>4. Cardinality(T \ {x}) = n
    <3> HIDE DEF N
    <3>1. Cardinality(T \ {x}) = Cardinality(T) - 1
      BY <2>1, FS_RemoveElement
    <3> QED BY <2>1, <3>1
  <2>5. T \ {x} \in P
    BY <2>3, <2>4
  <2> QED BY <2>3, <2>5
<1>4. N \in SUBSET Nat
  OBVIOUS
<1> HIDE DEF N
<1>5. Cardinality(S) \in N
  BY <1>1, <1>2, <1>3, <1>4, NaturalInduction
<1> QED BY <1>5 DEF N

-----------------------------------------------------------------------------
(* The recursive function of the sum.                                      *)

Picked(s) == CHOOSE x \in s : TRUE

\* g is the sum of f on every subset of S.
IsSum(g, f, S) ==
    g = [s \in SUBSET S |-> IF s = {} THEN 0 ELSE f[Picked(s)] + g[s \ {Picked(s)}]]

LEMMA SumIsChosen ==
    ASSUME NEW f, NEW S, \E g : IsSum(g, f, S)
    PROVE  \E g : IsSum(g, f, S) /\ SumFunctionOnSet(f, S) = g[S]
<1> DEFINE g == CHOOSE h : IsSum(h, f, S)
<1>1. IsSum(g, f, S)
  OBVIOUS
<1>2. g = CHOOSE h : h = [s \in SUBSET S |->
              IF s = {} THEN 0
              ELSE f[CHOOSE x \in s : TRUE] + h[s \ {CHOOSE x \in s : TRUE}]]
  BY DEF IsSum, Picked
<1> HIDE DEF g
<1>3. SumFunctionOnSet(f, S) = g[S]
  BY <1>2 DEF SumFunctionOnSet, FoldFunctionOnSet, MapThenFoldSet
<1> QED BY <1>1, <1>3

LEMMA PickedIn == ASSUME NEW s, s # {} PROVE Picked(s) \in s
  BY DEF Picked

\* On a finite index set the recursion defines a function.
LEMMA SumExists ==
    ASSUME NEW f, NEW S, IsFiniteSet(S)
    PROVE  \E g : IsSum(g, f, S)
<1> DEFINE Value(g, s) == IF s = {} THEN 0 ELSE f[Picked(s)] + g[s \ {Picked(s)}]
           Upto(g, n) == \A s \in SUBSET S : Cardinality(s) <= n => g[s] = Value(g, s)
           N == {n \in Nat : \E g : g = [s \in SUBSET S |-> g[s]] /\ Upto(g, n)}
<1>1. \A s \in SUBSET S :
        IsFiniteSet(s) /\ Cardinality(s) \in Nat /\ Cardinality(s) <= Cardinality(S)
  BY FS_Subset, FS_CardinalityType
<1>2. 0 \in N
  <2> DEFINE g == [s \in SUBSET S |-> 0]
  <2>1. \A s \in SUBSET S : Cardinality(s) <= 0 => s = {}
    BY <1>1, FS_EmptySet
  <2>2. g = [s \in SUBSET S |-> g[s]] /\ Upto(g, 0)
    BY <2>1
  <2> QED BY <2>2
<1>3. ASSUME NEW n \in N PROVE n + 1 \in N
  <2>1. PICK g : g = [s \in SUBSET S |-> g[s]] /\ Upto(g, n)
    OBVIOUS
  <2> DEFINE h == [s \in SUBSET S |-> Value(g, s)]
  <2>2. n \in Nat
    OBVIOUS
  <2>3. ASSUME NEW s \in SUBSET S, Cardinality(s) <= n + 1 PROVE h[s] = Value(h, s)
    <3>1. CASE s = {}
      BY <3>1
    <3>2. CASE s # {}
      <4> DEFINE t == s \ {Picked(s)}
      <4>1. t \in SUBSET S /\ Cardinality(t) = Cardinality(s) - 1
        BY <3>2, <1>1, PickedIn, FS_RemoveElement
      <4>2. Cardinality(t) <= n
        BY <1>1, <2>2, <2>3, <4>1
      <4>3. g[t] = Value(g, t)
        BY <2>1, <4>1, <4>2
      <4>4. h[t] = Value(g, t)
        BY <4>1
      <4>5. h[s] = f[Picked(s)] + g[t]
        BY <3>2
      <4> HIDE DEF t, h
      <4>6. h[s] = f[Picked(s)] + h[t]
        BY <4>3, <4>4, <4>5
      <4> QED BY <3>2, <4>6 DEF t
    <3> QED BY <3>1, <3>2
  <2>4. h = [s \in SUBSET S |-> h[s]]
    OBVIOUS
  <2> HIDE DEF h
  <2>5. Upto(h, n + 1)
    BY <2>3
  <2>6. n + 1 \in Nat
    BY <2>2
  <2> HIDE DEF Upto
  <2> QED BY <2>4, <2>5, <2>6
<1>4. N \in SUBSET Nat
  OBVIOUS
<1>5. Cardinality(S) \in N
  <2> HIDE DEF N
  <2> QED BY <1>1, <1>2, <1>3, <1>4, NaturalInduction
<1>6. PICK g : g = [s \in SUBSET S |-> g[s]] /\ Upto(g, Cardinality(S))
  BY <1>5
<1>7. \A s \in SUBSET S : g[s] = Value(g, s)
  BY <1>1, <1>6
<1>8. g = [s \in SUBSET S |-> Value(g, s)]
  BY <1>6, <1>7
<1> QED BY <1>8 DEF IsSum

\* Two such functions agree where their summands and index sets do.
LEMMA SumUnique ==
    ASSUME NEW f, NEW S, NEW g, IsSum(g, f, S), NEW f2, NEW S2, NEW g2, IsSum(g2, f2, S2),
           NEW T, IsFiniteSet(T), T \subseteq S, T \subseteq S2, \A x \in T : f[x] = f2[x]
    PROVE  g[T] = g2[T]
<1> DEFINE N == {n \in Nat : \A s \in SUBSET T : Cardinality(s) = n => g[s] = g2[s]}
<1>1. \A s \in SUBSET T : IsFiniteSet(s) /\ Cardinality(s) \in Nat
  BY FS_Subset, FS_CardinalityType
<1>2. \A s \in SUBSET T :
        /\ g[s] = IF s = {} THEN 0 ELSE f[Picked(s)] + g[s \ {Picked(s)}]
        /\ g2[s] = IF s = {} THEN 0 ELSE f2[Picked(s)] + g2[s \ {Picked(s)}]
  <2> SUFFICES ASSUME NEW s \in SUBSET T
               PROVE /\ g[s] = IF s = {} THEN 0 ELSE f[Picked(s)] + g[s \ {Picked(s)}]
                     /\ g2[s] = IF s = {} THEN 0 ELSE f2[Picked(s)] + g2[s \ {Picked(s)}]
    OBVIOUS
  <2>1. s \in SUBSET S /\ s \in SUBSET S2
    OBVIOUS
  <2>2. g[s] = IF s = {} THEN 0 ELSE f[Picked(s)] + g[s \ {Picked(s)}]
    BY <2>1, Zenon DEF IsSum
  <2>3. g2[s] = IF s = {} THEN 0 ELSE f2[Picked(s)] + g2[s \ {Picked(s)}]
    BY <2>1, Zenon DEF IsSum
  <2> QED BY <2>2, <2>3
<1>3. 0 \in N
  BY <1>1, <1>2, FS_EmptySet
<1>4. ASSUME NEW n \in N PROVE n + 1 \in N
  <2> SUFFICES ASSUME NEW s \in SUBSET T, Cardinality(s) = n + 1 PROVE g[s] = g2[s]
    OBVIOUS
  <2>1. s # {} /\ n \in Nat
    BY FS_EmptySet
  <2>2. Picked(s) \in T /\ s \ {Picked(s)} \in SUBSET T /\ Cardinality(s \ {Picked(s)}) = n
    BY <1>1, <2>1, PickedIn, FS_RemoveElement
  <2>3. g[s \ {Picked(s)}] = g2[s \ {Picked(s)}]
    BY <2>2
  <2> HIDE DEF N
  <2> QED BY <1>2, <2>1, <2>2, <2>3
<1>5. N \in SUBSET Nat
  OBVIOUS
<1>6. Cardinality(T) \in N
  <2> HIDE DEF N
  <2> QED BY <1>1, <1>3, <1>4, <1>5, NaturalInduction
<1> QED BY <1>6

-----------------------------------------------------------------------------
(* Sums.                                                                   *)

\* The sum over no index is 0, and one index can be taken out.
LEMMA SumUnfold ==
    ASSUME NEW f, NEW S, IsFiniteSet(S)
    PROVE  SumFunctionOnSet(f, S) =
              IF S = {} THEN 0 ELSE f[Picked(S)] + SumFunctionOnSet(f, S \ {Picked(S)})
<1>1. PICK g : IsSum(g, f, S) /\ SumFunctionOnSet(f, S) = g[S]
  BY SumExists, SumIsChosen
<1>2. g[S] = IF S = {} THEN 0 ELSE f[Picked(S)] + g[S \ {Picked(S)}]
  BY <1>1, Zenon DEF IsSum
<1>3. ASSUME S # {} PROVE SumFunctionOnSet(f, S \ {Picked(S)}) = g[S \ {Picked(S)}]
  <2> DEFINE T == S \ {Picked(S)}
  <2>1. IsFiniteSet(T) /\ T \subseteq S
    BY FS_Subset
  <2> HIDE DEF T
  <2>2. PICK h : IsSum(h, f, T) /\ SumFunctionOnSet(f, T) = h[T]
    BY <2>1, SumExists, SumIsChosen
  <2>3. h[T] = g[T]
    BY <1>1, <2>1, <2>2, SumUnique
  <2> QED BY <2>2, <2>3 DEF T
<1> QED BY <1>1, <1>2, <1>3

\* A sum depends on the summands at its indices only.
LEMMA SumSame ==
    ASSUME NEW f, NEW g, NEW S, IsFiniteSet(S), \A x \in S : f[x] = g[x]
    PROVE  SumFunctionOnSet(f, S) = SumFunctionOnSet(g, S)
<1>1. PICK u : IsSum(u, f, S) /\ SumFunctionOnSet(f, S) = u[S]
  BY SumExists, SumIsChosen
<1>2. PICK v : IsSum(v, g, S) /\ SumFunctionOnSet(g, S) = v[S]
  BY SumExists, SumIsChosen
<1>3. u[S] = v[S]
  BY <1>1, <1>2, SumUnique
<1> QED BY <1>1, <1>2, <1>3

LEMMA SumEmpty == ASSUME NEW f PROVE SumFunctionOnSet(f, {}) = 0
  BY SumUnfold, FS_EmptySet

\* A sum of integers is one.
LEMMA SumInteger ==
    ASSUME NEW f, NEW S, IsFiniteSet(S), \A x \in S : f[x] \in Int
    PROVE  SumFunctionOnSet(f, S) \in Int
<1> DEFINE N == {n \in Nat : \A T \in SUBSET S :
                    Cardinality(T) = n => SumFunctionOnSet(f, T) \in Int}
<1>1. \A T \in SUBSET S : IsFiniteSet(T) /\ Cardinality(T) \in Nat
  BY FS_Subset, FS_CardinalityType
<1>2. 0 \in N
  <2> SUFFICES ASSUME NEW T \in SUBSET S, Cardinality(T) = 0 PROVE SumFunctionOnSet(f, T) \in Int
    OBVIOUS
  <2>1. T = {}
    BY <1>1, FS_EmptySet
  <2>2. SumFunctionOnSet(f, T) = 0
    BY <2>1, SumEmpty, Zenon
  <2> QED BY <2>2
<1>3. ASSUME NEW n \in N PROVE n + 1 \in N
  <2> SUFFICES ASSUME NEW T \in SUBSET S, Cardinality(T) = n + 1
               PROVE  SumFunctionOnSet(f, T) \in Int
    OBVIOUS
  <2>1. n \in Nat /\ IsFiniteSet(T) /\ T # {}
    BY <1>1, FS_EmptySet
  <2>2. Picked(T) \in S /\ T \ {Picked(T)} \in SUBSET S /\ Picked(T) \in T
    BY <2>1, PickedIn
  <2>3. Cardinality(T \ {Picked(T)}) = n
    <3> HIDE DEF N
    <3>1. Cardinality(T \ {Picked(T)}) = Cardinality(T) - 1
      BY <2>1, <2>2, FS_RemoveElement
    <3> QED BY <2>1, <3>1
  <2>4. SumFunctionOnSet(f, T \ {Picked(T)}) \in Int
    BY <2>2, <2>3
  <2>5. SumFunctionOnSet(f, T) = f[Picked(T)] + SumFunctionOnSet(f, T \ {Picked(T)})
    BY <2>1, SumUnfold
  <2> HIDE DEF N
  <2> QED BY <2>2, <2>4, <2>5
<1>4. N \in SUBSET Nat
  OBVIOUS
<1>5. Cardinality(S) \in N
  <2> HIDE DEF N
  <2> QED BY <1>1, <1>2, <1>3, <1>4, NaturalInduction
<1> QED BY <1>5

\* Any index can be taken out of a sum.
LEMMA SumRemove ==
    ASSUME NEW f, NEW S, IsFiniteSet(S), \A x \in S : f[x] \in Int, NEW x \in S
    PROVE  SumFunctionOnSet(f, S) = f[x] + SumFunctionOnSet(f, S \ {x})
<1> DEFINE N == {n \in Nat : \A T \in SUBSET S : Cardinality(T) = n =>
                    \A y \in T : SumFunctionOnSet(f, T) = f[y] + SumFunctionOnSet(f, T \ {y})}
<1>1. \A T \in SUBSET S : IsFiniteSet(T) /\ Cardinality(T) \in Nat
  BY FS_Subset, FS_CardinalityType
<1>2. 0 \in N
  BY <1>1, FS_EmptySet
<1>3. ASSUME NEW n \in N PROVE n + 1 \in N
  <2> SUFFICES ASSUME NEW T \in SUBSET S, Cardinality(T) = n + 1, NEW y \in T
               PROVE  SumFunctionOnSet(f, T) = f[y] + SumFunctionOnSet(f, T \ {y})
    OBVIOUS
  <2> DEFINE z == Picked(T)
  <2>1. n \in Nat /\ IsFiniteSet(T) /\ T # {}
    BY <1>1, FS_EmptySet
  <2>2. z \in T /\ T \ {z} \in SUBSET S /\ T \ {y} \in SUBSET S
    BY <2>1, PickedIn
  <2>3. Cardinality(T \ {z}) = n /\ Cardinality(T \ {y}) = n
    <3> HIDE DEF N, z
    <3>1. Cardinality(T \ {z}) = Cardinality(T) - 1
      BY <2>1, <2>2, FS_RemoveElement
    <3>2. Cardinality(T \ {y}) = Cardinality(T) - 1
      BY <2>1, <2>2, FS_RemoveElement
    <3> QED BY <2>1, <3>1, <3>2
  <2>4. SumFunctionOnSet(f, T) = f[z] + SumFunctionOnSet(f, T \ {z})
    BY <2>1, SumUnfold
  <2>5. CASE y = z
    BY <2>4, <2>5
  <2>6. CASE y # z
    <3>1. y \in T \ {z} /\ z \in T \ {y}
      BY <2>2, <2>6
    <3>2. SumFunctionOnSet(f, T \ {z}) = f[y] + SumFunctionOnSet(f, (T \ {z}) \ {y})
      BY <2>2, <2>3, <3>1
    <3>3. SumFunctionOnSet(f, T \ {y}) = f[z] + SumFunctionOnSet(f, (T \ {y}) \ {z})
      BY <2>2, <2>3, <3>1
    <3> HIDE DEF z, N
    <3> DEFINE U == (T \ {y}) \ {z}
    <3>4. (T \ {z}) \ {y} = U
      OBVIOUS
    <3>5. SumFunctionOnSet(f, U) \in Int
      BY <1>1, SumInteger
    <3>6. f[y] \in Int /\ f[z] \in Int
      BY <2>2
    <3>7. SumFunctionOnSet(f, T \ {y}) = f[z] + SumFunctionOnSet(f, U)
      BY <3>3
    <3> HIDE DEF U
    <3>8. SumFunctionOnSet(f, T \ {z}) = f[y] + SumFunctionOnSet(f, U)
      BY <3>2, <3>4, Zenon
    <3> QED BY <2>4, <3>5, <3>6, <3>7, <3>8
  <2> QED BY <2>5, <2>6
<1>4. N \in SUBSET Nat
  OBVIOUS
<1>5. Cardinality(S) \in N
  <2> HIDE DEF N
  <2> QED BY <1>1, <1>2, <1>3, <1>4, NaturalInduction
<1> QED BY <1>5

\* One more index adds its summand.
LEMMA SumAdd ==
    ASSUME NEW f, NEW S, IsFiniteSet(S), NEW x, x \notin S, \A y \in S \cup {x} : f[y] \in Int
    PROVE  SumFunctionOnSet(f, S \cup {x}) = SumFunctionOnSet(f, S) + f[x]
<1>1. IsFiniteSet(S \cup {x}) /\ (S \cup {x}) \ {x} = S
  BY FS_AddElement
<1>2. SumFunctionOnSet(f, S \cup {x}) = f[x] + SumFunctionOnSet(f, S)
  BY <1>1, SumRemove
<1>3. SumFunctionOnSet(f, S) \in Int
  BY SumInteger
<1> QED BY <1>2, <1>3

LEMMA SumOne == ASSUME NEW f, NEW x, f[x] \in Int PROVE SumFunctionOnSet(f, {x}) = f[x]
<1>1. {} \cup {x} = {x} /\ IsFiniteSet({}) /\ \A y \in {} \cup {x} : f[y] \in Int
  BY FS_EmptySet
<1>2. SumFunctionOnSet(f, {} \cup {x}) = SumFunctionOnSet(f, {}) + f[x]
  BY <1>1, SumAdd
<1>3. SumFunctionOnSet(f, {x}) = SumFunctionOnSet(f, {}) + f[x]
  BY <1>1, <1>2, Zenon
<1> QED BY <1>3, SumEmpty

\* A sum of natural numbers is one.
LEMMA SumNatural ==
    ASSUME NEW f, NEW S, IsFiniteSet(S), \A x \in S : f[x] \in Nat
    PROVE  SumFunctionOnSet(f, S) \in Nat
<1> DEFINE P == {T \in SUBSET S : SumFunctionOnSet(f, T) \in Nat}
<1>1. {} \in P
  BY SumEmpty
<1>2. ASSUME NEW T \in SUBSET S, NEW x \in S \ T, T \in P PROVE T \cup {x} \in P
  <2>1. IsFiniteSet(T) /\ SumFunctionOnSet(f, T) \in Nat /\ T \cup {x} \in SUBSET S
    BY <1>2, FS_Subset
  <2>2. SumFunctionOnSet(f, T \cup {x}) = SumFunctionOnSet(f, T) + f[x]
    BY <2>1, SumAdd
  <2> QED BY <2>1, <2>2
<1>3. S \in P
  <2> HIDE DEF P
  <2> QED BY <1>1, <1>2, SubsetInduction
<1> QED BY <1>3

\* Two disjoint index sets.
LEMMA SumUnion ==
    ASSUME NEW f, NEW S, IsFiniteSet(S), NEW T, IsFiniteSet(T), S \cap T = {},
           \A x \in S \cup T : f[x] \in Int
    PROVE  SumFunctionOnSet(f, S \cup T) = SumFunctionOnSet(f, S) + SumFunctionOnSet(f, T)
<1> DEFINE P == {U \in SUBSET T : SumFunctionOnSet(f, S \cup U)
                                    = SumFunctionOnSet(f, S) + SumFunctionOnSet(f, U)}
<1>1. {} \in P
  <2>1. S \cup {} = S /\ SumFunctionOnSet(f, S) \in Int
    BY SumInteger
  <2> QED BY <2>1, SumEmpty
<1>2. ASSUME NEW U \in SUBSET T, NEW x \in T \ U, U \in P PROVE U \cup {x} \in P
  <2>1. IsFiniteSet(U) /\ IsFiniteSet(S \cup U) /\ U \cup {x} \in SUBSET T
    BY FS_Subset, FS_Union
  <2>2. x \notin S \cup U /\ \A y \in (S \cup U) \cup {x} : f[y] \in Int
    OBVIOUS
  <2>3. SumFunctionOnSet(f, (S \cup U) \cup {x}) = SumFunctionOnSet(f, S \cup U) + f[x]
    BY <2>1, <2>2, SumAdd
  <2>4. SumFunctionOnSet(f, U \cup {x}) = SumFunctionOnSet(f, U) + f[x]
    BY <2>1, <2>2, SumAdd
  <2>5. SumFunctionOnSet(f, S) \in Int /\ SumFunctionOnSet(f, U) \in Int /\ f[x] \in Int
    BY <2>1, SumInteger
  <2>6. SumFunctionOnSet(f, S \cup U) = SumFunctionOnSet(f, S) + SumFunctionOnSet(f, U)
    BY <1>2
  <2>7. S \cup (U \cup {x}) = (S \cup U) \cup {x}
    OBVIOUS
  <2>8. SumFunctionOnSet(f, S \cup (U \cup {x})) = SumFunctionOnSet(f, S \cup U) + f[x]
    BY <2>3, <2>7, Zenon
  <2> QED BY <2>1, <2>4, <2>5, <2>6, <2>8
<1>3. T \in P
  <2> HIDE DEF P
  <2> QED BY <1>1, <1>2, SubsetInduction
<1> QED BY <1>3

\* Adding up two families at once.
LEMMA SumPlus ==
    ASSUME NEW f, NEW g, NEW h, NEW S, IsFiniteSet(S),
           \A x \in S : f[x] \in Int /\ g[x] \in Int /\ h[x] = f[x] + g[x]
    PROVE  SumFunctionOnSet(h, S) = SumFunctionOnSet(f, S) + SumFunctionOnSet(g, S)
<1> DEFINE P == {T \in SUBSET S : SumFunctionOnSet(h, T)
                                    = SumFunctionOnSet(f, T) + SumFunctionOnSet(g, T)}
<1>1. {} \in P
  BY SumEmpty
<1>2. ASSUME NEW T \in SUBSET S, NEW x \in S \ T, T \in P PROVE T \cup {x} \in P
  <2>1. IsFiniteSet(T) /\ T \cup {x} \in SUBSET S /\ \A y \in T \cup {x} : h[y] \in Int
    BY FS_Subset
  <2>2. /\ SumFunctionOnSet(f, T \cup {x}) = SumFunctionOnSet(f, T) + f[x]
        /\ SumFunctionOnSet(g, T \cup {x}) = SumFunctionOnSet(g, T) + g[x]
        /\ SumFunctionOnSet(h, T \cup {x}) = SumFunctionOnSet(h, T) + h[x]
    BY <2>1, SumAdd
  <2>3. SumFunctionOnSet(f, T) \in Int /\ SumFunctionOnSet(g, T) \in Int
    BY <2>1, SumInteger
  <2>4. SumFunctionOnSet(h, T) = SumFunctionOnSet(f, T) + SumFunctionOnSet(g, T)
    BY <1>2
  <2>5. f[x] \in Int /\ g[x] \in Int /\ h[x] = f[x] + g[x]
    OBVIOUS
  <2> QED BY <2>1, <2>2, <2>3, <2>4, <2>5
<1>3. S \in P
  <2> HIDE DEF P
  <2> QED BY <1>1, <1>2, SubsetInduction
<1> QED BY <1>3

Image(p, S) == {p[x] : x \in S}

\* Renaming the indices one to one.
LEMMA SumReindex ==
    ASSUME NEW S, IsFiniteSet(S), NEW p, NEW f, NEW g,
           \A x, y \in S : p[x] = p[y] => x = y,
           \A x \in S : g[x] = f[p[x]] /\ g[x] \in Int
    PROVE  /\ IsFiniteSet(Image(p, S))
           /\ SumFunctionOnSet(g, S) = SumFunctionOnSet(f, Image(p, S))
<1> DEFINE P == {T \in SUBSET S : IsFiniteSet(Image(p, T)) /\
                    SumFunctionOnSet(g, T) = SumFunctionOnSet(f, Image(p, T))}
<1>1. {} \in P
  <2>1. Image(p, {}) = {}
    BY DEF Image
  <2>2. SumFunctionOnSet(f, Image(p, {})) = 0 /\ IsFiniteSet(Image(p, {}))
    BY <2>1, SumEmpty, FS_EmptySet, Zenon
  <2>3. SumFunctionOnSet(g, {}) = 0
    BY SumEmpty
  <2> QED BY <2>2, <2>3
<1>2. ASSUME NEW T \in SUBSET S, NEW x \in S \ T, T \in P PROVE T \cup {x} \in P
  <2>1. IsFiniteSet(T) /\ T \cup {x} \in SUBSET S
    BY FS_Subset
  <2>2. p[x] \notin Image(p, T) /\ \A y \in Image(p, T) \cup {p[x]} : f[y] \in Int
    BY DEF Image
  <2>3. Image(p, T \cup {x}) = Image(p, T) \cup {p[x]}
    BY DEF Image
  <2>4. IsFiniteSet(Image(p, T)) /\ SumFunctionOnSet(g, T) = SumFunctionOnSet(f, Image(p, T))
    BY <1>2
  <2>5. SumFunctionOnSet(g, T \cup {x}) = SumFunctionOnSet(g, T) + g[x]
    BY <2>1, SumAdd
  <2>6. g[x] = f[p[x]]
    OBVIOUS
  <2>7. /\ SumFunctionOnSet(f, Image(p, T) \cup {p[x]}) = SumFunctionOnSet(f, Image(p, T)) + f[p[x]]
        /\ IsFiniteSet(Image(p, T) \cup {p[x]})
    BY <2>2, <2>4, SumAdd, FS_AddElement
  <2>8. /\ SumFunctionOnSet(f, Image(p, T \cup {x})) = SumFunctionOnSet(f, Image(p, T)) + f[p[x]]
        /\ IsFiniteSet(Image(p, T \cup {x}))
    BY <2>3, <2>7, Zenon
  <2> QED BY <2>1, <2>4, <2>5, <2>6, <2>8
<1>3. S \in P
  <2> HIDE DEF P
  <2> QED BY <1>1, <1>2, SubsetInduction
<1> QED BY <1>3

\* The members of C in one class, and in a set of classes.
Class(C, class, o)   == {c \in C : class[c] = o}
Classes(C, class, H) == {c \in C : class[c] \in H}

\* Counting a finite set class by class.
LEMMA SumOfClasses ==
    ASSUME NEW C, IsFiniteSet(C), NEW class, NEW H, IsFiniteSet(H), NEW f,
           \A o \in H : f[o] = Cardinality(Class(C, class, o))
    PROVE  SumFunctionOnSet(f, H) = Cardinality(Classes(C, class, H))
<1> DEFINE Of(K) == Classes(C, class, K)
           P == {K \in SUBSET H : SumFunctionOnSet(f, K) = Cardinality(Of(K))}
<1>1. {} \in P
  <2>1. Of({}) = {}
    BY DEF Classes
  <2>2. Cardinality(Of({})) = 0
    BY <2>1, FS_EmptySet, Zenon
  <2>3. SumFunctionOnSet(f, {}) = 0
    BY SumEmpty
  <2> HIDE DEF Of
  <2> QED BY <2>2, <2>3
<1>2. ASSUME NEW K \in SUBSET H, NEW o \in H \ K, K \in P PROVE K \cup {o} \in P
  <2> DEFINE X == Class(C, class, o)
  <2>1. IsFiniteSet(K) /\ K \cup {o} \in SUBSET H
    BY FS_Subset
  <2>2. \A k \in H : f[k] \in Int
    <3> SUFFICES ASSUME NEW k \in H PROVE f[k] \in Int
      OBVIOUS
    <3>1. IsFiniteSet(Class(C, class, k))
      BY FS_Subset DEF Class
    <3>2. Cardinality(Class(C, class, k)) \in Int
      BY <3>1, FS_CardinalityType
    <3> QED BY <3>2
  <2>3. SumFunctionOnSet(f, K \cup {o}) = SumFunctionOnSet(f, K) + f[o]
    BY <2>1, <2>2, SumAdd
  <2>4. /\ Of(K) \cup X = Of(K \cup {o}) /\ Of(K) \cap X = {}
        /\ Of(K) \in SUBSET C /\ X \in SUBSET C
    BY DEF Class, Classes
  <2>5. f[o] = Cardinality(X)
    OBVIOUS
  <2>6. SumFunctionOnSet(f, K) = Cardinality(Of(K))
    BY <1>2
  <2> HIDE DEF Of, X
  <2>7. IsFiniteSet(Of(K)) /\ IsFiniteSet(X)
    BY <2>4, FS_Subset
  <2>8. Cardinality(Of(K) \cup X) = Cardinality(Of(K)) + Cardinality(X)
    <3>1. Cardinality(Of(K) \cup X)
            = Cardinality(Of(K)) + Cardinality(X) - Cardinality(Of(K) \cap X)
      BY <2>7, FS_Union
    <3>2. Cardinality(Of(K) \cap X) = 0
      BY <2>4, FS_EmptySet, Zenon
    <3>3. Cardinality(Of(K)) \in Int /\ Cardinality(X) \in Int
      BY <2>7, FS_CardinalityType
    <3> QED BY <3>1, <3>2, <3>3
  <2>9. Cardinality(Of(K \cup {o})) = Cardinality(Of(K)) + Cardinality(X)
    BY <2>4, <2>8, Zenon
  <2> QED BY <2>1, <2>3, <2>5, <2>6, <2>9
<1>3. H \in P
  <2> HIDE DEF P
  <2> QED BY <1>1, <1>2, SubsetInduction
<1> QED BY <1>3
=============================================================================
