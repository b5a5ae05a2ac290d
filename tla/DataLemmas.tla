----------------------------- MODULE DataLemmas -----------------------------
(***************************************************************************)
(* Facts about the operators of the community modules that the models use: *)
(* Min and Max of sets of naturals, and SumFunctionOnSet.  What needs an   *)
(* induction is proved by the smallest counterexample: SubsetInduction     *)
(* takes the set of the subsets that have the property, not a predicate.   *)
(***************************************************************************)
EXTENDS Integers, Sequences, FiniteSetsExt, Functions, SortedSets, FiniteSetTheorems,
        WellFoundedInduction, TLAPS

\* A non-empty set of naturals has a minimum, and Min returns it.
LEMMA MinInSet ==
  ASSUME NEW S \in SUBSET Nat, S # {}
  PROVE  Min(S) \in S /\ \A y \in S : Min(S) <= y
<1> DEFINE Less == {p \in Nat \X Nat : p[1] < p[2]}
<1>0. IsWellFoundedOn(Less, Nat)
  BY NatLessThanWellFounded DEF OpToRel
<1>1. PICK x \in S : \A y \in S : ~(<<y, x>> \in Less)
  <2> HIDE DEF Less
  <2> QED BY <1>0, WFMin
<1>2. ASSUME NEW y \in S PROVE x <= y
  <2>1. x \in Nat /\ y \in Nat /\ <<y, x>> \notin Less
    BY <1>1
  <2>2. <<y, x>> \in Nat \X Nat /\ <<y, x>>[1] = y /\ <<y, x>>[2] = x
    BY <2>1
  <2>3. ~(y < x)
    BY <2>1, <2>2, Zenon
  <2> QED
    BY <2>1, <2>3
<1> QED
  BY <1>1, <1>2 DEF Min

\* Of two numbers Min returns the smaller.
LEMMA MinOfTwo ==
  ASSUME NEW a \in Nat, NEW b \in Nat
  PROVE  Min({a, b}) = IF a <= b THEN a ELSE b
BY MinInSet

\* Max returns the larger.
LEMMA MaxOfTwo ==
  ASSUME NEW a \in Nat, NEW b \in Nat
  PROVE  Max({a, b}) = IF a <= b THEN b ELSE a
<1>1. PICK m \in {a, b} : m = (IF a <= b THEN b ELSE a) /\ \A y \in {a, b} : m >= y
  OBVIOUS
<1>2. \A x \in {a, b} : (\A y \in {a, b} : x >= y) => x = m
  BY <1>1
<1> QED
  BY <1>1, <1>2 DEF Max
-----------------------------------------------------------------------------
\* Induction on the subsets of a finite set, for a set G of subsets instead of a
\* predicate: were one outside, a smallest one would be.
LEMMA SubsetInduction ==
  ASSUME NEW S, IsFiniteSet(S), NEW G,
         \A T \in SUBSET S : (\A U \in SUBSET T : U # T => U \in G) => T \in G
  PROVE  S \in G
<1> SUFFICES ASSUME S \notin G PROVE FALSE
  OBVIOUS
<1> DEFINE Outside == {T \in SUBSET S : T \notin G}
           Sizes == {Cardinality(T) : T \in Outside}
<1>1. \A T \in SUBSET S : IsFiniteSet(T) /\ Cardinality(T) \in Nat
  BY FS_Subset, FS_CardinalityType
<1>2. Sizes \in SUBSET Nat /\ Sizes # {}
  BY <1>1
<1>3. Min(Sizes) \in Sizes /\ \A n \in Sizes : Min(Sizes) <= n
  <2> HIDE DEF Sizes
  <2> QED BY <1>2, MinInSet
<1>4. PICK T \in Outside : \A U \in Outside : Cardinality(T) <= Cardinality(U)
  <2>1. PICK m \in Sizes : \A n \in Sizes : m <= n
    BY <1>3
  <2>2. PICK T \in Outside : m = Cardinality(T)
    BY <2>1
  <2> QED
    BY <2>1, <2>2
<1>5. PICK U \in SUBSET T : U # T /\ U \notin G
  BY <1>4
<1>6. U \in Outside
  BY <1>4, <1>5
<1>7. Cardinality(U) <= Cardinality(T) /\ Cardinality(U) # Cardinality(T)
  <2>1. IsFiniteSet(T)
    BY <1>1, <1>4
  <2> QED
    BY <1>5, <2>1, FS_Subset
<1> QED
  BY <1>1, <1>4, <1>6, <1>7

\* A non-empty finite set of naturals has a maximum, and Max returns it.
LEMMA MaxInSet ==
  ASSUME NEW S \in SUBSET Nat, IsFiniteSet(S), S # {}
  PROVE  Max(S) \in S /\ \A y \in S : y <= Max(S)
<1> DEFINE G == {T \in SUBSET S : T = {} \/ \E x \in T : \A y \in T : y <= x}
<1>1. ASSUME NEW T \in SUBSET S, \A U \in SUBSET T : U # T => U \in G PROVE T \in G
  <2>1. CASE T = {}
    BY <2>1
  <2>2. CASE T # {}
    <3>1. PICK a \in T : TRUE
      BY <2>2
    <3>2. T \ {a} \in G
      BY <1>1, <3>1
    <3>3. CASE T \ {a} = {}
      BY <3>1, <3>3
    <3>4. ASSUME NEW b \in T \ {a}, \A y \in T \ {a} : y <= b PROVE T \in G
      <4>1. a \in Nat /\ b \in Nat /\ a \in T /\ b \in T /\ \A y \in T : y \in Nat
        BY <3>1, <3>4
      <4>2. CASE a <= b
        BY <3>4, <4>1, <4>2
      <4>3. CASE b < a
        <5>1. \A y \in T : y <= a
          BY <3>4, <4>1, <4>3
        <5> QED
          BY <4>1, <5>1
      <4> QED
        BY <4>1, <4>2, <4>3
    <3> QED
      BY <3>2, <3>3, <3>4
  <2> QED
    BY <2>1, <2>2
<1>2. S \in G
  <2> HIDE DEF G
  <2> QED
    BY <1>1, SubsetInduction, Zenon
<1>3. \E x \in S : \A y \in S : x >= y
  BY <1>2
<1> QED
  BY <1>3 DEF Max
-----------------------------------------------------------------------------
\* What SumFunctionOnSet chooses: the recursion over the subsets of S.
IsSum(g, f, S) ==
  g = [s \in SUBSET S |-> IF s = {} THEN 0
                          ELSE f[CHOOSE x \in s : TRUE] + g[s \ {CHOOSE x \in s : TRUE}]]

\* SumFunctionOnSet, unfolded.
LEMMA SumIs ==
  ASSUME NEW f, NEW S
  PROVE  SumFunctionOnSet(f, S) = (CHOOSE g : IsSum(g, f, S))[S]
BY DEF SumFunctionOnSet, FoldFunctionOnSet, MapThenFoldSet, IsSum

\* Two recursions agree where both are defined.
LEMMA SumsAgree ==
  ASSUME NEW f, NEW S, NEW T, NEW g, NEW h, IsSum(g, f, S), IsSum(h, f, T),
         NEW V \in SUBSET (S \cap T), IsFiniteSet(V)
  PROVE  g[V] = h[V]
<1> DEFINE G == {U \in SUBSET V : g[U] = h[U]}
<1>1. ASSUME NEW U \in SUBSET V, \A W \in SUBSET U : W # U => W \in G PROVE U \in G
  <2>1. U \in SUBSET S /\ U \in SUBSET T
    OBVIOUS
  <2>2. PICK c : c = CHOOSE x \in U : TRUE
    OBVIOUS
  <2>3. /\ g[U] = IF U = {} THEN 0 ELSE f[c] + g[U \ {c}]
        /\ h[U] = IF U = {} THEN 0 ELSE f[c] + h[U \ {c}]
    BY <2>1, <2>2 DEF IsSum
  <2>4. CASE U = {}
    BY <2>3, <2>4
  <2>5. CASE U # {}
    <3>1. c \in U
      BY <2>2, <2>5
    <3>2. U \ {c} \in SUBSET U /\ U \ {c} # U
      BY <3>1
    <3>3. g[U \ {c}] = h[U \ {c}]
      BY <1>1, <3>2
    <3> QED
      BY <2>3, <2>5, <3>3
  <2> QED
    BY <2>4, <2>5
<1> HIDE DEF G
<1>2. V \in G
  BY <1>1, SubsetInduction, Zenon
<1> QED
  BY <1>2 DEF G

\* The sum over a set that has a recursion, from one recursion over a larger set.
LEMMA SumFrom ==
  ASSUME NEW f, NEW S, NEW g, IsSum(g, f, S), NEW V \in SUBSET S, IsFiniteSet(V),
         \E h : IsSum(h, f, V)
  PROVE  SumFunctionOnSet(f, V) = g[V]
<1>1. PICK h : h = CHOOSE x : IsSum(x, f, V)
  OBVIOUS
<1>2. IsSum(h, f, V)
  BY <1>1
<1>3. h[V] = g[V]
  BY <1>2, SumsAgree
<1> QED
  BY <1>1, <1>3, SumIs

\* Every finite set has its recursion.
LEMMA SumExists ==
  ASSUME NEW f, NEW S, IsFiniteSet(S)
  PROVE  \E g : IsSum(g, f, S)
<1> DEFINE G == {T \in SUBSET S : \E g : IsSum(g, f, T)}
<1>1. ASSUME NEW T \in SUBSET S, \A U \in SUBSET T : U # T => U \in G PROVE T \in G
  <2>1. PICK c : c = CHOOSE x \in T : TRUE
    OBVIOUS
  <2> DEFINE h == [s \in SUBSET T |->
                     IF s = {} THEN 0
                     ELSE IF s = T THEN f[c] + SumFunctionOnSet(f, T \ {c})
                     ELSE SumFunctionOnSet(f, s)]
  <2>2. ASSUME NEW s \in SUBSET T
        PROVE  h[s] = IF s = {} THEN 0
                      ELSE f[CHOOSE x \in s : TRUE] + h[s \ {CHOOSE x \in s : TRUE}]
    <3>1. CASE s = {}
      BY <3>1
    <3>2. CASE s # {}
      <4>1. PICK d : d = CHOOSE x \in s : TRUE
        OBVIOUS
      <4>2. d \in s
        BY <3>2, <4>1
      <4>3. s \ {d} \in SUBSET T /\ s \ {d} # T /\ s \ {d} \in SUBSET s /\ s \ {d} # s
        BY <4>2
      <4>4. \A U \in SUBSET S : IsFiniteSet(U)
        BY FS_Subset
      <4>5. ASSUME NEW V \in SUBSET T, V # T, V # {}, V = s
            PROVE  SumFunctionOnSet(f, V) = f[d] + SumFunctionOnSet(f, V \ {d})
        <5>1. PICK g : IsSum(g, f, V)
          BY <1>1, <4>5
        <5>2. SumFunctionOnSet(f, V) = g[V]
          BY <4>4, <4>5, <5>1, SumFrom
        <5>3. g[V] = f[d] + g[V \ {d}]
          BY <4>1, <4>5, <5>1 DEF IsSum
        <5>4. \E k : IsSum(k, f, V \ {d})
          BY <1>1, <4>3, <4>5
        <5>5. V \ {d} \in SUBSET V /\ IsFiniteSet(V \ {d})
          BY <4>4, <4>5
        <5>6. SumFunctionOnSet(f, V \ {d}) = g[V \ {d}]
          BY <5>1, <5>4, <5>5, SumFrom
        <5> QED
          BY <5>2, <5>3, <5>6
      <4>6. h[s \ {d}] = SumFunctionOnSet(f, s \ {d})
        <5>1. CASE s \ {d} # {}
          BY <4>3, <5>1
        <5>2. CASE s \ {d} = {}
          <6>1. h[s \ {d}] = 0
            BY <5>2
          <6>2. SumFunctionOnSet(f, {}) = 0
            <7>1. PICK g : g = CHOOSE x : IsSum(x, f, {})
              OBVIOUS
            <7>2. IsSum([s0 \in SUBSET {} |-> 0], f, {})
              BY DEF IsSum
            <7>3. IsSum(g, f, {})
              BY <7>1, <7>2
            <7>4. g[{}] = 0
              BY <7>3 DEF IsSum
            <7> QED
              BY <7>1, <7>4, SumIs
          <6> QED
            BY <5>2, <6>1, <6>2
        <5> QED
          BY <5>1, <5>2
      <4>7. h[s] = f[d] + SumFunctionOnSet(f, s \ {d})
        <5>1. CASE s = T
          <6>1. d = c
            BY <2>1, <4>1, <5>1
          <6> QED
            BY <3>2, <5>1, <6>1
        <5>2. CASE s # T
          BY <3>2, <4>5, <5>2
        <5> QED
          BY <5>1, <5>2
      <4> HIDE DEF h
      <4> QED
        BY <3>2, <4>1, <4>6, <4>7
    <3> QED
      BY <3>1, <3>2
  <2>3. h = [s \in SUBSET T |-> h[s]]
    OBVIOUS
  <2> HIDE DEF h
  <2>4. IsSum(h, f, T)
    BY <2>2, <2>3 DEF IsSum
  <2> QED
    BY <2>4
<1> HIDE DEF G
<1>2. S \in G
  BY <1>1, SubsetInduction, Zenon
<1> QED
  BY <1>2 DEF G

\* The sum over nothing is zero.
LEMMA SumEmpty == ASSUME NEW f PROVE SumFunctionOnSet(f, {}) = 0
<1>1. IsFiniteSet({})
  BY FS_EmptySet
<1>2. PICK g : IsSum(g, f, {})
  BY <1>1, SumExists
<1>3. SumFunctionOnSet(f, {}) = g[{}]
  BY <1>1, <1>2, SumFrom
<1> QED
  BY <1>2, <1>3 DEF IsSum

\* The element taken first does not depend on the values.
LEMMA SumFirst ==
  ASSUME NEW f, NEW h, NEW S, IsFiniteSet(S), S # {}
  PROVE  \E c \in S :
           /\ SumFunctionOnSet(f, S) = f[c] + SumFunctionOnSet(f, S \ {c})
           /\ SumFunctionOnSet(h, S) = h[c] + SumFunctionOnSet(h, S \ {c})
<1>1. PICK c : c = CHOOSE x \in S : TRUE
  OBVIOUS
<1>2. c \in S /\ IsFiniteSet(S \ {c}) /\ S \ {c} \in SUBSET S
  BY <1>1, FS_Subset
<1>3. ASSUME NEW w PROVE SumFunctionOnSet(w, S) = w[c] + SumFunctionOnSet(w, S \ {c})
  <2>1. PICK g : IsSum(g, w, S)
    BY SumExists
  <2>2. SumFunctionOnSet(w, S) = g[S]
    BY <2>1, SumFrom
  <2>3. \E k : IsSum(k, w, S \ {c})
    BY <1>2, SumExists
  <2>4. SumFunctionOnSet(w, S \ {c}) = g[S \ {c}]
    BY <1>2, <2>1, <2>3, SumFrom
  <2>5. g[S] = w[c] + g[S \ {c}]
    BY <1>1, <2>1 DEF IsSum
  <2> QED
    BY <2>2, <2>4, <2>5
<1> QED
  BY <1>2, <1>3

\* A sum of integers is one.
LEMMA SumType ==
  ASSUME NEW f, NEW S, IsFiniteSet(S), \A x \in S : f[x] \in Int
  PROVE  SumFunctionOnSet(f, S) \in Int
<1> DEFINE G == {T \in SUBSET S : SumFunctionOnSet(f, T) \in Int}
<1>1. ASSUME NEW T \in SUBSET S, \A U \in SUBSET T : U # T => U \in G PROVE T \in G
  <2>1. CASE T = {}
    BY <2>1, SumEmpty
  <2>2. CASE T # {}
    <3>1. IsFiniteSet(T)
      BY FS_Subset
    <3>2. PICK c \in T : SumFunctionOnSet(f, T) = f[c] + SumFunctionOnSet(f, T \ {c})
      BY <2>2, <3>1, SumFirst
    <3>4. T \ {c} \in G
      BY <1>1, <3>2
    <3> QED
      BY <3>2, <3>4
  <2> QED
    BY <2>1, <2>2
<1> HIDE DEF G
<1>2. S \in G
  BY <1>1, SubsetInduction, Zenon
<1> QED
  BY <1>2 DEF G

\* Any element may be taken first.
LEMMA SumRemove ==
  ASSUME NEW f, NEW S, IsFiniteSet(S), \A x \in S : f[x] \in Int, NEW a \in S
  PROVE  SumFunctionOnSet(f, S) = f[a] + SumFunctionOnSet(f, S \ {a})
<1> DEFINE G == {T \in SUBSET S : \A x \in T :
                   SumFunctionOnSet(f, T) = f[x] + SumFunctionOnSet(f, T \ {x})}
<1>1. ASSUME NEW T \in SUBSET S, \A U \in SUBSET T : U # T => U \in G PROVE T \in G
  <2>1. ASSUME NEW x \in T
        PROVE  SumFunctionOnSet(f, T) = f[x] + SumFunctionOnSet(f, T \ {x})
    <3>1. IsFiniteSet(T)
      BY FS_Subset
    <3>2. PICK c \in T : SumFunctionOnSet(f, T) = f[c] + SumFunctionOnSet(f, T \ {c})
      BY <3>1, SumFirst
    <3>3. c \in S
      OBVIOUS
    <3>4. CASE c = x
      BY <3>2, <3>4
    <3>5. CASE c # x
      <4> DEFINE rest == SumFunctionOnSet(f, (T \ {c}) \ {x})
      <4>1. T \ {c} \in G /\ T \ {x} \in G /\ x \in T \ {c} /\ c \in T \ {x}
        BY <1>1, <3>2, <3>5
      <4>2. SumFunctionOnSet(f, T \ {c}) = f[x] + rest
        BY <4>1
      <4>3. (T \ {x}) \ {c} = (T \ {c}) \ {x}
        OBVIOUS
      <4>4. SumFunctionOnSet(f, T \ {x}) = f[c] + rest
        BY <4>1, <4>3
      <4>5. rest \in Int
        <5>1. (T \ {c}) \ {x} \in SUBSET S /\ IsFiniteSet((T \ {c}) \ {x})
          BY FS_Subset
        <5> QED
          BY <5>1, SumType
      <4>6. f[x] \in Int /\ f[c] \in Int
        BY <3>2
      <4> HIDE DEF rest
      <4> QED
        BY <3>2, <4>2, <4>4, <4>5, <4>6
    <3> QED
      BY <3>4, <3>5
  <2> QED
    BY <2>1
<1> HIDE DEF G
<1>2. S \in G
  BY <1>1, SubsetInduction, Zenon
<1> QED
  BY <1>2 DEF G

\* Equal values have equal sums.
LEMMA SumEqual ==
  ASSUME NEW f, NEW h, NEW S, IsFiniteSet(S), \A x \in S : f[x] = h[x]
  PROVE  SumFunctionOnSet(f, S) = SumFunctionOnSet(h, S)
<1> DEFINE G == {T \in SUBSET S : SumFunctionOnSet(f, T) = SumFunctionOnSet(h, T)}
<1>1. ASSUME NEW T \in SUBSET S, \A U \in SUBSET T : U # T => U \in G PROVE T \in G
  <2>1. CASE T = {}
    BY <2>1, SumEmpty
  <2>2. CASE T # {}
    <3>1. IsFiniteSet(T)
      BY FS_Subset
    <3>2. PICK c \in T :
            /\ SumFunctionOnSet(f, T) = f[c] + SumFunctionOnSet(f, T \ {c})
            /\ SumFunctionOnSet(h, T) = h[c] + SumFunctionOnSet(h, T \ {c})
      BY <2>2, <3>1, SumFirst
    <3>4. T \ {c} \in G /\ f[c] = h[c]
      BY <1>1, <3>2
    <3> QED
      BY <3>2, <3>4
  <2> QED
    BY <2>1, <2>2
<1> HIDE DEF G
<1>2. S \in G
  BY <1>1, SubsetInduction, Zenon
<1> QED
  BY <1>2 DEF G

\* Values that are not larger have a sum that is not larger.
LEMMA SumMonotonic ==
  ASSUME NEW f, NEW h, NEW S, IsFiniteSet(S),
         \A x \in S : f[x] \in Int /\ h[x] \in Int /\ f[x] <= h[x]
  PROVE  SumFunctionOnSet(f, S) <= SumFunctionOnSet(h, S)
<1> DEFINE G == {T \in SUBSET S : SumFunctionOnSet(f, T) <= SumFunctionOnSet(h, T)}
<1>1. ASSUME NEW T \in SUBSET S, \A U \in SUBSET T : U # T => U \in G PROVE T \in G
  <2>1. CASE T = {}
    BY <2>1, SumEmpty
  <2>2. CASE T # {}
    <3>1. IsFiniteSet(T)
      BY FS_Subset
    <3>2. PICK c \in T :
            /\ SumFunctionOnSet(f, T) = f[c] + SumFunctionOnSet(f, T \ {c})
            /\ SumFunctionOnSet(h, T) = h[c] + SumFunctionOnSet(h, T \ {c})
      BY <2>2, <3>1, SumFirst
    <3>3. IsFiniteSet(T \ {c})
      BY <3>1, FS_Subset
    <3>4. T \ {c} \in G
      BY <1>1, <3>2
    <3>5. SumFunctionOnSet(f, T \ {c}) \in Int /\ SumFunctionOnSet(h, T \ {c}) \in Int
      BY <3>3, SumType
    <3>6. f[c] \in Int /\ h[c] \in Int /\ f[c] <= h[c]
      BY <3>2
    <3>7. SumFunctionOnSet(f, T \ {c}) <= SumFunctionOnSet(h, T \ {c})
      BY <3>4
    <3> QED
      BY <3>2, <3>5, <3>6, <3>7
  <2> QED
    BY <2>1, <2>2
<1> HIDE DEF G
<1>2. S \in G
  BY <1>1, SubsetInduction, Zenon
<1> QED
  BY <1>2 DEF G

\* A sum of values that are not negative is not negative.
LEMMA SumNat ==
  ASSUME NEW f, NEW S, IsFiniteSet(S), \A x \in S : f[x] \in Nat
  PROVE  SumFunctionOnSet(f, S) \in Nat
<1> DEFINE G == {T \in SUBSET S : SumFunctionOnSet(f, T) \in Nat}
<1>1. ASSUME NEW T \in SUBSET S, \A U \in SUBSET T : U # T => U \in G PROVE T \in G
  <2>1. CASE T = {}
    BY <2>1, SumEmpty
  <2>2. CASE T # {}
    <3>1. IsFiniteSet(T)
      BY FS_Subset
    <3>2. PICK c \in T : SumFunctionOnSet(f, T) = f[c] + SumFunctionOnSet(f, T \ {c})
      BY <2>2, <3>1, SumFirst
    <3>4. T \ {c} \in G
      BY <1>1, <3>2
    <3> QED
      BY <3>2, <3>4
  <2> QED
    BY <2>1, <2>2
<1> HIDE DEF G
<1>2. S \in G
  BY <1>1, SubsetInduction, Zenon
<1> QED
  BY <1>2 DEF G

\* A sum splits in two.
LEMMA SumSplit ==
  ASSUME NEW f, NEW S, IsFiniteSet(S), \A x \in S : f[x] \in Int, NEW A \in SUBSET S
  PROVE  SumFunctionOnSet(f, S) = SumFunctionOnSet(f, A) + SumFunctionOnSet(f, S \ A)
<1> DEFINE G == {T \in SUBSET A :
                   SumFunctionOnSet(f, S) = SumFunctionOnSet(f, T) + SumFunctionOnSet(f, S \ T)}
<1>0. \A T \in SUBSET S : IsFiniteSet(T) /\ SumFunctionOnSet(f, T) \in Int
  BY FS_Subset, SumType
<1>1. ASSUME NEW T \in SUBSET A, \A U \in SUBSET T : U # T => U \in G PROVE T \in G
  <2>1. CASE T = {}
    <3>1. S \ T = S /\ SumFunctionOnSet(f, T) = 0
      BY <2>1, SumEmpty
    <3>2. SumFunctionOnSet(f, S \ T) = SumFunctionOnSet(f, S)
      BY <3>1, Zenon
    <3>3. SumFunctionOnSet(f, S) \in Int
      BY <1>0
    <3> QED
      BY <3>1, <3>2, <3>3
  <2>2. CASE T # {}
    <3>1. PICK c : c \in T
      BY <2>2
    <3>2. T \ {c} \in G /\ T \ {c} \in SUBSET S /\ S \ (T \ {c}) \in SUBSET S /\ c \in S \ (T \ {c})
      BY <1>1, <3>1
    <3>3. SumFunctionOnSet(f, T) = f[c] + SumFunctionOnSet(f, T \ {c})
      <4>1. IsFiniteSet(T) /\ \A x \in T : f[x] \in Int
        BY <1>0
      <4> QED
        BY <3>1, <4>1, SumRemove
    <3>4. SumFunctionOnSet(f, S \ (T \ {c})) = f[c] + SumFunctionOnSet(f, (S \ (T \ {c})) \ {c})
      <4>1. IsFiniteSet(S \ (T \ {c})) /\ \A x \in S \ (T \ {c}) : f[x] \in Int
        BY <1>0, <3>2
      <4> QED
        BY <3>2, <4>1, SumRemove
    <3>5. (S \ (T \ {c})) \ {c} = S \ T
      BY <3>1
    <3>6. /\ SumFunctionOnSet(f, T \ {c}) \in Int /\ SumFunctionOnSet(f, S \ T) \in Int
          /\ f[c] \in Int
      BY <1>0, <3>1, <3>2
    <3>7. SumFunctionOnSet(f, S) = SumFunctionOnSet(f, T \ {c}) + SumFunctionOnSet(f, S \ (T \ {c}))
      BY <3>2
    <3>8. SumFunctionOnSet(f, S) = SumFunctionOnSet(f, T) + SumFunctionOnSet(f, S \ T)
      <4> HIDE DEF G
      <4>1. SumFunctionOnSet(f, S \ (T \ {c})) = f[c] + SumFunctionOnSet(f, S \ T)
        BY <3>4, <3>5, Zenon
      <4> QED
        BY <3>3, <3>6, <3>7, <4>1
    <3> QED
      BY <3>8
  <2> QED
    BY <2>1, <2>2
<1>2. IsFiniteSet(A)
  BY <1>0
<1> HIDE DEF G
<1>3. A \in G
  BY <1>1, <1>2, SubsetInduction, Zenon
<1> QED
  BY <1>3 DEF G

\* One value changes.
LEMMA SumChange ==
  ASSUME NEW f, NEW h, NEW S, IsFiniteSet(S), NEW a \in S,
         \A x \in S : f[x] \in Int /\ h[x] \in Int,
         \A x \in S : x # a => f[x] = h[x]
  PROVE  SumFunctionOnSet(h, S) = SumFunctionOnSet(f, S) - f[a] + h[a]
<1>1. /\ SumFunctionOnSet(f, S) = f[a] + SumFunctionOnSet(f, S \ {a})
      /\ SumFunctionOnSet(h, S) = h[a] + SumFunctionOnSet(h, S \ {a})
  BY SumRemove
<1>2. IsFiniteSet(S \ {a})
  BY FS_Subset
<1>3. SumFunctionOnSet(f, S \ {a}) = SumFunctionOnSet(h, S \ {a})
  BY <1>2, SumEqual
<1>4. SumFunctionOnSet(f, S \ {a}) \in Int
  BY <1>2, SumType
<1> QED
  BY <1>1, <1>3, <1>4

\* A sum of zeros.
LEMMA SumZero ==
  ASSUME NEW f, NEW S, IsFiniteSet(S), \A x \in S : f[x] = 0
  PROVE  SumFunctionOnSet(f, S) = 0
<1> DEFINE G == {T \in SUBSET S : SumFunctionOnSet(f, T) = 0}
<1>1. ASSUME NEW T \in SUBSET S, \A U \in SUBSET T : U # T => U \in G PROVE T \in G
  <2>1. CASE T = {}
    BY <2>1, SumEmpty
  <2>2. CASE T # {}
    <3>1. IsFiniteSet(T)
      BY FS_Subset
    <3>2. PICK c \in T : SumFunctionOnSet(f, T) = f[c] + SumFunctionOnSet(f, T \ {c})
      BY <2>2, <3>1, SumFirst
    <3>3. T \ {c} \in G
      BY <1>1, <3>2
    <3>4. SumFunctionOnSet(f, T \ {c}) = 0 /\ f[c] = 0
      BY <3>2, <3>3
    <3> QED
      BY <3>2, <3>4
  <2> QED
    BY <2>1, <2>2
<1> HIDE DEF G
<1>2. S \in G
  BY <1>1, SubsetInduction, Zenon
<1> QED
  BY <1>2 DEF G
-----------------------------------------------------------------------------
\* The elements of a finite set of naturals in ascending order are a sequence of them,
\* each of them in its place: the ranks of n elements are the n numbers below n.
LEMMA SortedIs ==
  ASSUME NEW S \in SUBSET Nat, IsFiniteSet(S)
  PROVE  /\ Sorted(S) \in Seq(S) /\ Len(Sorted(S)) = Cardinality(S)
         /\ \A n \in S : \E i \in 1..Cardinality(S) : Sorted(S)[i] = n
<1> DEFINE c == Cardinality(S)
           rank == [n \in S |-> Cardinality(Below(n, S))]
<1>1. c \in Nat /\ \A n \in S : IsFiniteSet(Below(n, S)) /\ Cardinality(Below(n, S)) \in Nat
  BY FS_Subset, FS_CardinalityType DEF Below
<1>2. ASSUME NEW n \in S PROVE Cardinality(Below(n, S)) \in 0..(c - 1)
  <2>1. IsFiniteSet(S \ {n}) /\ Cardinality(S \ {n}) = c - 1
    BY FS_RemoveElement
  <2>2. Below(n, S) \in SUBSET (S \ {n})
    BY DEF Below
  <2>3. Cardinality(Below(n, S)) <= Cardinality(S \ {n})
    BY <2>1, <2>2, FS_Subset
  <2> QED
    BY <1>1, <2>1, <2>3
<1>3. ASSUME NEW m \in S, NEW n \in S, m < n
      PROVE  Cardinality(Below(m, S)) # Cardinality(Below(n, S))
  <2>1. m \notin Below(m, S) /\ Below(m, S) \cup {m} \in SUBSET Below(n, S)
    <3>1. m \in Nat /\ n \in Nat /\ \A k \in S : k \in Nat
      OBVIOUS
    <3>2. ~(m < m) /\ \A k \in S : k < m => k < n
      BY <1>3, <3>1
    <3> QED
      BY <1>3, <3>2, Zenon DEF Below
  <2>2. Cardinality(Below(m, S) \cup {m}) = Cardinality(Below(m, S)) + 1
    BY <1>1, <2>1, FS_AddElement
  <2>3. Cardinality(Below(m, S) \cup {m}) <= Cardinality(Below(n, S))
    BY <1>1, <2>1, FS_Subset
  <2> QED
    BY <1>1, <2>2, <2>3
<1>4. rank \in Injection(S, 0..(c - 1))
  <2>1. rank \in [S -> 0..(c - 1)]
    BY <1>2
  <2>2. ASSUME NEW m \in S, NEW n \in S, rank[m] = rank[n] PROVE m = n
    <3>1. m \in Nat /\ n \in Nat /\ ~(m < n) /\ ~(n < m)
      BY <1>3, <2>2
    <3> QED
      BY <3>1
  <2> HIDE DEF rank
  <2> QED
    BY <2>1, <2>2 DEF Injection, IsInjective
<1>5. IsFiniteSet(0..(c - 1)) /\ Cardinality(0..(c - 1)) = c
  <2>1. c \in Nat /\ c - 1 \in Int /\ 0 \in Int
    BY <1>1
  <2> HIDE DEF c
  <2>2. /\ IsFiniteSet(0..(c - 1))
        /\ Cardinality(0..(c - 1)) = IF 0 > c - 1 THEN 0 ELSE c - 1 - 0 + 1
    BY <2>1, FS_Interval
  <2> QED
    BY <2>1, <2>2
<1>6. rank \in Surjection(S, 0..(c - 1))
  <2> HIDE DEF rank, c
  <2> QED
    BY <1>4, <1>5, FS_Injection DEF c
<1>7. ASSUME NEW i \in 1..c PROVE \E n \in S : Cardinality(Below(n, S)) = i - 1
  <2>1. i - 1 \in 0..(c - 1)
    BY <1>1
  <2>2. PICK n \in S : rank[n] = i - 1
    <3> HIDE DEF rank
    <3> QED
      BY <1>6, <2>1 DEF Surjection
  <2> QED
    BY <2>2
<1>8. \A i \in 1..c : Sorted(S)[i] \in S
  BY <1>7 DEF Sorted
<1>9. ASSUME NEW n \in S PROVE \E i \in 1..c : Sorted(S)[i] = n
  <2>1. PICK i : i = Cardinality(Below(n, S)) + 1
    OBVIOUS
  <2>2. i \in 1..c /\ Cardinality(Below(n, S)) = i - 1
    <3>1. Cardinality(Below(n, S)) \in 0..(c - 1)
      BY <1>2
    <3> HIDE DEF c
    <3> QED
      BY <1>1, <2>1, <3>1
  <2>3. \A m \in S : Cardinality(Below(m, S)) = i - 1 => m = n
    <3>1. ASSUME NEW m \in S, Cardinality(Below(m, S)) = i - 1 PROVE m = n
      <4>1. m \in Nat /\ n \in Nat /\ ~(m < n) /\ ~(n < m)
        BY <1>3, <2>2, <3>1
      <4> QED
        BY <4>1
    <3> QED
      BY <3>1
  <2>4. Sorted(S)[i] = CHOOSE m \in S : Cardinality(Below(m, S)) = i - 1
    BY <2>2 DEF Sorted
  <2>5. Sorted(S)[i] = n
    BY <2>2, <2>3, <2>4
  <2> QED
    BY <2>2, <2>5
<1>10. Sorted(S) \in Seq(S) /\ Len(Sorted(S)) = c
  BY <1>1, <1>8 DEF Sorted
<1> QED
  BY <1>9, <1>10

\* A sequence in which each element of one of n stands a times: which one stands where.
LEMMA DivRange ==
  ASSUME NEW n \in Nat, NEW a \in Nat \ {0}, NEW j \in 1..(n * a)
  PROVE  (j + a - 1) \div a \in 1..n
OBVIOUS

\* Each of them has a place.
LEMMA DivExact ==
  ASSUME NEW n \in Nat, NEW a \in Nat \ {0}, NEW i \in 1..n
  PROVE  i * a \in 1..(n * a) /\ (i * a + a - 1) \div a = i
OBVIOUS
=============================================================================
