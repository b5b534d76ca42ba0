--------------------------- MODULE DataInduction ---------------------------
(***************************************************************************)
(* Facts that need an induction over data, for the proofs of the other     *)
(* modules.  The induction principles are stated with a set of good values *)
(* in place of a predicate: a proof defines the set, hides the definition  *)
(* and cites the principle.  From them come what a recursive function over *)
(* 0..n computes at each index, the laws of sums over a finite set, and    *)
(* the ascending enumeration of a finite set of naturals.                  *)
(***************************************************************************)
EXTENDS Integers, FiniteSetsExt, FiniteSetTheorems, WellFoundedInduction, TLAPS

-----------------------------------------------------------------------------
(* Induction. *)

\* Naturals are well-founded.
LEMMA LeastNatural ==
    ASSUME NEW S \in SUBSET Nat, S # {}
    PROVE  \E m \in S : \A n \in S : m <= n
<1> DEFINE lt == OpToRel(<, Nat)
<1>1. IsWellFoundedOn(lt, Nat)
  BY NatLessThanWellFounded
<1>2. \A i, j \in Nat : i < j => <<i, j>> \in lt
  BY DEF OpToRel
<1> HIDE DEF lt
<1>3. PICK m \in S : \A n \in S : ~(<<n, m>> \in lt)
  BY <1>1, WFMin
<1>4. ASSUME NEW n \in S PROVE m <= n
  <2>1. ~(n < m)
    BY <1>2, <1>3
  <2> QED BY <2>1
<1> QED BY <1>4

\* What holds of a set when it holds of all its proper subsets holds of every
\* finite set.
LEMMA FiniteInduction ==
    ASSUME NEW S, IsFiniteSet(S), NEW Good,
           \A T \in SUBSET S : (\A U \in SUBSET T : U # T => U \in Good) => T \in Good
    PROVE  S \in Good
<1> SUFFICES ASSUME S \notin Good PROVE FALSE
  OBVIOUS
<1> DEFINE bad   == {T \in SUBSET S : T \notin Good}
           sizes == {Cardinality(T) : T \in bad}
<1>1. \A T \in SUBSET S : IsFiniteSet(T) /\ Cardinality(T) \in Nat
  BY FS_Subset, FS_CardinalityType
<1>2. sizes \in SUBSET Nat /\ sizes # {}
  BY <1>1
<1>3. PICK m \in sizes : \A n \in sizes : m <= n
  <2> HIDE DEF sizes
  <2> QED BY <1>2, LeastNatural
<1>4. PICK T \in bad : \A U \in bad : Cardinality(T) <= Cardinality(U)
  BY <1>3
<1>5. ASSUME NEW U \in SUBSET T, U # T PROVE U \in Good
  <2>1. Cardinality(U) <= Cardinality(T) /\ Cardinality(U) # Cardinality(T)
    BY <1>1, <1>5, FS_Subset
  <2>2. U \in SUBSET S /\ Cardinality(U) \in Nat /\ Cardinality(T) \in Nat
    BY <1>1
  <2> QED BY <1>4, <2>1, <2>2
<1> QED BY <1>4, <1>5

\* What holds of 0, and of k + 1 when it holds of k, holds up to n.
LEMMA CountingInduction ==
    ASSUME NEW n \in Nat, NEW Good, 0 \in Good,
           \A k \in 0..(n - 1) : k \in Good => k + 1 \in Good
    PROVE  \A k \in 0..n : k \in Good
<1> DEFINE bad == {k \in 0..n : k \notin Good}
<1> SUFFICES ASSUME bad # {} PROVE FALSE
  OBVIOUS
<1>1. bad \in SUBSET Nat
  OBVIOUS
<1>2. PICK m \in bad : \A k \in bad : m <= k
  <2> HIDE DEF bad
  <2> QED BY <1>1, LeastNatural
<1>3. m - 1 \in 0..(n - 1) /\ m - 1 \notin bad
  BY <1>2
<1> QED BY <1>2, <1>3

\* A finite set of naturals has a greatest element.
LEMMA GreatestNatural ==
    ASSUME NEW S \in SUBSET Nat, S # {}, IsFiniteSet(S)
    PROVE  \E m \in S : \A n \in S : n <= m
<1> DEFINE Good == {T \in SUBSET S : T # {} => \E m \in T : \A n \in T : n <= m}
<1>1. ASSUME NEW T \in SUBSET S, \A U \in SUBSET T : U # T => U \in Good
      PROVE  T \in Good
  <2> SUFFICES ASSUME T # {} PROVE \E m \in T : \A n \in T : n <= m
    OBVIOUS
  <2>1. PICK x \in T : TRUE
    OBVIOUS
  <2>2. T \ {x} \in Good
    BY <1>1
  <2>3. CASE T \ {x} = {}
    BY <2>3
  <2>4. CASE T \ {x} # {}
    <3>1. PICK m \in T \ {x} : \A n \in T \ {x} : n <= m
      BY <2>2, <2>4
    <3>2. CASE x <= m
      BY <3>1, <3>2
    <3>3. CASE ~(x <= m)
      BY <3>1, <3>3
    <3> QED BY <3>2, <3>3
  <2> QED BY <2>3, <2>4
<1> HIDE DEF Good
<1>2. S \in Good
  BY <1>1, FiniteInduction
<1> QED BY <1>2 DEF Good

-----------------------------------------------------------------------------
(* The function that SumFunctionOnSet builds, and that it exists. *)

Pick(s) == CHOOSE x \in s : TRUE
Sums(f, S, g) == g = [s \in SUBSET S |-> IF s = {} THEN 0 ELSE f[Pick(s)] + g[s \ {Pick(s)}]]
Chosen(f, S) == CHOOSE g : Sums(f, S, g)

LEMMA SumUnfolded ==
    ASSUME NEW f, NEW S
    PROVE  SumFunctionOnSet(f, S) = Chosen(f, S)[S]
BY DEF SumFunctionOnSet, FoldFunctionOnSet, MapThenFoldSet, Sums, Pick, Chosen

LEMMA PickIn == \A s : s # {} => Pick(s) \in s
BY DEF Pick

LEMMA SumsUnique ==
    ASSUME NEW f, NEW S, NEW T, NEW g, NEW h, Sums(f, S, g), Sums(f, T, h),
           NEW U \in SUBSET (S \cap T), IsFiniteSet(U)
    PROVE  g[U] = h[U]
<1> DEFINE Good == {V \in SUBSET U : g[V] = h[V]}
<1>1. ASSUME NEW V \in SUBSET U, \A W \in SUBSET V : W # V => W \in Good
      PROVE  V \in Good
  <2>1. g[V] = IF V = {} THEN 0 ELSE f[Pick(V)] + g[V \ {Pick(V)}]
    BY DEF Sums
  <2>2. h[V] = IF V = {} THEN 0 ELSE f[Pick(V)] + h[V \ {Pick(V)}]
    BY DEF Sums
  <2>3. V # {} => V \ {Pick(V)} \in SUBSET V /\ V \ {Pick(V)} # V
    BY PickIn
  <2> QED BY <1>1, <2>1, <2>2, <2>3
<1> HIDE DEF Good
<1>2. U \in Good
  BY <1>1, FiniteInduction
<1> QED BY <1>2 DEF Good

LEMMA SumsExist ==
    ASSUME NEW f, NEW S, IsFiniteSet(S)
    PROVE  Sums(f, S, Chosen(f, S))
<1> DEFINE Good == {T \in SUBSET S : Sums(f, T, Chosen(f, T))}
<1>1. ASSUME NEW T \in SUBSET S, \A U \in SUBSET T : U # T => U \in Good
      PROVE  T \in Good
  <2> DEFINE value(s) == IF s = {} THEN 0 ELSE f[Pick(s)] + Chosen(f, s \ {Pick(s)})[s \ {Pick(s)}]
             g == [s \in SUBSET T |-> value(s)]
  <2>1. ASSUME NEW s \in SUBSET T, s # {}
        PROVE  g[s \ {Pick(s)}] = Chosen(f, s \ {Pick(s)})[s \ {Pick(s)}]
    <3> DEFINE r == s \ {Pick(s)}
    <3>1. r \in SUBSET T /\ r # T /\ IsFiniteSet(r)
      BY <2>1, PickIn, FS_Subset
    <3>2. Sums(f, r, Chosen(f, r))
      BY <1>1, <3>1
    <3>3. CASE r = {}
      <4>1. Chosen(f, r)[r] = 0
        BY <3>2, <3>3 DEF Sums
      <4> QED BY <3>1, <3>3, <4>1
    <3>4. CASE r # {}
      <4> DEFINE q == r \ {Pick(r)}
      <4>1. q \in SUBSET r /\ q # r /\ IsFiniteSet(q) /\ q # T
        BY <3>1, <3>4, PickIn, FS_Subset
      <4>2. Sums(f, q, Chosen(f, q))
        BY <1>1, <3>1, <4>1
      <4>3. Chosen(f, r)[q] = Chosen(f, q)[q]
        <5> HIDE DEF q, r
        <5> QED BY <3>2, <4>1, <4>2, SumsUnique
      <4>4. Chosen(f, r)[r] = f[Pick(r)] + Chosen(f, r)[q]
        <5> HIDE DEF r
        <5> QED BY <3>2, <3>4 DEF Sums
      <4>5. g[r] = f[Pick(r)] + Chosen(f, q)[q]
        <5> HIDE DEF r
        <5> QED BY <3>1, <3>4
      <4> QED BY <4>3, <4>4, <4>5
    <3> QED BY <3>3, <3>4
  <2>2. ASSUME NEW s \in SUBSET T
        PROVE  g[s] = IF s = {} THEN 0 ELSE f[Pick(s)] + g[s \ {Pick(s)}]
    BY <2>1
  <2>3. Sums(f, T, g)
    <3>1. g = [s \in SUBSET T |-> g[s]]
      OBVIOUS
    <3> HIDE DEF g
    <3> QED BY <2>2, <3>1, Zenon DEF Sums
  <2>4. Sums(f, T, Chosen(f, T))
    <3> HIDE DEF g
    <3> QED BY <2>3, Zenon DEF Chosen
  <2> QED BY <2>4
<1> HIDE DEF Good
<1>2. S \in Good
  BY <1>1, FiniteInduction
<1> QED BY <1>2 DEF Good

\* A sum is what it picks first and the sum of the rest.
LEMMA SumPicks ==
    ASSUME NEW f, NEW S, IsFiniteSet(S)
    PROVE  SumFunctionOnSet(f, S) = IF S = {} THEN 0 ELSE f[Pick(S)] + SumFunctionOnSet(f, S \ {Pick(S)})
<1>1. Sums(f, S, Chosen(f, S))
  BY SumsExist
<1>2. Chosen(f, S)[S] = IF S = {} THEN 0 ELSE f[Pick(S)] + Chosen(f, S)[S \ {Pick(S)}]
  BY <1>1 DEF Sums
<1>3. CASE S # {}
  <2> DEFINE r == S \ {Pick(S)}
  <2>1. IsFiniteSet(r)
    BY FS_Subset
  <2>2. Sums(f, r, Chosen(f, r))
    BY <2>1, SumsExist
  <2>3. Chosen(f, S)[r] = Chosen(f, r)[r]
    <3>1. r \in SUBSET (S \cap r)
      OBVIOUS
    <3> HIDE DEF r
    <3> QED BY <1>1, <2>1, <2>2, <3>1, SumsUnique
  <2> QED BY <1>2, <1>3, <2>3, SumUnfolded
<1>4. CASE S = {}
  BY <1>2, <1>4, SumUnfolded
<1> QED BY <1>3, <1>4

\* A sum of integers is one, and adds its elements in any order.
LEMMA SumType ==
    ASSUME NEW f, NEW S, IsFiniteSet(S), \A i \in S : f[i] \in Int
    PROVE  SumFunctionOnSet(f, S) \in Int
<1> DEFINE Good == {T \in SUBSET S : SumFunctionOnSet(f, T) \in Int}
<1>1. ASSUME NEW T \in SUBSET S, \A U \in SUBSET T : U # T => U \in Good
      PROVE  T \in Good
  <2>1. SumFunctionOnSet(f, T) = IF T = {} THEN 0 ELSE f[Pick(T)] + SumFunctionOnSet(f, T \ {Pick(T)})
    BY FS_Subset, SumPicks
  <2>2. T # {} => /\ Pick(T) \in S /\ f[Pick(T)] \in Int 
                  /\ T \ {Pick(T)} \in SUBSET T /\ T \ {Pick(T)} # T
    BY PickIn
  <2> QED BY <1>1, <2>1, <2>2
<1> HIDE DEF Good
<1>2. S \in Good
  BY <1>1, FiniteInduction
<1> QED BY <1>2 DEF Good

LEMMA SumTakes ==
    ASSUME NEW f, NEW S, IsFiniteSet(S), \A i \in S : f[i] \in Int, NEW x \in S
    PROVE  SumFunctionOnSet(f, S) = f[x] + SumFunctionOnSet(f, S \ {x})
<1> DEFINE Good == {T \in SUBSET S : \A y \in T : SumFunctionOnSet(f, T) = f[y] + SumFunctionOnSet(f, T \ {y})}
<1>1. ASSUME NEW T \in SUBSET S, \A U \in SUBSET T : U # T => U \in Good, NEW y \in T
      PROVE  SumFunctionOnSet(f, T) = f[y] + SumFunctionOnSet(f, T \ {y})
  <2> DEFINE p == Pick(T)
  <2>1. /\ p \in T /\ IsFiniteSet(T) 
        /\ SumFunctionOnSet(f, T) = f[p] + SumFunctionOnSet(f, T \ {p})
    BY FS_Subset, PickIn, SumPicks
  <2>2. CASE p = y
    BY <2>1, <2>2
  <2>3. CASE p # y
    <3> HIDE DEF p
    <3>1. SumFunctionOnSet(f, T \ {p}) = f[y] + SumFunctionOnSet(f, (T \ {p}) \ {y})
      <4>1. T \ {p} \in Good
        BY <1>1, <2>1
      <4> QED BY <2>3, <4>1
    <3>2. SumFunctionOnSet(f, T \ {y}) = f[p] + SumFunctionOnSet(f, (T \ {y}) \ {p})
      <4>1. T \ {y} \in Good
        BY <1>1
      <4> QED BY <2>1, <2>3, <4>1
    <3>3. (T \ {p}) \ {y} = (T \ {y}) \ {p}
      OBVIOUS
    <3>4. f[p] \in Int /\ f[y] \in Int /\ SumFunctionOnSet(f, (T \ {p}) \ {y}) \in Int
      <4>1. IsFiniteSet((T \ {p}) \ {y}) /\ \A i \in (T \ {p}) \ {y} : f[i] \in Int
        BY <2>1, FS_Subset
      <4> QED BY <2>1, <4>1, SumType
    <3> DEFINE rest == SumFunctionOnSet(f, (T \ {p}) \ {y})
    <3>5. SumFunctionOnSet(f, T) = f[p] + (f[y] + rest)
      BY <2>1, <3>1
    <3>6. SumFunctionOnSet(f, T \ {y}) = f[p] + rest
      BY <3>2, <3>3
    <3>7. rest \in Int
      BY <3>4
    <3> HIDE DEF rest
    <3> QED BY <3>4, <3>5, <3>6, <3>7
  <2> QED BY <2>2, <2>3
<1>2. \A T \in SUBSET S : (\A U \in SUBSET T : U # T => U \in Good) => T \in Good
  BY <1>1
<1> HIDE DEF Good
<1>3. S \in Good
  BY <1>2, FiniteInduction
<1> QED BY <1>3 DEF Good

LEMMA SumOfNone ==
    ASSUME NEW f
    PROVE  SumFunctionOnSet(f, {}) = 0
BY FS_EmptySet, SumPicks

\* Only the values on the set count.
LEMMA SumSame ==
    ASSUME NEW f, NEW g, NEW S, IsFiniteSet(S), \A i \in S : f[i] = g[i]
    PROVE  SumFunctionOnSet(f, S) = SumFunctionOnSet(g, S)
<1> DEFINE Good == {T \in SUBSET S : SumFunctionOnSet(f, T) = SumFunctionOnSet(g, T)}
<1>1. ASSUME NEW T \in SUBSET S, \A U \in SUBSET T : U # T => U \in Good
      PROVE  T \in Good
  <2>1. /\ SumFunctionOnSet(f, T) = IF T = {} THEN 0
                                     ELSE f[Pick(T)] + SumFunctionOnSet(f, T \ {Pick(T)})
        /\ SumFunctionOnSet(g, T) = IF T = {} THEN 0
                                     ELSE g[Pick(T)] + SumFunctionOnSet(g, T \ {Pick(T)})
    BY FS_Subset, SumPicks
  <2>2. T # {} => Pick(T) \in S /\ T \ {Pick(T)} \in SUBSET T /\ T \ {Pick(T)} # T
    BY PickIn
  <2> QED BY <1>1, <2>1, <2>2
<1> HIDE DEF Good
<1>2. S \in Good
  BY <1>1, FiniteInduction
<1> QED BY <1>2 DEF Good

\* A sum of naturals is one.
LEMMA SumOfNaturals ==
    ASSUME NEW f, NEW S, IsFiniteSet(S), \A i \in S : f[i] \in Nat
    PROVE  SumFunctionOnSet(f, S) \in Nat
<1> DEFINE Good == {T \in SUBSET S : SumFunctionOnSet(f, T) \in Nat}
<1>1. ASSUME NEW T \in SUBSET S, \A U \in SUBSET T : U # T => U \in Good
      PROVE  T \in Good
  <2>1. SumFunctionOnSet(f, T) = IF T = {} THEN 0
                                 ELSE f[Pick(T)] + SumFunctionOnSet(f, T \ {Pick(T)})
    BY FS_Subset, SumPicks
  <2>2. T # {} => /\ Pick(T) \in S /\ f[Pick(T)] \in Nat
                  /\ T \ {Pick(T)} \in SUBSET T /\ T \ {Pick(T)} # T
    BY PickIn
  <2> QED BY <1>1, <2>1, <2>2
<1> HIDE DEF Good
<1>2. S \in Good
  BY <1>1, FiniteInduction
<1> QED BY <1>2 DEF Good

\* A part of the set and the rest.
LEMMA SumSplits ==
    ASSUME NEW f, NEW S, IsFiniteSet(S), \A i \in S : f[i] \in Int, NEW P \in SUBSET S
    PROVE  SumFunctionOnSet(f, S) = SumFunctionOnSet(f, S \ P) + SumFunctionOnSet(f, P)
<1> DEFINE Good == {T \in SUBSET P : SumFunctionOnSet(f, S)
                                       = SumFunctionOnSet(f, S \ T) + SumFunctionOnSet(f, T)}
<1>0. /\ IsFiniteSet(P)
      /\ \A T \in SUBSET S : IsFiniteSet(T) /\ SumFunctionOnSet(f, T) \in Int
  BY FS_Subset, SumType
<1>1. ASSUME NEW T \in SUBSET P, \A U \in SUBSET T : U # T => U \in Good
      PROVE  T \in Good
  <2>1. CASE T = {}
    <3>1. S \ T = S
      BY <2>1
    <3> QED BY <1>0, <2>1, <3>1, SumOfNone
  <2>2. CASE T # {}
    <3>1. PICK x \in T : TRUE
      BY <2>2
    <3>2. SumFunctionOnSet(f, S) = SumFunctionOnSet(f, S \ (T \ {x})) + SumFunctionOnSet(f, T \ {x})
      BY <1>1
    <3>3. SumFunctionOnSet(f, T) = f[x] + SumFunctionOnSet(f, T \ {x})
      BY <1>0, SumTakes
    <3>4. SumFunctionOnSet(f, S \ (T \ {x}))
            = f[x] + SumFunctionOnSet(f, (S \ (T \ {x})) \ {x})
      <4>1. x \in S \ (T \ {x}) /\ IsFiniteSet(S \ (T \ {x}))
        BY <1>0, FS_Subset
      <4> QED BY <4>1, SumTakes
    <3>5. (S \ (T \ {x})) \ {x} = S \ T
      OBVIOUS
    <3>6. /\ f[x] \in Int /\ SumFunctionOnSet(f, S \ T) \in Int
          /\ SumFunctionOnSet(f, T \ {x}) \in Int
      BY <1>0
    <3>7. SumFunctionOnSet(f, S)
            = (f[x] + SumFunctionOnSet(f, S \ T)) + SumFunctionOnSet(f, T \ {x})
      BY <3>2, <3>4, <3>5
    <3>8. SumFunctionOnSet(f, S) = SumFunctionOnSet(f, S \ T) + SumFunctionOnSet(f, T)
      BY <3>3, <3>6, <3>7
    <3> QED BY <3>8
  <2> QED BY <2>1, <2>2
<1> HIDE DEF Good
<1>2. P \in Good
  BY <1>0, <1>1, FiniteInduction
<1> QED BY <1>2 DEF Good

\* Differences are summed one by one.
LEMMA SumOfDifferences ==
    ASSUME NEW f, NEW g, NEW h, NEW S, IsFiniteSet(S),
           \A i \in S : f[i] \in Int /\ g[i] \in Int /\ h[i] = f[i] - g[i]
    PROVE  SumFunctionOnSet(h, S) = SumFunctionOnSet(f, S) - SumFunctionOnSet(g, S)
<1> DEFINE Good == {T \in SUBSET S : SumFunctionOnSet(h, T)
                                       = SumFunctionOnSet(f, T) - SumFunctionOnSet(g, T)}
<1>1. ASSUME NEW T \in SUBSET S, \A U \in SUBSET T : U # T => U \in Good
      PROVE  T \in Good
  <2> DEFINE x    == Pick(T)
             F(U) == SumFunctionOnSet(f, U)
             G(U) == SumFunctionOnSet(g, U)
             H(U) == SumFunctionOnSet(h, U)
  <2>1. /\ F(T) = IF T = {} THEN 0 ELSE f[x] + F(T \ {x})
        /\ G(T) = IF T = {} THEN 0 ELSE g[x] + G(T \ {x})
        /\ H(T) = IF T = {} THEN 0 ELSE h[x] + H(T \ {x})
    BY FS_Subset, SumPicks
  <2>2. CASE T # {}
    <3>1. x \in S /\ T \ {x} \in SUBSET T /\ T \ {x} # T
      BY <2>2, PickIn
    <3>2. IsFiniteSet(T \ {x}) /\ F(T \ {x}) \in Int /\ G(T \ {x}) \in Int
      BY <3>1, FS_Subset, SumType
    <3>3. H(T \ {x}) = F(T \ {x}) - G(T \ {x})
      BY <1>1, <3>1
    <3>4. f[x] \in Int /\ g[x] \in Int /\ h[x] = f[x] - g[x]
      BY <3>1
    <3> HIDE DEF x, F, G, H
    <3>5. H(T) = F(T) - G(T)
      BY <2>1, <2>2, <3>2, <3>3, <3>4
    <3> QED BY <3>5 DEF F, G, H
  <2>3. CASE T = {}
    BY <2>3, SumOfNone
  <2> QED BY <2>2, <2>3
<1> HIDE DEF Good
<1>2. S \in Good
  BY <1>1, FiniteInduction
<1> QED BY <1>2 DEF Good

\* A bound of each value bounds the sum.
LEMMA SumAtMost ==
    ASSUME NEW f, NEW S, IsFiniteSet(S), NEW b \in Nat, \A i \in S : f[i] \in 0..b
    PROVE  SumFunctionOnSet(f, S) <= b * Cardinality(S)
<1> DEFINE Good == {T \in SUBSET S : SumFunctionOnSet(f, T) <= b * Cardinality(T)}
<1>1. ASSUME NEW T \in SUBSET S, \A U \in SUBSET T : U # T => U \in Good
      PROVE  T \in Good
  <2>1. CASE T = {}
    BY <2>1, SumOfNone, FS_EmptySet
  <2>2. CASE T # {}
    <3>1. PICK x \in T : TRUE
      BY <2>2
    <3>2. /\ IsFiniteSet(T) /\ Cardinality(T) \in Nat
          /\ Cardinality(T \ {x}) = Cardinality(T) - 1
          /\ SumFunctionOnSet(f, T \ {x}) \in Int
      BY FS_Subset, FS_CardinalityType, FS_RemoveElement, SumType
    <3>3. SumFunctionOnSet(f, T) = f[x] + SumFunctionOnSet(f, T \ {x})
      BY <3>2, SumTakes
    <3>4. SumFunctionOnSet(f, T \ {x}) <= b * (Cardinality(T) - 1)
      BY <1>1, <3>2
    <3>5. b * (Cardinality(T) - 1) = b * Cardinality(T) - b /\ b * Cardinality(T) \in Int
      BY <3>2
    <3>6. f[x] \in 0..b
      OBVIOUS
    <3> DEFINE c == b * Cardinality(T)
    <3>7. b * (Cardinality(T) - 1) = c - b /\ c \in Int
      BY <3>5
    <3> HIDE DEF c
    <3>8. SumFunctionOnSet(f, T) <= c
      BY <3>2, <3>3, <3>4, <3>6, <3>7
    <3> QED BY <3>8 DEF c
  <2> QED BY <2>1, <2>2
<1> HIDE DEF Good
<1>2. S \in Good
  BY <1>1, FiniteInduction
<1> QED BY <1>2 DEF Good

LEMMA SumOfOne ==
    ASSUME NEW f, NEW x, f[x] \in Int
    PROVE  SumFunctionOnSet(f, {x}) = f[x]
<1>1. IsFiniteSet({x}) /\ {x} \ {x} = {}
  BY FS_Singleton
<1>2. SumFunctionOnSet(f, {x}) = f[x] + SumFunctionOnSet(f, {})
  BY <1>1, SumTakes
<1> QED BY <1>2, SumOfNone

\* Values that change on a part of the set.
LEMMA SumChanges ==
    ASSUME NEW S, IsFiniteSet(S), NEW P \in SUBSET S, NEW f, NEW g, NEW h,
           \A i \in S : f[i] \in Int /\ g[i] \in Int,
           \A i \in S \ P : g[i] = f[i],
           \A i \in P : h[i] = f[i] - g[i]
    PROVE  SumFunctionOnSet(g, S) = SumFunctionOnSet(f, S) - SumFunctionOnSet(h, P)
<1>1. /\ IsFiniteSet(P) /\ IsFiniteSet(S \ P)
      /\ SumFunctionOnSet(f, P) \in Int /\ SumFunctionOnSet(f, S \ P) \in Int
      /\ SumFunctionOnSet(g, P) \in Int
  BY FS_Subset, SumType
<1>2. /\ SumFunctionOnSet(f, S) = SumFunctionOnSet(f, S \ P) + SumFunctionOnSet(f, P)
      /\ SumFunctionOnSet(g, S) = SumFunctionOnSet(g, S \ P) + SumFunctionOnSet(g, P)
  BY SumSplits
<1>3. SumFunctionOnSet(g, S \ P) = SumFunctionOnSet(f, S \ P)
  BY <1>1, SumSame
<1>4. SumFunctionOnSet(h, P) = SumFunctionOnSet(f, P) - SumFunctionOnSet(g, P)
  BY <1>1, SumOfDifferences
<1> QED BY <1>1, <1>2, <1>3, <1>4

-----------------------------------------------------------------------------
(* The elements of a finite set of naturals in ascending order. *)

LEMMA Enumerated ==
    ASSUME NEW S \in SUBSET Nat, IsFiniteSet(S)
    PROVE  \E f \in [1..Cardinality(S) -> S] :
             \A i, j \in 1..Cardinality(S) : i < j => f[i] < f[j]
<1> DEFINE Rises(T) == \E f \in [1..Cardinality(T) -> T] :
                         \A i, j \in 1..Cardinality(T) : i < j => f[i] < f[j]
           Good     == {T \in SUBSET S : Rises(T)}
<1>1. ASSUME NEW T \in SUBSET S, \A U \in SUBSET T : U # T => U \in Good
      PROVE  Rises(T)
  <2>1. IsFiniteSet(T) /\ Cardinality(T) \in Nat
    BY FS_Subset, FS_CardinalityType
  <2>2. CASE T = {}
    <3>1. Cardinality(T) = 0 /\ 1..0 = {}
      BY <2>2, FS_EmptySet
    <3>2. [i \in {} |-> 0] \in [{} -> T]
      OBVIOUS
    <3> QED BY <3>1, <3>2
  <2>3. CASE T # {}
    <3>1. PICK m \in T : \A x \in T : x <= m
      <4>1. T \in SUBSET Nat
        OBVIOUS
      <4> QED BY <2>1, <2>3, <4>1, GreatestNatural
    <3> DEFINE U == T \ {m}
               n == Cardinality(U)
    <3>2. IsFiniteSet(U) /\ n \in Nat /\ Cardinality(T) = n + 1
      <4>1. Cardinality(U) = Cardinality(T) - 1 /\ IsFiniteSet(U)
        BY <2>1, FS_RemoveElement
      <4> QED BY <2>1, <4>1, FS_CardinalityType
    <3>3. Rises(U)
      <4>1. U \in SUBSET T /\ U # T
        OBVIOUS
      <4> HIDE DEF U, Rises
      <4> QED BY <1>1, <4>1
    <3> HIDE DEF n
    <3>4. PICK f \in [1..n -> U] : \A i, j \in 1..n : i < j => f[i] < f[j]
      BY <3>3 DEF n
    <3> DEFINE g == [i \in 1..(n + 1) |-> IF i = n + 1 THEN m ELSE f[i]]
    <3>5. \A i \in 1..n : i \in 1..(n + 1) /\ i # n + 1 /\ f[i] \in T /\ f[i] \in Nat /\ f[i] < m
      <4> TAKE i \in 1..n
      <4>1. i \in 1..(n + 1) /\ i # n + 1
        BY <3>2
      <4>2. f[i] \in T /\ f[i] # m
        BY <3>4
      <4>3. f[i] \in Nat /\ m \in Nat /\ f[i] <= m
        BY <3>1, <4>2
      <4> QED BY <4>1, <4>2, <4>3
    <3>6. \A i \in 1..(n + 1) : i \in 1..n \/ i = n + 1
      BY <3>2
    <3>7. g \in [1..(n + 1) -> T]
      BY <3>5, <3>6
    <3>8. ASSUME NEW i \in 1..(n + 1), NEW j \in 1..(n + 1), i < j PROVE g[i] < g[j]
      <4>1. i \in 1..n /\ (j = n + 1 \/ j \in 1..n)
        BY <3>2, <3>8
      <4>2. CASE j = n + 1
        BY <3>5, <4>1, <4>2
      <4>3. CASE j \in 1..n
        BY <3>4, <3>5, <3>8, <4>1, <4>3
      <4> QED BY <4>1, <4>2, <4>3
    <3> HIDE DEF g
    <3> QED BY <3>2, <3>7, <3>8
  <2> QED BY <2>2, <2>3
<1>2. \A T \in SUBSET S : (\A U \in SUBSET T : U # T => U \in Good) => T \in Good
  BY <1>1
<1>3. S \in Good
  <2> HIDE DEF Good
  <2> QED BY <1>2, FiniteInduction
<1> QED BY <1>3

\* Such an enumeration leaves nothing out.
LEMMA EnumerationCovers ==
    ASSUME NEW S \in SUBSET Nat, IsFiniteSet(S), NEW f \in [1..Cardinality(S) -> S],
           \A i, j \in 1..Cardinality(S) : i < j => f[i] < f[j]
    PROVE  \A x \in S : \E i \in 1..Cardinality(S) : f[i] = x
<1> DEFINE n == Cardinality(S)
<1>1. n \in Nat
  BY FS_CardinalityType
<1> HIDE DEF n
<1>2. \A i, j \in 1..n : f[i] = f[j] => i = j
  <2> SUFFICES ASSUME NEW i \in 1..n, NEW j \in 1..n, f[i] = f[j] PROVE i = j
    OBVIOUS
  <2>1. f[i] \in Nat /\ f[j] \in Nat
    BY DEF n
  <2>2. ~(i < j) /\ ~(j < i)
    BY <2>1 DEF n
  <2> QED BY <1>1, <2>2
<1>3. f \in Injection(1..n, S)
  BY <1>2 DEF Injection, IsInjective, n
<1>4. IsFiniteSet(1..n) /\ Cardinality(1..n) = n
  <2>1. 1 \in Int /\ n \in Int
    BY <1>1
  <2>2. IsFiniteSet(1..n) /\ Cardinality(1..n) = IF 1 > n THEN 0 ELSE n - 1 + 1
    BY <2>1, FS_Interval
  <2> QED BY <1>1, <2>2
<1>5. f \in Surjection(1..n, S)
  BY <1>3, <1>4, FS_Injection DEF n
<1> QED BY <1>5 DEF Surjection, n

=============================================================================
