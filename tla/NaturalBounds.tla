---------------------------- MODULE NaturalBounds ----------------------------
(***************************************************************************)
(* Least and greatest elements of sets of natural numbers.  A proof by     *)
(* induction takes the least number for which its claim would fail, and so *)
(* does the proof that a function defined step by step exists.             *)
(***************************************************************************)
EXTENDS Naturals, FiniteSets, TLAPS, FiniteSetTheorems, WellFoundedInduction

\* Every set of natural numbers but the empty one has a least element.
LEMMA LeastNat ==
    ASSUME NEW S \in SUBSET Nat, S # {}
    PROVE  \E n \in S : \A m \in S : n <= m
<1> DEFINE Less == {ss \in Nat \X Nat : ss[1] < ss[2]}
<1>1. IsWellFoundedOn(Less, Nat)
  BY NatLessThanWellFounded DEF OpToRel
<1>2. \E n \in S : \A m \in S : ~(<<m, n>> \in Less)
  <2> HIDE DEF Less
  <2> QED
    BY <1>1, WFMin
<1>3. ASSUME NEW m \in Nat, NEW n \in Nat, ~(<<m, n>> \in Less) PROVE n <= m
  <2>1. <<m, n>> \in Nat \X Nat /\ <<m, n>>[1] = m /\ <<m, n>>[2] = n
    OBVIOUS
  <2>2. ~(m < n)
    BY <1>3, <2>1
  <2> QED
    BY <2>2
<1> QED
  BY <1>2, <1>3

\* Every finite one has a greatest element: a smallest set without one would still have
\* none when an element is taken from it.
LEMMA GreatestNat ==
    ASSUME NEW S \in SUBSET Nat, S # {}, IsFiniteSet(S)
    PROVE  \E n \in S : \A m \in S : m <= n
<1> DEFINE Topped(T) == \E n \in T : \A m \in T : m <= n
           bad == {k \in Nat : \E T \in SUBSET Nat : /\ IsFiniteSet(T) /\ T # {}
                                                     /\ Cardinality(T) = k /\ ~Topped(T)}
<1>1. SUFFICES ASSUME ~Topped(S) PROVE FALSE
  OBVIOUS
<1>2. Cardinality(S) \in bad
  BY <1>1, FS_CardinalityType
<1>3. PICK k \in bad : \A j \in bad : k <= j
  <2> HIDE DEF bad
  <2>1. bad \subseteq Nat
    BY DEF bad
  <2> QED
    BY <1>2, <2>1, LeastNat
<1>4. PICK T \in SUBSET Nat : /\ IsFiniteSet(T) /\ T # {} /\ Cardinality(T) = k /\ ~Topped(T)
  OBVIOUS
<1>5. PICK x \in T : TRUE
  BY <1>4
<1>6. /\ IsFiniteSet(T \ {x}) /\ Cardinality(T \ {x}) = k - 1 /\ k - 1 \in Nat
  <2>1. IsFiniteSet(T \ {x}) /\ Cardinality(T \ {x}) = k - 1
    BY <1>4, <1>5, FS_RemoveElement
  <2>2. Cardinality(T \ {x}) \in Nat
    BY <2>1, FS_CardinalityType
  <2> QED
    BY <2>1, <2>2
<1>7. Topped(T \ {x}) \/ T \ {x} = {}
  <2>1. k - 1 \notin bad
    BY <1>3, <1>6
  <2> QED
    BY <1>6, <2>1
<1>8. CASE T \ {x} = {}
  <2>1. \A m \in T : m <= x
    BY <1>5, <1>8
  <2> QED
    BY <1>4, <1>5, <2>1
<1>9. CASE Topped(T \ {x})
  <2>1. PICK n \in T \ {x} : \A m \in T \ {x} : m <= n
    BY <1>9
  <2>2. n \in Nat /\ x \in Nat
    BY <1>5
  <2>3. CASE x <= n
    BY <1>4, <2>1, <2>3
  <2>4. CASE ~(x <= n)
    <3>1. \A m \in T : m <= x
      BY <2>1, <2>2, <2>4
    <3> QED
      BY <1>4, <1>5, <3>1
  <2> QED
    BY <2>3, <2>4
<1> QED
  BY <1>7, <1>8, <1>9

\* Among the numbers up to N, some of any are followed by none of them: a claim that fails
\* somewhere fails last where it holds of the next.
LEMMA LastOf ==
    ASSUME NEW N \in Nat, NEW S \in SUBSET (1..N), S # {}
    PROVE  \E n \in S : n + 1 \notin S
<1>1. IsFiniteSet(S) /\ S \in SUBSET Nat
  <2>1. IsFiniteSet(1..N)
    BY FS_Interval
  <2>2. IsFiniteSet(S)
    BY <2>1, FS_Subset
  <2> QED
    BY <2>2
<1>2. PICK n \in S : \A m \in S : m <= n
  BY <1>1, GreatestNat
<1>3. n \in Nat /\ ~(n + 1 <= n)
  BY <1>1
<1> QED
  BY <1>2, <1>3

\* The functions that give each of N steps from a value of D to the next.
StepFunctions(N, D) == [1..N -> [D -> D]]

\* Some function takes the values that the steps of F lead to from a.
HasRun(N, D, a, F) == \E g \in [0..N -> D] : g[0] = a /\ \A n \in 1..N : g[n] = F[n][g[n - 1]]

\* There always is one: the least bound for which none did would be one step above one
\* that has it.
LEMMA StepsExist ==
    ASSUME NEW N \in Nat, NEW D, NEW a \in D, NEW F \in StepFunctions(N, D)
    PROVE  HasRun(N, D, a, F)
<1> DEFINE Runs(g, k) == g[0] = a /\ \A n \in 1..k : g[n] = F[n][g[n - 1]]
           bad == {k \in 0..N : ~\E g \in [0..k -> D] : Runs(g, k)}
<1>1. SUFFICES ASSUME N \in bad PROVE FALSE
  BY DEF HasRun
<1> USE DEF StepFunctions
<1>2. PICK k \in bad : \A j \in bad : k <= j
  <2>1. bad \in SUBSET Nat
    OBVIOUS
  <2> HIDE DEF bad
  <2> QED
    BY <1>1, <2>1, LeastNat
<1>3. k \in 0..N /\ ~\E g \in [0..k -> D] : Runs(g, k)
  OBVIOUS
<1>4. k # 0
  <2> DEFINE start == [n \in 0..0 |-> a]
  <2>1. start \in [0..0 -> D] /\ Runs(start, 0)
    OBVIOUS
  <2> QED
    BY <1>3, <2>1
<1>5. PICK g \in [0..(k - 1) -> D] : Runs(g, k - 1)
  <2>1. k - 1 \in 0..N /\ ~(k <= k - 1)
    BY <1>3, <1>4
  <2>2. k - 1 \notin bad
    <3> HIDE DEF bad
    <3> QED
      BY <1>2, <2>1
  <2> QED
    BY <2>1, <2>2
<1> DEFINE h == [n \in 0..k |-> IF n = k THEN F[k][g[k - 1]] ELSE g[n]]
<1>6. g[k - 1] \in D /\ F[k] \in [D -> D]
  BY <1>3, <1>4
<1>7. h \in [0..k -> D]
  BY <1>3, <1>4, <1>6
<1>8. ASSUME NEW n \in 1..k PROVE h[n] = F[n][h[n - 1]]
  <2>1. CASE n = k
    BY <1>3, <1>4, <2>1
  <2>2. CASE n # k
    BY <1>3, <1>4, <1>5, <2>2
  <2> QED
    BY <2>1, <2>2
<1>9. h[0] = a
  BY <1>3, <1>4, <1>5
<1> QED
  BY <1>3, <1>7, <1>8, <1>9

==============================================================================
