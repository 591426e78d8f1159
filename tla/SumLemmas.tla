------------------------------ MODULE SumLemmas ------------------------------
(***************************************************************************)
(* What MapThenSumSet of the community modules adds up: it is defined by a *)
(* recursive function over the subsets of a set, which takes the elements  *)
(* in the order CHOOSE gives them.  For a finite set and integers the      *)
(* function exists and the order does not matter.  Induction is by the     *)
(* least counterexample, which needs no theorem about operators.           *)
(***************************************************************************)
EXTENDS Integers, FiniteSetsExt, FiniteSetTheorems, WellFoundedInduction, TLAPS

\* What MapThenSumSet makes of a sequence of choices.
Picked(s) == CHOOSE x \in s : TRUE
IsSumOver(F, g, S) ==
    F = [s \in SUBSET S |-> IF s = {} THEN 0 ELSE g[Picked(s)] + F[s \ {Picked(s)}]]
PartialSums(g, S) == CHOOSE F : IsSumOver(F, g, S)

LEMMA MapThenSumSetIsSum ==
    ASSUME NEW g, NEW S PROVE MapThenSumSet(LAMBDA x : g[x], S) = PartialSums(g, S)[S]
  BY Zenon DEF MapThenSumSet, MapThenFoldSet, PartialSums, IsSumOver, Picked

LEMMA LeastNumber ==
    ASSUME NEW T \in SUBSET Nat, T # {} PROVE \E n \in T : \A m \in T : n <= m
<1>1. \E n \in T : \A m \in T : ~(<<m, n>> \in OpToRel(<, Nat))
  BY NatLessThanWellFounded, WFMin
<1>2. \A m, n \in Nat : m < n => <<m, n>> \in OpToRel(<, Nat)
  BY DEF OpToRel
<1>3. \A m, n \in T : ~(m < n) => n <= m
  OBVIOUS
<1> QED
  BY <1>1, <1>2, <1>3

LEMMA CountingInduction ==
    ASSUME NEW Q, 0 \in Q, \A n \in Nat : n \in Q => n + 1 \in Q
    PROVE  Nat \subseteq Q
<1> SUFFICES ASSUME Nat \ Q # {} PROVE FALSE
  OBVIOUS
<1>1. PICK n \in Nat \ Q : \A m \in Nat \ Q : n <= m
  BY LeastNumber, Nat \ Q \in SUBSET Nat
<1>2. n - 1 \in Nat /\ n - 1 \in Q
  BY <1>1
<1> QED
  BY <1>1, <1>2

LEMMA SubsetInduction ==
    ASSUME NEW S, IsFiniteSet(S), NEW Q,
           \A s \in SUBSET S : (\A t \in SUBSET s : t # s => t \in Q) => s \in Q
    PROVE  (SUBSET S) \subseteq Q
<1> DEFINE Left == {Cardinality(s) : s \in (SUBSET S) \ Q}
<1> SUFFICES ASSUME (SUBSET S) \ Q # {} PROVE FALSE
  OBVIOUS
<1>1. \A s \in SUBSET S : IsFiniteSet(s) /\ Cardinality(s) \in Nat
  BY FS_Subset, FS_CardinalityType
<1>2. Left \in SUBSET Nat /\ Left # {}
  <2>1. Left \in SUBSET Nat
    BY <1>1
  <2>2. PICK s \in (SUBSET S) \ Q : TRUE
    OBVIOUS
  <2>3. Cardinality(s) \in Left
    BY <2>2
  <2> QED
    BY <2>1, <2>3
<1>3. PICK n \in Left : \A m \in Left : n <= m
  BY <1>2, LeastNumber
<1>4. PICK s \in (SUBSET S) \ Q : Cardinality(s) = n
  BY <1>3
<1>5. PICK t \in SUBSET s : t # s /\ t \notin Q
  <2>1. s \in SUBSET S /\ s \notin Q
    BY <1>4
  <2> QED
    BY <2>1
<1>6. Cardinality(t) <= Cardinality(s) /\ Cardinality(t) # Cardinality(s)
  BY <1>1, <1>4, <1>5, FS_Subset
<1>7. Cardinality(t) \in Left
  BY <1>4, <1>5
<1>8. n <= Cardinality(t) /\ Cardinality(t) \in Nat /\ n \in Nat
  BY <1>2, <1>3, <1>7
<1> QED
  BY <1>4, <1>6, <1>8

-----------------------------------------------------------------------------
LEMMA PickedIsOne == ASSUME NEW s, s # {} PROVE Picked(s) \in s
  BY DEF Picked

\* The recursion has a solution: on the sets of at most n elements, for every n.
LEMMA SumExists ==
    ASSUME NEW S, IsFiniteSet(S), NEW g PROVE \E F : IsSumOver(F, g, S)
<1> DEFINE Small(n) == {s \in SUBSET S : Cardinality(s) <= n}
           Step(F, s) == IF s = {} THEN 0 ELSE g[Picked(s)] + F[s \ {Picked(s)}]
           Solves(F, n) == F = [s \in Small(n) |-> Step(F, s)]
           Q == {n \in Nat : \E F : Solves(F, n)}
<1>1. \A s \in SUBSET S : IsFiniteSet(s) /\ Cardinality(s) \in Nat /\ Cardinality(s) <= Cardinality(S)
  BY FS_Subset, FS_CardinalityType
<1>2. 0 \in Q
  <2>1. \A s \in Small(0) : s = {}
    BY <1>1, FS_EmptySet
  <2> DEFINE F == [s \in Small(0) |-> 0]
  <2>2. F = [s \in Small(0) |-> Step(F, s)]
    BY <2>1
  <2> QED
    BY <2>2
<1>3. ASSUME NEW n \in Nat, n \in Q PROVE n + 1 \in Q
  <2>1. PICK F : F = [s \in Small(n) |-> Step(F, s)]
    BY <1>3
  <2> DEFINE G == [s \in Small(n + 1) |-> Step(F, s)]
  <2>a. \A s \in Small(n) : s \in Small(n + 1)
    BY <1>1
  <2>b. \A s \in Small(n) : F[s] = Step(F, s)
    BY <2>1
  <2>c. \A s \in Small(n + 1) : G[s] = Step(F, s)
    OBVIOUS
  <2> HIDE DEF G
  <2>2. \A s \in Small(n) : G[s] = F[s]
    BY <2>a, <2>b, <2>c
  <2>3. \A s \in Small(n + 1) : s # {} => s \ {Picked(s)} \in Small(n)
    <3> SUFFICES ASSUME NEW s \in Small(n + 1), s # {} PROVE s \ {Picked(s)} \in Small(n)
      OBVIOUS
    <3>1. Cardinality(s \ {Picked(s)}) = Cardinality(s) - 1
      BY <1>1, PickedIsOne, FS_RemoveElement
    <3> QED
      BY <1>1, <3>1
  <2>4. \A s \in Small(n + 1) : Step(G, s) = Step(F, s)
    BY <2>2, <2>3
  <2>5. G = [s \in Small(n + 1) |-> Step(G, s)]
    BY <2>4 DEF G
  <2>6. Solves(G, n + 1)
    BY <2>5
  <2> HIDE DEF Solves
  <2> QED
    BY <2>6
<1>4. Cardinality(S) \in Q
  <2> HIDE DEF Q
  <2> QED
    BY <1>2, <1>3, CountingInduction, FS_CardinalityType
<1>5. Small(Cardinality(S)) = SUBSET S
  BY <1>1
<1> QED
  BY <1>4, <1>5 DEF IsSumOver

LEMMA SumEquation ==
    ASSUME NEW S, IsFiniteSet(S), NEW g
    PROVE  /\ PartialSums(g, S)[{}] = 0
           /\ \A s \in SUBSET S : s # {} =>
                 PartialSums(g, S)[s] = g[Picked(s)] + PartialSums(g, S)[s \ {Picked(s)}]
<1>1. IsSumOver(PartialSums(g, S), g, S)
  BY SumExists DEF PartialSums
<1> QED
  BY <1>1 DEF IsSumOver

\* The sum over a set depends on the set and on the values there, on nothing else.
LEMMA SameSums ==
    ASSUME NEW S, IsFiniteSet(S), NEW R, IsFiniteSet(R), NEW g, NEW h,
           NEW T \in SUBSET S, T \subseteq R, \A x \in T : g[x] = h[x]
    PROVE  PartialSums(g, S)[T] = PartialSums(h, R)[T]
<1> DEFINE F == PartialSums(g, S)
           G == PartialSums(h, R)
           Q == {s \in SUBSET T : F[s] = G[s]}
<1>1. /\ F[{}] = 0 /\ G[{}] = 0
      /\ \A s \in SUBSET T : s # {} => /\ F[s] = g[Picked(s)] + F[s \ {Picked(s)}]
                                     /\ G[s] = h[Picked(s)] + G[s \ {Picked(s)}]
  BY SumEquation
<1> HIDE DEF F, G
<1>2. ASSUME NEW s \in SUBSET T, \A t \in SUBSET s : t # s => t \in Q PROVE s \in Q
  <2>1. CASE s = {}
    BY <1>1, <2>1
  <2>2. CASE s # {}
    <3>1. Picked(s) \in s
      BY <2>2, PickedIsOne
    <3>2. s \ {Picked(s)} \in Q
      BY <1>2, <3>1
    <3>3. F[s] = G[s]
      BY <1>1, <2>2, <3>1, <3>2
    <3> QED
      BY <3>3
  <2> QED
    BY <2>1, <2>2
<1>3. IsFiniteSet(T)
  BY FS_Subset
<1>4. (SUBSET T) \subseteq Q
  <2> HIDE DEF Q
  <2> QED
    BY <1>2, <1>3, SubsetInduction
<1> QED
  BY <1>4 DEF F, G

\* Any element may be the last to be added.
LEMMA SumInAnyOrder ==
    ASSUME NEW S, IsFiniteSet(S), NEW g, \A x \in S : g[x] \in Int
    PROVE  \A s \in SUBSET S : /\ PartialSums(g, S)[s] \in Int
                              /\ \A a \in s : PartialSums(g, S)[s] = g[a] + PartialSums(g, S)[s \ {a}]
<1> DEFINE F == PartialSums(g, S)
           Q == {s \in SUBSET S : F[s] \in Int /\ \A a \in s : F[s] = g[a] + F[s \ {a}]}
<1>1. F[{}] = 0 /\ \A s \in SUBSET S : s # {} => F[s] = g[Picked(s)] + F[s \ {Picked(s)}]
  BY SumEquation
<1> HIDE DEF F
<1>2. ASSUME NEW s \in SUBSET S, \A t \in SUBSET s : t # s => t \in Q PROVE s \in Q
  <2>1. CASE s = {}
    BY <1>1, <2>1
  <2>2. CASE s # {}
    <3> DEFINE x == Picked(s)
    <3>1. x \in s
      BY <2>2, PickedIsOne
    <3> HIDE DEF x
    <3>2. F[s] = g[x] + F[s \ {x}]
      BY <1>1, <2>2 DEF x
    <3>3. \A a \in s : s \ {a} \in SUBSET s /\ s \ {a} # s
      OBVIOUS
    <3>4. \A a \in s : s \ {a} \in Q
      BY <1>2, <3>3
    <3>5. \A a \in s : F[s \ {a}] \in Int /\ g[a] \in Int
      BY <3>4
    <3>6. ASSUME NEW a \in s, a # x PROVE F[s] = g[a] + F[s \ {a}]
      <4>1. F[s \ {x}] = g[a] + F[(s \ {x}) \ {a}]
        BY <3>1, <3>4, <3>6
      <4>2. F[s \ {a}] = g[x] + F[(s \ {a}) \ {x}]
        BY <3>1, <3>4, <3>6
      <4>3. (s \ {x}) \ {a} = (s \ {a}) \ {x}
        OBVIOUS
      <4>4. (s \ {x}) \ {a} \in SUBSET s /\ (s \ {x}) \ {a} # s
        OBVIOUS
      <4>5. F[(s \ {x}) \ {a}] \in Int
        BY <1>2, <4>4
      <4>6. F[s] = g[x] + (g[a] + F[(s \ {x}) \ {a}])
        BY <3>2, <4>1
      <4>7. F[s \ {a}] = g[x] + F[(s \ {x}) \ {a}]
        BY <4>2, <4>3
      <4>8. g[x] \in Int /\ g[a] \in Int
        BY <3>1, <3>6
      <4> QED
        BY <4>5, <4>6, <4>7, <4>8
    <3>7. F[s] \in Int
      <4>1. F[s \ {x}] \in Int /\ g[x] \in Int
        BY <3>1, <3>5
      <4> QED
        BY <3>2, <4>1
    <3>8. \A a \in s : F[s] = g[a] + F[s \ {a}]
      BY <3>2, <3>6
    <3> QED
      BY <3>7, <3>8
  <2> QED
    BY <2>1, <2>2
<1>3. (SUBSET S) \subseteq Q
  <2> HIDE DEF Q
  <2> QED
    BY <1>2, SubsetInduction
<1> QED
  BY <1>3 DEF F

-----------------------------------------------------------------------------
\* What the modules use.
SumOf(g, S) == PartialSums(g, S)[S]

LEMMA SumType ==
    ASSUME NEW S, IsFiniteSet(S), NEW g, \A x \in S : g[x] \in Int PROVE SumOf(g, S) \in Int
  BY SumInAnyOrder DEF SumOf

LEMMA SumAgrees ==
    ASSUME NEW S, IsFiniteSet(S), NEW g, NEW h, \A x \in S : g[x] = h[x]
    PROVE  SumOf(g, S) = SumOf(h, S)
  BY SameSums, S \in SUBSET S DEF SumOf

LEMMA SumOfNothing == ASSUME NEW g PROVE SumOf(g, {}) = 0
  BY SumEquation, FS_EmptySet DEF SumOf

LEMMA SumWithout ==
    ASSUME NEW S, IsFiniteSet(S), NEW g, \A x \in S : g[x] \in Int, NEW a \in S
    PROVE  SumOf(g, S) = g[a] + SumOf(g, S \ {a})
<1>1. PartialSums(g, S)[S] = g[a] + PartialSums(g, S)[S \ {a}]
  BY SumInAnyOrder, S \in SUBSET S
<1>2. IsFiniteSet(S \ {a}) /\ S \ {a} \in SUBSET S
  BY FS_RemoveElement
<1>3. PartialSums(g, S)[S \ {a}] = PartialSums(g, S \ {a})[S \ {a}]
  BY <1>2, SameSums
<1> QED
  BY <1>1, <1>3 DEF SumOf

\* One value changes.
LEMMA SumUpdate ==
    ASSUME NEW S, IsFiniteSet(S), NEW g, NEW h, NEW a \in S,
           \A x \in S : g[x] \in Int, h[a] \in Int, \A x \in S \ {a} : h[x] = g[x]
    PROVE  SumOf(h, S) = (SumOf(g, S) - g[a]) + h[a]
<1>1. \A x \in S : h[x] \in Int
  OBVIOUS
<1>2. IsFiniteSet(S \ {a})
  BY FS_RemoveElement
<1>3. SumOf(g, S) = g[a] + SumOf(g, S \ {a}) /\ SumOf(h, S) = h[a] + SumOf(h, S \ {a})
  BY <1>1, SumWithout
<1>4. SumOf(h, S \ {a}) = SumOf(g, S \ {a}) /\ SumOf(g, S \ {a}) \in Int
  BY <1>2, SumAgrees, SumType
<1> QED
  BY <1>3, <1>4

LEMMA SumOfZeros ==
    ASSUME NEW S, IsFiniteSet(S), NEW g, \A x \in S : g[x] = 0 PROVE SumOf(g, S) = 0
<1> DEFINE Q == {s \in SUBSET S : SumOf(g, s) = 0}
<1>1. ASSUME NEW s \in SUBSET S, \A t \in SUBSET s : t # s => t \in Q PROVE s \in Q
  <2>1. CASE s = {}
    BY <2>1, SumOfNothing
  <2>2. CASE s # {}
    <3>1. PICK a \in s : TRUE
      BY <2>2
    <3>2. IsFiniteSet(s) /\ \A x \in s : g[x] \in Int
      BY FS_Subset
    <3>3. SumOf(g, s) = g[a] + SumOf(g, s \ {a})
      BY <3>1, <3>2, SumWithout
    <3>4. s \ {a} \in Q
      BY <1>1, <3>1
    <3> QED
      BY <3>1, <3>3, <3>4
  <2> QED
    BY <2>1, <2>2
<1>2. (SUBSET S) \subseteq Q
  <2> HIDE DEF Q
  <2> QED
    BY <1>1, SubsetInduction
<1> QED
  BY <1>2

LEMMA SumMonotone ==
    ASSUME NEW S, IsFiniteSet(S), NEW g, NEW h,
           \A x \in S : g[x] \in Int /\ h[x] \in Int /\ g[x] <= h[x]
    PROVE  SumOf(g, S) <= SumOf(h, S)
<1> DEFINE Q == {s \in SUBSET S : SumOf(g, s) <= SumOf(h, s)}
<1>1. ASSUME NEW s \in SUBSET S, \A t \in SUBSET s : t # s => t \in Q PROVE s \in Q
  <2>1. CASE s = {}
    BY <2>1, SumOfNothing
  <2>2. CASE s # {}
    <3>1. PICK a \in s : TRUE
      BY <2>2
    <3>2. IsFiniteSet(s) /\ IsFiniteSet(s \ {a})
      BY FS_Subset
    <3>3. SumOf(g, s) = g[a] + SumOf(g, s \ {a}) /\ SumOf(h, s) = h[a] + SumOf(h, s \ {a})
      BY <3>1, <3>2, SumWithout
    <3>4. SumOf(g, s \ {a}) \in Int /\ SumOf(h, s \ {a}) \in Int
      BY <3>2, SumType
    <3>5. s \ {a} \in Q
      BY <1>1, <3>1
    <3>6. SumOf(g, s \ {a}) <= SumOf(h, s \ {a}) /\ g[a] \in Int /\ h[a] \in Int /\ g[a] <= h[a]
      BY <3>1, <3>5
    <3> QED
      BY <3>3, <3>4, <3>6
  <2> QED
    BY <2>1, <2>2
<1>2. (SUBSET S) \subseteq Q
  <2> HIDE DEF Q
  <2> QED
    BY <1>1, SubsetInduction
<1> QED
  BY <1>2

LEMMA SumOfNaturals ==
    ASSUME NEW S, IsFiniteSet(S), NEW g, \A x \in S : g[x] \in Nat
    PROVE  /\ SumOf(g, S) \in Nat
           /\ \A a \in S : g[a] <= SumOf(g, S)
<1>1. ASSUME NEW T \in SUBSET S PROVE SumOf(g, T) \in Nat
  <2> DEFINE z == [x \in T |-> 0]
  <2>1. IsFiniteSet(T)
    BY FS_Subset
  <2>2. SumOf(z, T) = 0
    BY <2>1, SumOfZeros
  <2>3. \A x \in T : z[x] \in Int /\ g[x] \in Int /\ z[x] <= g[x]
    OBVIOUS
  <2> HIDE DEF z
  <2>4. SumOf(z, T) <= SumOf(g, T) /\ SumOf(g, T) \in Int
    BY <2>1, <2>3, SumMonotone, SumType
  <2> QED
    BY <2>2, <2>4
<1>2. ASSUME NEW a \in S PROVE g[a] <= SumOf(g, S)
  <2>1. SumOf(g, S) = g[a] + SumOf(g, S \ {a})
    BY SumWithout
  <2>2. SumOf(g, S \ {a}) \in Nat
    BY <1>1
  <2> QED
    BY <2>1, <2>2
<1> QED
  BY <1>1, <1>2

\* The elements may be added up by what they have in common.
LEMMA SumByKey ==
    ASSUME NEW S, IsFiniteSet(S), NEW K, IsFiniteSet(K), NEW g, NEW key,
           \A x \in S : g[x] \in Int /\ key[x] \in K
    PROVE  SumOf([c \in K |-> SumOf(g, {x \in S : key[x] = c})], K) = SumOf(g, S)
<1> DEFINE At(s, c) == {x \in s : key[x] = c}
           H(s) == [c \in K |-> SumOf(g, At(s, c))]
           Q == {s \in SUBSET S : SumOf(H(s), K) = SumOf(g, s)}
<1>1. ASSUME NEW s \in SUBSET S, \A t \in SUBSET s : t # s => t \in Q PROVE s \in Q
  <2>1. CASE s = {}
    <3>1. \A c \in K : At(s, c) = {}
      BY <2>1
    <3>2. \A c \in K : H(s)[c] = 0
      BY <3>1, SumOfNothing
    <3> HIDE DEF H
    <3>3. SumOf(H(s), K) = 0
      BY <3>2, SumOfZeros
    <3> QED
      BY <2>1, <3>3, SumOfNothing
  <2>2. CASE s # {}
    <3>1. PICK a \in s : TRUE
      BY <2>2
    <3> DEFINE t == s \ {a}
               k == key[a]
    <3>2. t \in SUBSET s /\ t # s /\ k \in K
      BY <3>1
    <3>3. IsFiniteSet(s) /\ IsFiniteSet(t) /\ \A c \in K : IsFiniteSet(At(s, c)) /\ IsFiniteSet(At(t, c))
      BY FS_Subset
    <3>4. SumOf(H(t), K) = SumOf(g, t)
      BY <1>1, <3>2
    <3>5. SumOf(g, s) = g[a] + SumOf(g, t) /\ SumOf(g, t) \in Int /\ g[a] \in Int
      BY <3>1, <3>3, SumWithout, SumType
    <3>6. \A c \in K \ {k} : At(s, c) = At(t, c)
      BY <3>1
    <3>7. a \in At(s, k) /\ At(s, k) \ {a} = At(t, k)
      BY <3>1
    <3>8. SumOf(g, At(s, k)) = g[a] + SumOf(g, At(t, k))
      <4> DEFINE A == At(s, k)
      <4>1. /\ IsFiniteSet(A) /\ a \in A
            /\ \A x \in A : g[x] \in Int
        BY <3>2, <3>3, <3>7
      <4> HIDE DEF A
      <4>2. SumOf(g, A) = g[a] + SumOf(g, A \ {a})
        BY <4>1, SumWithout
      <4>3. A \ {a} = At(t, k)
        BY <3>7 DEF A
      <4>4. SumOf(g, A) = g[a] + SumOf(g, At(t, k))
        <5> HIDE DEF At, t, k
        <5> QED
          BY <4>2, <4>3
      <4> QED
        BY <4>4 DEF A
    <3>9. \A c \in K : SumOf(g, At(t, c)) \in Int /\ SumOf(g, At(s, c)) \in Int
      <4>1. \A c \in K : (\A x \in At(t, c) : g[x] \in Int) /\ (\A x \in At(s, c) : g[x] \in Int)
        OBVIOUS
      <4> HIDE DEF At
      <4> QED
        BY <3>3, <4>1, SumType
    <3>10. \A c \in K : H(s)[c] = SumOf(g, At(s, c)) /\ H(t)[c] = SumOf(g, At(t, c))
      OBVIOUS
    <3> HIDE DEF H, At, t, k
    <3>11. \A c \in K : H(t)[c] \in Int
      BY <3>9, <3>10
    <3>12. H(s)[k] \in Int /\ \A c \in K \ {k} : H(s)[c] = H(t)[c]
      BY <3>2, <3>6, <3>9, <3>10
    <3>13. SumOf(H(s), K) = SumOf(H(t), K) - H(t)[k] + H(s)[k]
      <4>2. \A x \in K \ {k} : H(s)[x] = H(t)[x]
        BY <3>12
      <4> HIDE DEF Q
      <4>3. k \in K /\ (\A x \in K : H(t)[x] \in Int) /\ H(s)[k] \in Int
        BY <3>2, <3>11, <3>12
      <4> QED
        BY ONLY IsFiniteSet(K), <4>2, <4>3, SumUpdate, SMTT(30)
    <3>14. H(s)[k] = g[a] + H(t)[k] /\ H(t)[k] \in Int
      BY <3>2, <3>8, <3>10, <3>11
    <3>15. SumOf(H(s), K) = SumOf(g, s)
      BY <3>4, <3>5, <3>13, <3>14
    <3> QED
      BY <3>15
  <2> QED
    BY <2>1, <2>2
<1>2. (SUBSET S) \subseteq Q
  <2> HIDE DEF Q
  <2> QED
    BY <1>1, SubsetInduction
<1>3. SumOf(H(S), K) = SumOf(g, S)
  BY <1>2
<1> QED
  BY <1>3
=============================================================================
