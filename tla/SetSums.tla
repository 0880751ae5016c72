------------------------------ MODULE SetSums -------------------------------
(***************************************************************************)
(* Sums over finite sets, for proofs: MapThenSumSet of the community       *)
(* modules is a recursive function, so its value is the value of every     *)
(* function that satisfies the recursion (Totals), and such a function     *)
(* exists and takes the members in any order.                              *)
(*                                                                         *)
(* These facts would be proved by induction on the set.  The argument here *)
(* is the least counterexample instead: of the subsets for which a fact    *)
(* fails there is a smallest (LeastOf), and without one of its members it  *)
(* fails for a smaller one.                                                *)
(***************************************************************************)
EXTENDS Integers, FiniteSetsExt, TLAPS, FiniteSetTheorems, WellFoundedInduction

-----------------------------------------------------------------------------
(* The least member of a set of numbers.                                   *)

LEMMA LeastOf ==
  ASSUME NEW T \in SUBSET Nat, T # {}
  PROVE  \E m \in T : \A n \in T : m <= n
<1> DEFINE R == {ss \in Nat \X Nat : ss[1] < ss[2]}
<1>1. OpToRel(<, Nat) = R
  BY Zenon DEF OpToRel
<1>2. IsWellFoundedOn(R, Nat)
  BY <1>1, NatLessThanWellFounded, Zenon
<1>3. \A m, n \in Nat : m < n => <<m, n>> \in R
  OBVIOUS
<1> HIDE DEF R
<1>4. PICK m \in T : \A n \in T : ~(<<n, m>> \in R)
  BY <1>2, WFMin
<1>5. \A n \in T : ~(n < m)
  BY <1>3, <1>4
<1> QED
  BY <1>4, <1>5

\* The member that a sum over s takes first.
Some(s) == CHOOSE x \in s : TRUE

\* g sums the weights w over every subset of S, one member after the other.
Totals(g, w, S) ==
  g = [s \in SUBSET S |-> IF s = {} THEN 0 ELSE w[Some(s)] + g[s \ {Some(s)}]]

\* Without a member a finite set is smaller.
LEMMA Smaller ==
  ASSUME NEW s, IsFiniteSet(s), NEW x \in s
  PROVE  /\ IsFiniteSet(s \ {x}) /\ Cardinality(s) \in Nat
         /\ Cardinality(s \ {x}) \in Nat
         /\ Cardinality(s) = Cardinality(s \ {x}) + 1
<1>1. IsFiniteSet(s \ {x}) /\ Cardinality(s \ {x}) = Cardinality(s) - 1
  BY FS_RemoveElement
<1>2. Cardinality(s) \in Nat /\ Cardinality(s \ {x}) \in Nat
  BY <1>1, FS_CardinalityType
<1> QED
  BY <1>1, <1>2

LEMMA SomeMember ==
  ASSUME NEW s, s # {}
  PROVE  Some(s) \in s
  BY DEF Some

\* A sum does not depend on the set it is part of.
LEMMA TotalsAgree ==
  ASSUME NEW S, NEW w, NEW g, Totals(g, w, S), NEW R, NEW v, NEW h, Totals(h, v, R),
         NEW T, T \subseteq S, T \subseteq R, IsFiniteSet(T), \A x \in T : w[x] = v[x]
  PROVE  g[T] = h[T]
<1> DEFINE Wrong == {s \in SUBSET T : g[s] # h[s]}
           N == {Cardinality(s) : s \in Wrong}
<1> SUFFICES ASSUME T \in Wrong PROVE FALSE
  OBVIOUS
<1>1. \A s \in SUBSET T : IsFiniteSet(s) /\ Cardinality(s) \in Nat
  BY FS_Subset, FS_CardinalityType
<1>2. N \in SUBSET Nat /\ N # {}
  BY <1>1
<1>3. PICK n \in N : \A m \in N : n <= m
  <2> HIDE DEF N
  <2> QED
    BY <1>2, LeastOf
<1>4. PICK s \in Wrong : n = Cardinality(s)
  OBVIOUS
<1>5. /\ g[s] = IF s = {} THEN 0 ELSE w[Some(s)] + g[s \ {Some(s)}]
      /\ h[s] = IF s = {} THEN 0 ELSE v[Some(s)] + h[s \ {Some(s)}]
  <2>1. s \in SUBSET S /\ s \in SUBSET R
    BY <1>4
  <2>2. g[s] = IF s = {} THEN 0 ELSE w[Some(s)] + g[s \ {Some(s)}]
    BY <2>1, Zenon DEF Totals
  <2>3. h[s] = IF s = {} THEN 0 ELSE v[Some(s)] + h[s \ {Some(s)}]
    BY <2>1, Zenon DEF Totals
  <2> QED
    BY <2>2, <2>3
<1>6. s # {} /\ Some(s) \in s /\ w[Some(s)] = v[Some(s)]
  BY <1>4, <1>5, SomeMember
<1>7. s \ {Some(s)} \in Wrong
  BY <1>4, <1>5, <1>6
<1>8. Cardinality(s) = Cardinality(s \ {Some(s)}) + 1 /\ Cardinality(s \ {Some(s)}) \in Nat
  <2>1. IsFiniteSet(s)
    BY <1>1, <1>4
  <2> QED
    BY <1>6, <2>1, Smaller
<1>9. n <= Cardinality(s \ {Some(s)})
  BY <1>3, <1>7
<1> QED
  BY <1>4, <1>8, <1>9

\* Every finite set has its sums.
LEMMA TotalsExist ==
  ASSUME NEW S, IsFiniteSet(S), NEW w, \A x \in S : w[x] \in Int
  PROVE  \E g : Totals(g, w, S) /\ \A s \in SUBSET S : g[s] \in Int
<1> DEFINE Body(g, s) == IF s = {} THEN 0 ELSE w[Some(s)] + g[s \ {Some(s)}]
           UpTo(g, n) == \A s \in SUBSET S : Cardinality(s) <= n => g[s] = Body(g, s)
           Missing == {n \in Nat : ~\E g \in [SUBSET S -> Int] : UpTo(g, n)}
<1>1. \A s \in SUBSET S : IsFiniteSet(s) /\ Cardinality(s) \in Nat
  BY FS_Subset, FS_CardinalityType
<1>2. \A s \in SUBSET S : s # {} =>
        /\ Some(s) \in s /\ s \ {Some(s)} \in SUBSET S
        /\ Cardinality(s) = Cardinality(s \ {Some(s)}) + 1
  BY <1>1, SomeMember, Smaller
<1>3. Missing = {}
  <2> SUFFICES ASSUME Missing # {} PROVE FALSE
    OBVIOUS
  <2>1. PICK n \in Missing : \A m \in Missing : n <= m
    <3>1. Missing \in SUBSET Nat
      OBVIOUS
    <3> HIDE DEF Missing
    <3> QED
      BY <3>1, LeastOf
  <2>2. n # 0
    <3> SUFFICES ASSUME n = 0 PROVE FALSE
      OBVIOUS
    <3> DEFINE g == [s \in SUBSET S |-> 0]
    <3>1. \A s \in SUBSET S : Cardinality(s) <= 0 => s = {}
      BY <1>1, FS_EmptySet
    <3>2. g \in [SUBSET S -> Int] /\ UpTo(g, 0)
      BY <3>1
    <3> QED
      BY <2>1, <3>2
  <2>3. n - 1 \in Nat /\ n - 1 \notin Missing
    <3>1. n \in Nat
      BY <2>1
    <3> HIDE DEF Missing
    <3>2. n - 1 \in Nat /\ ~(n <= n - 1)
      BY <2>2, <3>1
    <3> QED
      BY <2>1, <3>2
  <2>4. PICK f \in [SUBSET S -> Int] : UpTo(f, n - 1)
    BY <2>3
  <2> DEFINE g == [s \in SUBSET S |-> Body(f, s)]
  <2>5. g \in [SUBSET S -> Int]
    <3> SUFFICES ASSUME NEW s \in SUBSET S PROVE Body(f, s) \in Int
      OBVIOUS
    <3>1. s # {} => w[Some(s)] \in Int /\ f[s \ {Some(s)}] \in Int
      BY <1>2
    <3> QED
      BY <3>1
  <2>6. ASSUME NEW s \in SUBSET S, Cardinality(s) <= n
        PROVE  g[s] = Body(g, s)
    <3>1. CASE s = {}
      BY <3>1
    <3>2. CASE s # {}
      <4>1. Cardinality(s \ {Some(s)}) <= n - 1
        BY <1>1, <1>2, <2>1, <2>6, <3>2
      <4>2. f[s \ {Some(s)}] = Body(f, s \ {Some(s)})
        BY <1>2, <2>4, <3>2, <4>1
      <4>3. g[s \ {Some(s)}] = f[s \ {Some(s)}]
        BY <1>2, <3>2, <4>2
      <4> QED
        BY <3>2, <4>3
    <3> QED
      BY <3>1, <3>2
  <2>7. n \in Nat
    BY <2>1
  <2> HIDE DEF g, Body
  <2>8. UpTo(g, n)
    BY <2>6
  <2> QED
    BY <2>1, <2>5, <2>8
<1>4. Cardinality(S) \in Nat /\ Cardinality(S) \notin Missing
  BY <1>1, <1>3
<1>5. PICK g \in [SUBSET S -> Int] : UpTo(g, Cardinality(S))
  BY <1>4
<1>6. \A s \in SUBSET S : Cardinality(s) <= Cardinality(S)
  BY FS_Subset
<1>7. \A s \in SUBSET S : g[s] = Body(g, s)
  BY <1>5, <1>6
<1>8. g = [s \in SUBSET S |-> Body(g, s)]
  <2> HIDE DEF Body
  <2> QED
    BY <1>7
<1> QED
  BY <1>5, <1>8 DEF Totals

\* Any member may be taken first.
LEMMA TotalsTake ==
  ASSUME NEW S, IsFiniteSet(S), NEW w, \A x \in S : w[x] \in Int,
         NEW g, Totals(g, w, S), NEW T \in SUBSET S, NEW x \in T
  PROVE  g[T] \in Int /\ g[T \ {x}] \in Int /\ g[T] = w[x] + g[T \ {x}]
<1> DEFINE Wrong == {s \in SUBSET S : \E y \in s : g[s] # w[y] + g[s \ {y}]}
           N == {Cardinality(s) : s \in Wrong}
<1>1. \A s \in SUBSET S : g[s] \in Int
  <2>1. PICK h : Totals(h, w, S) /\ \A s \in SUBSET S : h[s] \in Int
    BY TotalsExist
  <2>2. ASSUME NEW s \in SUBSET S
        PROVE  g[s] = h[s]
    <3>1. IsFiniteSet(s)
      BY FS_Subset
    <3> QED
      BY <2>1, <3>1, TotalsAgree
  <2> QED
    BY <2>1, <2>2
<1>2. \A s \in SUBSET S : IsFiniteSet(s) /\ Cardinality(s) \in Nat
  BY FS_Subset, FS_CardinalityType
<1>3. Wrong = {}
  <2> SUFFICES ASSUME Wrong # {} PROVE FALSE
    OBVIOUS
  <2>1. N \in SUBSET Nat /\ N # {}
    BY <1>2
  <2>2. PICK n \in N : \A m \in N : n <= m
    <3> HIDE DEF N
    <3> QED
      BY <2>1, LeastOf
  <2>3. PICK s \in Wrong : n = Cardinality(s)
    OBVIOUS
  <2>4. PICK y \in s : g[s] # w[y] + g[s \ {y}]
    BY <2>3
  <2> DEFINE z == Some(s)
  <2>5. z \in s /\ s \in SUBSET S
    BY <2>3, <2>4, SomeMember
  <2>6. g[s] = w[z] + g[s \ {z}]
    BY <2>5, Zenon DEF Totals
  <2>7. z # y
    BY <2>4, <2>6
  <2> HIDE DEF z
  <2>8. s \ {y} \notin Wrong /\ s \ {z} \notin Wrong
    <3>1. ASSUME NEW v \in s, s \ {v} \in Wrong
          PROVE  FALSE
      <4>1. /\ Cardinality(s) = Cardinality(s \ {v}) + 1
            /\ Cardinality(s \ {v}) \in Nat
        BY <1>2, <2>5, Smaller
      <4>2. n <= Cardinality(s \ {v})
        BY <2>2, <3>1
      <4> QED
        BY <2>3, <4>1, <4>2
    <3> QED
      BY <2>5, <3>1
  <2>9. /\ z \in s \ {y} /\ y \in s \ {z}
        /\ (s \ {y}) \ {z} = (s \ {z}) \ {y}
        /\ s \ {y} \in SUBSET S /\ s \ {z} \in SUBSET S
        /\ (s \ {z}) \ {y} \in SUBSET S
    BY <2>5, <2>7
  <2>10. g[s \ {y}] = w[z] + g[(s \ {z}) \ {y}]
    BY <2>8, <2>9
  <2>11. g[s \ {z}] = w[y] + g[(s \ {z}) \ {y}]
    BY <2>8, <2>9
  <2> DEFINE r == g[(s \ {z}) \ {y}]
             a == w[y]
             b == w[z]
  <2>12. g[s] = b + (a + r) /\ g[s \ {y}] = b + r
    BY <2>6, <2>10, <2>11
  <2>13. a \in Int /\ b \in Int /\ r \in Int
    BY <1>1, <2>5, <2>9
  <2> HIDE DEF r, a, b
  <2>14. g[s] = a + g[s \ {y}]
    BY <2>12, <2>13
  <2> QED
    BY <2>4, <2>14 DEF a
<1>4. T \ {x} \in SUBSET S
  OBVIOUS
<1> QED
  BY <1>1, <1>3, <1>4

\* The sum of the weights w over S, as the community module computes it.
SumOver(w, S) == MapThenSumSet(LAMBDA i : w[i], S)

LEMMA SumIsTotal ==
  ASSUME NEW S, IsFiniteSet(S), NEW w, \A x \in S : w[x] \in Int
  PROVE  \E g : Totals(g, w, S) /\ SumOver(w, S) = g[S]
<1> DEFINE g == CHOOSE g : Totals(g, w, S)
<1>1. Totals(g, w, S)
  BY TotalsExist
<1>2. SumOver(w, S) = g[S]
  BY DEF SumOver, MapThenSumSet, MapThenFoldSet, Totals, Some
<1> QED
  BY <1>1, <1>2

\* A sum is a number, and any member may be taken first.
LEMMA SumTake ==
  ASSUME NEW S, IsFiniteSet(S), NEW w, \A x \in S : w[x] \in Int, NEW x \in S
  PROVE  /\ SumOver(w, S) \in Int /\ SumOver(w, S \ {x}) \in Int
         /\ SumOver(w, S) = w[x] + SumOver(w, S \ {x})
<1> DEFINE T == S \ {x}
<1>1. IsFiniteSet(T) /\ T \subseteq S /\ T \in SUBSET S /\ S \in SUBSET S
  BY Smaller
<1>2. PICK g : Totals(g, w, S) /\ SumOver(w, S) = g[S]
  BY SumIsTotal
<1>3. PICK h : Totals(h, w, T) /\ SumOver(w, T) = h[T]
  <2>1. \A y \in T : w[y] \in Int
    BY <1>1
  <2> HIDE DEF T
  <2> QED
    BY <1>1, <2>1, SumIsTotal
<1>4. g[T] = h[T]
  <2> HIDE DEF T
  <2> QED
    BY <1>1, <1>2, <1>3, TotalsAgree
<1>5. g[S] \in Int /\ g[T] \in Int /\ g[S] = w[x] + g[T]
  BY <1>1, <1>2, TotalsTake
<1> QED
  BY <1>2, <1>3, <1>4, <1>5

LEMMA SumEmpty ==
  ASSUME NEW w
  PROVE  SumOver(w, {}) = 0
<1>1. PICK g : Totals(g, w, {}) /\ SumOver(w, {}) = g[{}]
  <2>1. \A x \in {} : w[x] \in Int
    OBVIOUS
  <2> QED
    BY <2>1, SumIsTotal, FS_EmptySet
<1>2. {} \in SUBSET {}
  OBVIOUS
<1>3. g[{}] = 0
  BY <1>1, <1>2 DEF Totals
<1> QED
  BY <1>1, <1>3

\* A sum of numbers is a number.
LEMMA SumType ==
  ASSUME NEW S, IsFiniteSet(S), NEW w, \A x \in S : w[x] \in Int
  PROVE  SumOver(w, S) \in Int
<1>1. CASE S = {}
  BY <1>1, SumEmpty
<1>2. CASE S # {}
  <2>1. PICK x \in S : TRUE
    BY <1>2
  <2> QED
    BY <2>1, SumTake
<1> QED
  BY <1>1, <1>2

\* A sum depends on the weights of the members only.
LEMMA SumAgree ==
  ASSUME NEW S, IsFiniteSet(S), NEW w, NEW v, \A x \in S : w[x] \in Int /\ w[x] = v[x]
  PROVE  SumOver(w, S) = SumOver(v, S)
<1>1. PICK g : Totals(g, w, S) /\ SumOver(w, S) = g[S]
  BY SumIsTotal
<1>2. PICK h : Totals(h, v, S) /\ SumOver(v, S) = h[S]
  BY SumIsTotal
<1>3. g[S] = h[S]
  BY <1>1, <1>2, TotalsAgree
<1> QED
  BY <1>1, <1>2, <1>3
=============================================================================
