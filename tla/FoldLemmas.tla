----------------------------- MODULE FoldLemmas ------------------------------
(***************************************************************************)
(* Induction and recursion without a scheme: the induction theorems of the *)
(* library take a predicate, which no prover here can instantiate, so      *)
(* these take the set of what satisfies it instead.  The same way a        *)
(* recursive function on the subsets of a finite set exists, which is what *)
(* the folds of the community modules are made of: a fold of a sequence    *)
(* from the left takes the greatest index away in every step.              *)
(***************************************************************************)
EXTENDS Integers, Sequences, FiniteSetsExt, FiniteSetTheorems, WellFoundedInduction, TLAPS

\* A sequence of elements of a set is one of elements of a larger set.
LEMMA SeqOfMore ==
    ASSUME NEW S, NEW T, \A x \in S : x \in T, NEW v \in Seq(S)
    PROVE  v \in Seq(T)
<1>1. v \in [1 .. Len(v) -> T] /\ Len(v) \in Nat
  OBVIOUS
<1> QED BY <1>1

\* A non-empty set of natural numbers has a least one.
LEMMA LeastOf ==
    ASSUME NEW S \in SUBSET Nat, S # {}
    PROVE  \E m \in S : \A n \in S : m <= n
<1>1. \E m \in S : \A n \in S : <<n, m>> \notin OpToRel(<, Nat)
  BY NatLessThanWellFounded, WFMin
<1>2. \A x, y \in Nat : x < y => <<x, y>> \in OpToRel(<, Nat)
  BY Zenon DEF OpToRel
<1>3. PICK m \in S : \A n \in S : ~(n < m)
  BY <1>1, <1>2
<1> QED BY <1>3

\* Induction: a set of natural numbers that has 0, and with each of its members
\* the next number, has them all.
LEMMA AllNaturals ==
    ASSUME NEW P \in SUBSET Nat, 0 \in P, \A n \in P : n + 1 \in P
    PROVE  P = Nat
<1> SUFFICES ASSUME Nat \ P # {} PROVE FALSE
  OBVIOUS
<1>1. PICK m \in Nat \ P : \A n \in Nat \ P : m <= n
  BY LeastOf
<1>2. m - 1 \in Nat /\ ~(m <= m - 1)
  BY <1>1
<1>3. m - 1 \in P
  BY <1>1, <1>2
<1> QED BY <1>1, <1>3

\* Induction on the numbers up to n.
LEMMA AllUpTo ==
    ASSUME NEW n \in Nat, NEW P, 0 \in P, \A k \in 1 .. n : k - 1 \in P => k \in P
    PROVE  \A k \in 0 .. n : k \in P
<1> DEFINE Q == {k \in Nat : k <= n => k \in P}
<1>1. 0 \in Q
  OBVIOUS
<1>2. ASSUME NEW k \in Q PROVE k + 1 \in Q
  <2>1. k + 1 <= n => k + 1 \in 1 .. n /\ k + 1 - 1 = k /\ k \in P
    OBVIOUS
  <2> QED BY <2>1
<1>3. Q = Nat
  <2>1. Q \in SUBSET Nat
    OBVIOUS
  <2> HIDE DEF Q
  <2> QED BY <1>1, <1>2, <2>1, AllNaturals
<1> QED BY <1>3

\* A way to take one element of every non-empty part of a set.
Picks(pick, D) == \A s \in SUBSET D : s # {} => pick[s] \in s

\* A step for every element: from a value in A to a value in A.
StepsIn(step, D, A) == \A x \in D, a \in A : step[x][a] \in A

\* A function of the recursion that takes an element away and makes its step.
IsFold(g, D, A, base, pick, step) ==
    /\ g[{}] = base
    /\ \A s \in SUBSET D : g[s] \in A
    /\ \A s \in SUBSET D : s # {} => g[s] = step[pick[s]][g[s \ {pick[s]}]]

\* Induction on the subsets of a finite set.
LEMMA AllSubsets ==
    ASSUME NEW D, IsFiniteSet(D), NEW pick, Picks(pick, D), NEW P, {} \in P,
           \A s \in SUBSET D : s # {} /\ s \ {pick[s]} \in P => s \in P
    PROVE  \A s \in SUBSET D : s \in P
<1> SUFFICES ASSUME (SUBSET D) \ P # {} PROVE FALSE
  OBVIOUS
<1> DEFINE sizes == {Cardinality(s) : s \in (SUBSET D) \ P}
<1>1. \A s \in SUBSET D : IsFiniteSet(s) /\ Cardinality(s) \in Nat
  BY FS_Subset, FS_CardinalityType
<1>2. sizes \in SUBSET Nat /\ sizes # {}
  BY <1>1
<1>3. PICK m \in sizes : \A n \in sizes : m <= n
  <2> HIDE DEF sizes
  <2> QED BY <1>2, LeastOf
<1>4. PICK s \in (SUBSET D) \ P : m = Cardinality(s)
  OBVIOUS
<1> DEFINE x == pick[s]
<1>5. x \in s
  BY <1>4 DEF Picks
<1>6. s \ {x} \in P => s \in P
  BY <1>4, <1>5
<1> HIDE DEF x
<1>7. s \ {x} \in SUBSET D
  BY <1>4
<1>8. Cardinality(s \ {x}) = Cardinality(s) - 1
  BY <1>1, <1>4, <1>5, FS_RemoveElement
<1>9. Cardinality(s \ {x}) \in Nat /\ Cardinality(s) \in Nat
  BY <1>1, <1>4, <1>7
<1>10. ~(m <= Cardinality(s \ {x}))
  BY <1>4, <1>8, <1>9
<1>11. s \ {x} \in P
  BY <1>3, <1>7, <1>10
<1> QED BY <1>4, <1>6, <1>11

\* Recursion on the subsets of a finite set defines a function.
LEMMA FoldExists ==
    ASSUME NEW D, IsFiniteSet(D), NEW A, NEW base \in A,
           NEW pick, Picks(pick, D), NEW step, StepsIn(step, D, A)
    PROVE  \E g : IsFold(g, D, A, base, pick, step)
<1> USE DEF Picks, StepsIn
<1> DEFINE Small(n) == {s \in SUBSET D : Cardinality(s) <= n}
           Solves(g, n) == \A s \in Small(n) :
                g[s] = IF s = {} THEN base ELSE step[pick[s]][g[s \ {pick[s]}]]
           P == {n \in Nat : \E g \in [Small(n) -> A] : Solves(g, n)}
<1>1. \A s \in SUBSET D : /\ IsFiniteSet(s) /\ Cardinality(s) \in Nat
                          /\ Cardinality(s) = 0 <=> s = {}
  BY FS_Subset, FS_CardinalityType, FS_EmptySet
<1>2. \A s \in (SUBSET D) \ {{}} : /\ s \ {pick[s]} \in SUBSET D
                                   /\ Cardinality(s \ {pick[s]}) = Cardinality(s) - 1
  <2> TAKE s \in (SUBSET D) \ {{}}
  <2>1. pick[s] \in s /\ IsFiniteSet(s) /\ s \subseteq D
    BY <1>1
  <2>2. Cardinality(s \ {pick[s]}) = Cardinality(s) - 1
    <3> DEFINE x == pick[s]
    <3>1. x \in s
      BY <2>1
    <3> HIDE DEF x
    <3>2. Cardinality(s \ {x}) = Cardinality(s) - 1
      BY <2>1, <3>1, FS_RemoveElement
    <3> QED BY <3>2 DEF x
  <2> QED BY <2>1, <2>2
<1>3. 0 \in P
  <2> DEFINE g == [s \in Small(0) |-> base]
  <2>1. \A s \in Small(0) : s = {}
    BY <1>1
  <2>2. g \in [Small(0) -> A] /\ Solves(g, 0)
    BY <2>1
  <2> QED BY <2>2
<1>4. ASSUME NEW n \in P PROVE n + 1 \in P
  <2>1. n \in Nat
    OBVIOUS
  <2>2. PICK g \in [Small(n) -> A] : Solves(g, n)
    OBVIOUS
  <2> DEFINE h == [s \in Small(n + 1) |-> IF s = {} THEN base
                                          ELSE step[pick[s]][g[s \ {pick[s]}]]]
  <2>3. \A s \in Small(n + 1) : s # {} => s \ {pick[s]} \in Small(n)
    BY <1>1, <1>2, <2>1
  <2>4. \A s \in Small(n + 1) : s # {} => pick[s] \in D /\ g[s \ {pick[s]}] \in A
    BY <2>2, <2>3
  <2>5. h \in [Small(n + 1) -> A]
    BY <2>4
  <2>6. \A s \in Small(n) : s \in Small(n + 1) /\ h[s] = g[s]
    <3> TAKE s \in Small(n)
    <3>1. s \in Small(n + 1)
      BY <1>1, <2>1
    <3> QED BY <2>2, <3>1
  <2>7. Solves(h, n + 1)
    BY <2>3, <2>6
  <2>8. \E k \in [Small(n + 1) -> A] : Solves(k, n + 1)
    <3> HIDE DEF h, Solves, Small
    <3> QED BY <2>5, <2>7
  <2> HIDE DEF Solves, Small
  <2> QED BY <2>1, <2>8
<1>5. Cardinality(D) \in P
  <2>1. P = Nat
    <3>1. P \in SUBSET Nat
      OBVIOUS
    <3> HIDE DEF P
    <3> QED BY <1>3, <1>4, <3>1, AllNaturals
  <2> QED BY <1>1, <2>1
<1>6. Small(Cardinality(D)) = SUBSET D
  <2>1. \A s \in SUBSET D : Cardinality(s) <= Cardinality(D)
    BY FS_Subset
  <2> QED BY <2>1
<1>7. PICK g \in [SUBSET D -> A] : \A s \in SUBSET D :
            g[s] = IF s = {} THEN base ELSE step[pick[s]][g[s \ {pick[s]}]]
  BY <1>5, <1>6
<1> QED BY <1>7 DEF IsFold

\* The greatest of the first k numbers.
LEMMA MaxOfInterval ==
    ASSUME NEW n \in Nat
    PROVE  /\ \A s \in (SUBSET (1 .. n)) \ {{}} : Max(s) \in s /\ s \ {Max(s)} \in SUBSET (1 .. n)
           /\ \A k \in 1 .. n :
                /\ 1 .. k \in (SUBSET (1 .. n)) \ {{}} /\ 1 .. k - 1 \in SUBSET (1 .. n)
                /\ Max(1 .. k) = k /\ (1 .. k) \ {Max(1 .. k)} = 1 .. k - 1
<1>1. ASSUME NEW s \in (SUBSET (1 .. n)) \ {{}} PROVE \E m \in s : \A x \in s : m >= x
  <2> DEFINE below == {n - x : x \in s}
  <2>1. below \in SUBSET Nat /\ below # {}
    OBVIOUS
  <2>2. PICK least \in below : \A y \in below : least <= y
    <3> HIDE DEF below
    <3> QED BY <2>1, LeastOf
  <2>3. PICK m \in s : least = n - m
    OBVIOUS
  <2>4. \A x \in s : n - m <= n - x
    BY <2>2, <2>3
  <2>5. \A x \in s : m >= x
    BY <2>4
  <2> QED BY <2>5
<1>2. \A s \in (SUBSET (1 .. n)) \ {{}} : Max(s) \in s /\ \A x \in s : Max(s) >= x
  BY <1>1, Zenon DEF Max
<1>3. ASSUME NEW k \in 1 .. n PROVE Max(1 .. k) = k
  <2>1. 1 .. k \in (SUBSET (1 .. n)) \ {{}} /\ k \in 1 .. k
    OBVIOUS
  <2>2. Max(1 .. k) \in 1 .. k /\ Max(1 .. k) >= k
    BY <1>2, <2>1
  <2> QED BY <2>2
<1>4. \A k \in 1 .. n : (1 .. k) \ {k} = 1 .. k - 1
  OBVIOUS
<1>5. \A k \in 1 .. n : k \in 1 .. k /\ 1 .. k \in SUBSET (1 .. n) /\ 1 .. k - 1 \in SUBSET (1 .. n)
  OBVIOUS
<1> QED BY <1>2, <1>3, <1>4, <1>5

\* The greatest element of every non-empty part of 1 .. n.
Greatest(n) == [s \in SUBSET (1 .. n) |-> Max(s)]

\* What a fold of a sequence from the left is made of.
LEMMA LeftRecursion ==
    ASSUME NEW n \in Nat, NEW A, NEW base \in A, NEW step, StepsIn(step, 1 .. n, A)
    PROVE  \E g : IsFold(g, 1 .. n, A, base, Greatest(n), step)
<1>1. Picks(Greatest(n), 1 .. n)
  BY MaxOfInterval DEF Picks, Greatest
<1>2. IsFiniteSet(1 .. n)
  BY FS_Interval
<1> QED BY <1>1, <1>2, FoldExists
=============================================================================
