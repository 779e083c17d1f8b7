-------------------------- MODULE Strategies_proofs --------------------------
(***************************************************************************)
(* What the indicators of the strategies are made of, for every sequence   *)
(* of values: sums as runs from element to element, and windows.           *)
(***************************************************************************)
EXTENDS Strategies, FoldLemmas, SequenceTheorems

\* The sum of a sequence is the last of the sums of its beginnings.
LEMMA TotalRun ==
    ASSUME NEW v \in Seq(Int)
    PROVE  \E run \in [0 .. Len(v) -> Int] :
             /\ run[0] = 0 /\ \A k \in 1 .. Len(v) : run[k] = run[k - 1] + v[k]
             /\ Total(v) = run[Len(v)]
<1> DEFINE n == Len(v)
           Rec(f) == f = [s \in SUBSET (1 .. n) |->
                            IF s = {} THEN 0 ELSE f[s \ {Max(s)}] + v[Max(s)]]
           h == CHOOSE f : Rec(f)
           step == [i \in 1 .. n |-> [a \in Int |-> a + v[i]]]
           run == [k \in 0 .. n |-> h[1 .. k]]
<1>0. n \in Nat /\ DOMAIN v = 1 .. n /\ \A i \in 1 .. n : v[i] \in Int
  OBVIOUS
<1>1. Total(v) = h[1 .. n]
  BY <1>0, Zenon DEF Total, FoldLeft, MapThenFoldSet, Add
<1> HIDE DEF n
<1>2. StepsIn(step, 1 .. n, Int)
  BY <1>0 DEF StepsIn
<1>3. PICK g : IsFold(g, 1 .. n, Int, 0, Greatest(n), step)
  <2> HIDE DEF step
  <2>1. n \in Nat /\ 0 \in Int
    BY <1>0
  <2> QED BY <1>2, <2>1, LeftRecursion, Zenon
<1>5. \E f : Rec(f)
  <2> DEFINE f == [s \in SUBSET (1 .. n) |-> g[s]]
  <2>1. ASSUME NEW s \in SUBSET (1 .. n), s # {}
        PROVE  f[s] = f[s \ {Max(s)}] + v[Max(s)]
    <3>1. Max(s) \in 1 .. n /\ s \ {Max(s)} \in SUBSET (1 .. n)
      BY <1>0, <2>1, MaxOfInterval
    <3>2. g[s] = step[Max(s)][g[s \ {Max(s)}]] /\ g[s \ {Max(s)}] \in Int
      BY <1>3, <2>1, <3>1 DEF IsFold, Greatest
    <3> QED BY <3>1, <3>2
  <2>2. f[{}] = 0
    BY <1>3 DEF IsFold
  <2>3. Rec(f)
    BY <2>1, <2>2
  <2> HIDE DEF Rec, f
  <2> QED BY <2>3
<1>7. Rec(h)
  <2> HIDE DEF Rec
  <2> QED BY <1>5
<1>8. \A s \in SUBSET (1 .. n) : h[s] = IF s = {} THEN 0 ELSE h[s \ {Max(s)}] + v[Max(s)]
  <2> HIDE DEF h
  <2> QED BY <1>7, Zenon
<1> HIDE DEF h
<1>9. run[0] = 0
  <2>1. 1 .. 0 = {} /\ {} \in SUBSET (1 .. n) /\ 0 \in 0 .. n
    BY <1>0
  <2> QED BY <1>8, <2>1
<1>10. \A k \in 1 .. n : run[k] = run[k - 1] + v[k]
  <2> TAKE k \in 1 .. n
  <2>1. k \in 0 .. n /\ k - 1 \in 0 .. n
    BY <1>0
  <2>2. h[1 .. k] = h[1 .. k - 1] + v[k]
    BY <1>0, <1>8, MaxOfInterval
  <2> QED BY <2>1, <2>2
<1>11. run \in [0 .. n -> Int]
  <2> DEFINE P == {k \in 0 .. n : run[k] \in Int}
  <2>1. 0 \in P
    BY <1>0, <1>9
  <2>2. ASSUME NEW k \in 1 .. n, k - 1 \in P PROVE k \in P
    <3> HIDE DEF run
    <3> QED BY <1>0, <1>10, <2>2
  <2>3. \A k \in 0 .. n : k \in P
    <3> HIDE DEF P
    <3> QED BY <1>0, <2>1, <2>2, AllUpTo
  <2> QED BY <2>3
<1>12. Total(v) = run[n]
  BY <1>0, <1>1
<1> HIDE DEF run
<1> QED BY <1>9, <1>10, <1>11, <1>12 DEF n

\* Sums of integers are integers, and an element more adds to them.
LEMMA TotalType == ASSUME NEW v \in Seq(Int) PROVE Total(v) \in Int
BY TotalRun

LEMMA TotalEmpty == Total(<< >>) = 0
<1>1. << >> \in Seq(Int) /\ Len(<< >>) = 0
  OBVIOUS
<1> QED BY <1>1, TotalRun

LEMMA TotalAppend ==
    ASSUME NEW v \in Seq(Int), NEW e \in Int
    PROVE  Total(Append(v, e)) = Total(v) + e
<1> DEFINE w == Append(v, e)
           n == Len(v)
<1>1. /\ w \in Seq(Int) /\ n \in Nat /\ Len(w) = n + 1
      /\ \A i \in 1 .. n : w[i] = v[i]
      /\ w[n + 1] = e
  OBVIOUS
<1>2. PICK r \in [0 .. n -> Int] :
        r[0] = 0 /\ (\A k \in 1 .. n : r[k] = r[k - 1] + v[k]) /\ Total(v) = r[n]
  BY TotalRun
<1>3. PICK q \in [0 .. Len(w) -> Int] :
        q[0] = 0 /\ (\A k \in 1 .. Len(w) : q[k] = q[k - 1] + w[k]) /\ Total(w) = q[Len(w)]
  <2> HIDE DEF w
  <2> QED BY <1>1, TotalRun
<1> HIDE DEF w, n
<1> DEFINE P == {k \in 0 .. n : q[k] = r[k]}
<1>4. 0 \in P
  BY <1>1, <1>2, <1>3
<1>5. ASSUME NEW k \in 1 .. n, k - 1 \in P PROVE k \in P
  BY <1>1, <1>2, <1>3, <1>5
<1>6. \A k \in 0 .. n : k \in P
  <2> HIDE DEF P
  <2> QED BY <1>1, <1>4, <1>5, AllUpTo
<1>7. q[n] = r[n] /\ n \in 0 .. n
  BY <1>1, <1>6
<1>8. q[n + 1] = q[n] + e
  BY <1>1, <1>3
<1>9. Total(w) = Total(v) + e
  BY <1>1, <1>2, <1>3, <1>7, <1>8
<1> QED BY <1>9 DEF w

----------------------------------------------------------------------------
\* Windows.

\* The larger of two integers.
LEMMA MaxOfTwo ==
    ASSUME NEW a \in Int, NEW b \in Int
    PROVE  Max({a, b}) \in {a, b} /\ Max({a, b}) >= a /\ Max({a, b}) >= b
<1>1. \E x \in {a, b} : \A y \in {a, b} : x >= y
  OBVIOUS
<1> QED BY <1>1 DEF Max

\* The last elements of a sequence are a part of it.
LEMMA LastNType ==
    ASSUME NEW S, NEW v \in Seq(S), NEW p \in Nat
    PROVE  LastN(v, p) \in Seq(S)
<1> DEFINE n == Len(v)
           m == Max({1, n - p + 1})
<1>1. n \in Nat /\ 1 \in Int /\ n - p + 1 \in Int /\ \A i \in 1 .. n : v[i] \in S
  OBVIOUS
<1> HIDE DEF n
<1>2. m \in {1, n - p + 1} /\ m >= 1
  BY <1>1, MaxOfTwo
<1> HIDE DEF m
<1>3. m \in Int /\ n \in Int /\ \A i \in m .. n : v[i] \in S
  BY <1>1, <1>2
<1>4. SubSeq(v, m, n) \in Seq(S)
  BY <1>3, SubSeqProperties
<1> QED BY <1>4 DEF LastN, m, n

\* An average of integers has an integer numerator.
LEMMA SmaType ==
    ASSUME NEW v \in Seq(Int), NEW p \in Nat
    PROVE  Sma(v, p) = Frac(Total(LastN(v, p)), p) /\ Total(LastN(v, p)) \in Int
BY LastNType, TotalType DEF Sma

\* The closes of a beginning of the bars; those of a bar less are all but the last.
LEMMA ClosesOfBeginning ==
    ASSUME NEW b, NEW n \in Nat, \A i \in 1 .. n : b[i].close \in Int
    PROVE  /\ Closes(SubSeq(b, 1, n)) \in Seq(Int) /\ Len(Closes(SubSeq(b, 1, n))) = n
           /\ \A i \in 1 .. n : Closes(SubSeq(b, 1, n))[i] = b[i].close
           /\ n > 0 => Front(Closes(SubSeq(b, 1, n))) = Closes(SubSeq(b, 1, n - 1))
<1> DEFINE C(k) == [i \in 1 .. k |-> b[i].close]
<1>1. ASSUME NEW k \in 0 .. n PROVE Closes(SubSeq(b, 1, k)) = C(k)
  <2>1. k \in Int /\ 1 \in Int /\ k \in Nat
    OBVIOUS
  <2> DEFINE S == {b[i] : i \in 1 .. k}
  <2>2. \A i \in 1 .. k : b[i] \in S
    OBVIOUS
  <2> HIDE DEF S
  <2>3. /\ SubSeq(b, 1, k) \in Seq(S)
        /\ Len(SubSeq(b, 1, k)) = k
        /\ \A i \in 1 .. k : SubSeq(b, 1, k)[i] = b[i]
    <3>1. /\ SubSeq(b, 1, k) \in Seq(S)
          /\ Len(SubSeq(b, 1, k)) = IF 1 <= k THEN k - 1 + 1 ELSE 0
          /\ \A i \in 1 .. k - 1 + 1 : SubSeq(b, 1, k)[i] = b[1 + i - 1]
      BY <2>1, <2>2, SubSeqProperties
    <3>2. \A i \in 1 .. k : 1 + i - 1 = i
      OBVIOUS
    <3> QED BY <2>1, <3>1, <3>2
  <2> QED BY <2>1, <2>3 DEF Closes
<1>2. C(n) \in Seq(Int) /\ Len(C(n)) = n
  OBVIOUS
<1>3. n > 0 => Front(C(n)) = C(n - 1)
  <2> SUFFICES ASSUME n > 0 PROVE SubSeq(C(n), 1, n - 1) = C(n - 1)
    BY <1>2 DEF Front
  <2> DEFINE c == C(n)
             s == SubSeq(c, 1, n - 1)
  <2>1. n - 1 \in Int /\ 1 \in Int /\ n - 1 \in Nat
    OBVIOUS
  <2>2. \A i \in 1 .. n - 1 : c[i] \in Int /\ c[i] = b[i].close
    OBVIOUS
  <2> HIDE DEF c
  <2>3. /\ s \in Seq(Int)
        /\ Len(s) = IF 1 <= n - 1 THEN n - 1 - 1 + 1 ELSE 0
        /\ \A i \in 1 .. n - 1 - 1 + 1 : s[i] = c[1 + i - 1]
    BY <2>1, <2>2, SubSeqProperties
  <2>4. Len(s) = n - 1 /\ (\A i \in 1 .. n - 1 : s[i] = c[i])
    <3>1. \A i \in 1 .. n - 1 : 1 + i - 1 = i
      OBVIOUS
    <3> QED BY <2>1, <2>3, <3>1
  <2> HIDE DEF s
  <2>5. s = C(n - 1)
    BY <2>1, <2>2, <2>3, <2>4
  <2> QED BY <2>5 DEF s, c
<1>4. n \in 0 .. n /\ (n > 0 => n - 1 \in 0 .. n)
  OBVIOUS
<1>5. \A i \in 1 .. n : C(n)[i] = b[i].close
  OBVIOUS
<1> HIDE DEF C
<1> QED BY <1>1, <1>2, <1>3, <1>4, <1>5

----------------------------------------------------------------------------
\* Fractions.

Fractions == [num : Int, den : Nat \ {0}]

\* Products keep and reflect the order of their other factors.
LEMMA ProductOrder ==
    ASSUME NEW x \in Int, NEW y \in Int, NEW z \in Nat \ {0}
    PROVE  /\ x * z \in Int /\ y * z \in Int
           /\ x <= y <=> x * z <= y * z
           /\ x < y <=> x * z < y * z
<1> DEFINE d == y - x
<1>1. d \in Int /\ y * z = x * z + d * z /\ x * z \in Int /\ y * z \in Int /\ d * z \in Int
  OBVIOUS
<1>2. /\ d >= 0 <=> d * z >= 0
      /\ d > 0 <=> d * z > 0
  <2>1. d \in Int
    BY <1>1
  <2> HIDE DEF d
  <2>2. CASE d = 0
    BY <2>2
  <2>3. CASE d > 0
    BY <2>1, <2>3
  <2>4. CASE d < 0
    <3>1. PICK e \in Nat \ {0} : d = 0 - e
      <4>1. 0 - d \in Nat \ {0} /\ d = 0 - (0 - d)
        BY <2>1, <2>4
      <4> QED BY <4>1
    <3>2. d * z = 0 - e * z /\ e * z > 0 /\ e * z \in Int
      <4>1. d * z = 0 - e * z
        BY <3>1
      <4>2. e * z > 0 /\ e * z \in Int
        OBVIOUS
      <4> QED BY <4>1, <4>2
    <3>3. d * z < 0 /\ d * z \in Int
      <4> DEFINE q == e * z
      <4>1. q > 0 /\ q \in Int /\ d * z = 0 - q
        BY <3>2
      <4> HIDE DEF q
      <4>2. 0 - q < 0 /\ 0 - q \in Int
        BY <4>1
      <4> QED BY ONLY <4>1, <4>2
    <3> QED BY ONLY <2>1, <2>4, <3>3
  <2> QED BY <2>1, <2>2, <2>3, <2>4
<1> QED BY <1>1, <1>2

\* The order of fractions is total and transitive.
LEMMA FractionOrder ==
    ASSUME NEW a \in Fractions, NEW b \in Fractions
    PROVE  (Lt(a, b) \/ Le(b, a)) /\ (Lt(a, b) => Le(a, b)) /\ Le(a, a)
<1>1. a.num * b.den \in Int /\ b.num * a.den \in Int /\ a.num * a.den \in Int
  BY DEF Fractions
<1> QED BY <1>1 DEF Lt, Le

LEMMA FractionTrans ==
    ASSUME NEW a \in Fractions, NEW b \in Fractions, NEW c \in Fractions
    PROVE  /\ Le(a, b) /\ Le(b, c) => Le(a, c)
           /\ Lt(a, b) /\ Le(b, c) => Lt(a, c)
<1> DEFINE an == a.num  ad == a.den  bn == b.num  bd == b.den  cn == c.num  cd == c.den
<1>0. /\ an \in Int /\ bn \in Int /\ cn \in Int
      /\ ad \in Nat \ {0} /\ bd \in Nat \ {0} /\ cd \in Nat \ {0}
  BY DEF Fractions
<1>00. /\ Le(a, b) <=> an * bd <= bn * ad
       /\ Lt(a, b) <=> an * bd < bn * ad
       /\ Le(b, c) <=> bn * cd <= cn * bd
       /\ Le(a, c) <=> an * cd <= cn * ad
       /\ Lt(a, c) <=> an * cd < cn * ad
  BY DEF Le, Lt
<1> HIDE DEF an, ad, bn, bd, cn, cd
<1>1. an * bd \in Int /\ bn * ad \in Int /\ bn * cd \in Int /\ cn * bd \in Int
      /\ an * cd \in Int /\ cn * ad \in Int
  BY <1>0
<1>2. /\ an * bd <= bn * ad <=> (an * bd) * cd <= (bn * ad) * cd
      /\ an * bd < bn * ad <=> (an * bd) * cd < (bn * ad) * cd
  BY <1>0, <1>1, ProductOrder
<1>3. bn * cd <= cn * bd <=> (bn * cd) * ad <= (cn * bd) * ad
  BY <1>0, <1>1, ProductOrder
<1>4. /\ an * cd <= cn * ad <=> (an * cd) * bd <= (cn * ad) * bd
      /\ an * cd < cn * ad <=> (an * cd) * bd < (cn * ad) * bd
  BY <1>0, <1>1, ProductOrder
<1>5. /\ (an * bd) * cd = (an * cd) * bd
      /\ (bn * ad) * cd = (bn * cd) * ad
      /\ (cn * bd) * ad = (cn * ad) * bd
      /\ (an * bd) * cd \in Int /\ (bn * ad) * cd \in Int /\ (cn * bd) * ad \in Int
  BY <1>0
<1> QED BY <1>00, <1>2, <1>3, <1>4, <1>5

\* A fall to v that starts higher is deeper, unless v is below 0.
LEMMA FallFromHigher ==
    ASSUME NEW x \in Nat \ {0}, NEW p \in Nat \ {0}, x <= p, NEW v \in Nat
    PROVE  Le(Frac(x - v, x), Frac(p - v, p))
<1>1. v * x <= v * p /\ v * x \in Int /\ v * p \in Int /\ x * p \in Int
  <2>1. CASE v = 0
    BY <2>1
  <2>2. CASE v # 0
    <3>1. x * v <= p * v
      BY <2>2, ProductOrder
    <3> QED BY <3>1
  <2> QED BY <2>1, <2>2
<1>2. (x - v) * p = x * p - v * p /\ (p - v) * x = x * p - v * x
  OBVIOUS
<1> QED BY <1>1, <1>2 DEF Le, Frac

\* The last n elements of a sequence that has as many, one by one.
LEMMA LastNElements ==
    ASSUME NEW S, NEW v \in Seq(S), NEW n \in 1 .. Len(v)
    PROVE  /\ LastN(v, n) \in Seq(S) /\ Len(LastN(v, n)) = n
           /\ \A i \in 1 .. n : LastN(v, n)[i] = v[Len(v) - n + i]
<1> DEFINE l == Len(v)
           m == Max({1, l - n + 1})
<1>1. l \in Nat /\ n \in Nat /\ 1 <= n /\ n <= l /\ \A i \in 1 .. l : v[i] \in S
  OBVIOUS
<1> HIDE DEF l
<1>2. m = l - n + 1
  <2>1. l - n + 1 \in Int /\ 1 \in Int /\ l - n + 1 >= 1
    BY <1>1
  <2>2. m \in {1, l - n + 1} /\ m >= 1 /\ m >= l - n + 1
    BY <2>1, MaxOfTwo
  <2> HIDE DEF m
  <2> QED BY ONLY <2>1, <2>2
<1>3. LastN(v, n) = SubSeq(v, l - n + 1, l)
  BY <1>2 DEF LastN, l
<1>4. l - n + 1 \in Int /\ l \in Int /\ (\A i \in l - n + 1 .. l : v[i] \in S)
  BY <1>1
<1> DEFINE s == SubSeq(v, l - n + 1, l)
<1>5. /\ s \in Seq(S)
      /\ Len(s) = IF l - n + 1 <= l THEN l - (l - n + 1) + 1 ELSE 0
      /\ \A i \in 1 .. l - (l - n + 1) + 1 : s[i] = v[l - n + 1 + i - 1]
  BY <1>4, SubSeqProperties
<1> HIDE DEF s
<1>6. l - (l - n + 1) + 1 = n /\ l - n + 1 <= l /\ \A i \in 1 .. n : l - n + 1 + i - 1 = l - n + i
  BY <1>1
<1>7. Len(s) = n /\ \A i \in 1 .. n : s[i] = v[l - n + i]
  BY <1>5, <1>6
<1> QED BY <1>3, <1>5, <1>7 DEF s, l

\* Sequences of the same length and elements are the same.
LEMMA SameSequence ==
    ASSUME NEW S, NEW T, NEW v \in Seq(S), NEW w \in Seq(T), Len(v) = Len(w),
           \A i \in 1 .. Len(v) : v[i] = w[i]
    PROVE  v = w
OBVIOUS

\* The last element of what is appended to.
LEMMA AppendFacts ==
    ASSUME NEW S, NEW s \in Seq(S), NEW e \in S
    PROVE  /\ Append(s, e) \in Seq(S) /\ Append(s, e) # << >>
           /\ Len(Append(s, e)) = Len(s) + 1 /\ Len(s) \in Nat
           /\ Last(Append(s, e)) = e
           /\ DOMAIN Append(s, e) = 1 .. Len(s) + 1
           /\ \A i \in 1 .. Len(s) : Append(s, e)[i] = s[i]
           /\ Append(s, e)[Len(s) + 1] = e
BY DEF Last

\* All but the last element.
LEMMA FrontElements ==
    ASSUME NEW S, NEW v \in Seq(S), v # << >>
    PROVE  /\ Front(v) \in Seq(S) /\ Len(Front(v)) = Len(v) - 1
           /\ \A i \in 1 .. Len(v) - 1 : Front(v)[i] = v[i]
           /\ Last(v) = v[Len(v)] /\ Last(v) \in S
<1> DEFINE l == Len(v)
           s == SubSeq(v, 1, l - 1)
<1>1. l \in Nat /\ l >= 1 /\ \A i \in 1 .. l : v[i] \in S
  OBVIOUS
<1> HIDE DEF l
<1>2. 1 \in Int /\ l - 1 \in Int /\ \A i \in 1 .. l - 1 : v[i] \in S
  BY <1>1
<1>3. /\ s \in Seq(S)
      /\ Len(s) = IF 1 <= l - 1 THEN l - 1 - 1 + 1 ELSE 0
      /\ \A i \in 1 .. l - 1 - 1 + 1 : s[i] = v[1 + i - 1]
  BY <1>2, SubSeqProperties
<1> HIDE DEF s
<1>4. l - 1 - 1 + 1 = l - 1 /\ (1 <= l - 1 \/ l - 1 = 0) /\ \A i \in 1 .. l - 1 : 1 + i - 1 = i
  BY <1>1
<1>5. Len(s) = l - 1 /\ \A i \in 1 .. l - 1 : s[i] = v[i]
  BY <1>3, <1>4
<1>6. v[l] \in S
  BY <1>1
<1> QED BY <1>3, <1>5, <1>6 DEF Front, Last, s, l

\* The last one of all, taken from a window of the last elements or from what
\* comes before it.
LEMMA LastOfWindow ==
    ASSUME NEW S, NEW v \in Seq(S), NEW n \in 1 .. Len(v), NEW p \in Nat \ {0}
    PROVE  /\ p <= n => LastN(LastN(v, n), p) = LastN(v, p)
           /\ p < n => LastN(Front(LastN(v, n)), p) = LastN(Front(v), p)
           /\ Last(LastN(v, n)) = Last(v)
<1> DEFINE w == LastN(v, n)
           l == Len(v)
<1>1. l \in Nat /\ n \in Nat /\ 1 <= n /\ n <= l /\ v # << >> /\ v \in Seq(S) /\ p \in Nat /\ p >= 1
  OBVIOUS
<1>2. w \in Seq(S) /\ Len(w) = n /\ \A i \in 1 .. n : w[i] = v[l - n + i]
  <2> HIDE DEF w
  <2> QED BY LastNElements DEF w
<1>3. l = Len(v)
  OBVIOUS
<1> HIDE DEF w, l
<1>4. ASSUME p <= n PROVE LastN(w, p) = LastN(v, p)
  <2>1. p \in 1 .. n /\ p \in 1 .. l
    BY <1>1, <1>4
  <2>2. /\ LastN(w, p) \in Seq(S) /\ Len(LastN(w, p)) = p
        /\ \A i \in 1 .. p : LastN(w, p)[i] = w[n - p + i]
    <3>1. p \in 1 .. Len(w) /\ w \in Seq(S)
      BY <1>2, <2>1
    <3>2. /\ LastN(w, p) \in Seq(S) /\ Len(LastN(w, p)) = p
          /\ \A i \in 1 .. p : LastN(w, p)[i] = w[Len(w) - p + i]
      BY <3>1, LastNElements
    <3> QED BY <3>2, <1>2, <2>1
  <2>3. /\ LastN(v, p) \in Seq(S) /\ Len(LastN(v, p)) = p
        /\ \A i \in 1 .. p : LastN(v, p)[i] = v[l - p + i]
    <3>1. p \in 1 .. Len(v) /\ v \in Seq(S)
      BY <1>1, <1>3, <2>1
    <3>2. /\ LastN(v, p) \in Seq(S) /\ Len(LastN(v, p)) = p
          /\ \A i \in 1 .. p : LastN(v, p)[i] = v[Len(v) - p + i]
      BY <3>1, LastNElements
    <3> QED BY <3>2, <1>1, <1>3, <2>1
  <2>4. ASSUME NEW i \in 1 .. p PROVE LastN(w, p)[i] = LastN(v, p)[i]
    <3>1. n - p + i \in 1 .. n /\ l - n + (n - p + i) = l - p + i
      BY <1>1, <2>1
    <3>2. w[n - p + i] = v[l - p + i]
      BY <1>2, <3>1
    <3> QED BY <2>2, <2>3, <3>2
  <2> QED BY <2>2, <2>3, <2>4, SameSequence
<1>5. ASSUME p < n PROVE LastN(Front(w), p) = LastN(Front(v), p)
  <2> DEFINE fw == Front(w)  fv == Front(v)
  <2>0. w # << >>
    BY <1>1, <1>2
  <2>1. /\ fw \in Seq(S) /\ n - 1 = Len(fw)
        /\ \A i \in 1 .. n - 1 : fw[i] = w[i]
    BY <1>2, <2>0, FrontElements
  <2>2. /\ fv \in Seq(S) /\ l - 1 = Len(fv)
        /\ \A i \in 1 .. l - 1 : fv[i] = v[i]
    BY <1>1, <1>3, FrontElements
  <2>3. p \in 1 .. n - 1 /\ p \in 1 .. l - 1
    BY <1>1, <1>5
  <2> HIDE DEF fw, fv
  <2>4. /\ LastN(fw, p) \in Seq(S) /\ Len(LastN(fw, p)) = p
        /\ \A i \in 1 .. p : LastN(fw, p)[i] = fw[n - 1 - p + i]
    <3>1. p \in 1 .. Len(fw) /\ fw \in Seq(S)
      BY <2>1, <2>3
    <3>2. /\ LastN(fw, p) \in Seq(S) /\ Len(LastN(fw, p)) = p
          /\ \A i \in 1 .. p : LastN(fw, p)[i] = fw[Len(fw) - p + i]
      BY <3>1, LastNElements
    <3> QED BY <3>2, <2>1, <2>3
  <2>5. /\ LastN(fv, p) \in Seq(S) /\ Len(LastN(fv, p)) = p
        /\ \A i \in 1 .. p : LastN(fv, p)[i] = fv[l - 1 - p + i]
    <3>1. p \in 1 .. Len(fv) /\ fv \in Seq(S)
      BY <2>2, <2>3
    <3>2. /\ LastN(fv, p) \in Seq(S) /\ Len(LastN(fv, p)) = p
          /\ \A i \in 1 .. p : LastN(fv, p)[i] = fv[Len(fv) - p + i]
      BY <3>1, LastNElements
    <3> QED BY <3>2, <2>2, <2>3
  <2>6. ASSUME NEW i \in 1 .. p PROVE LastN(fw, p)[i] = LastN(fv, p)[i]
    <3> DEFINE j == n - 1 - p + i
               k == l - 1 - p + i
    <3>1. j \in 1 .. n - 1 /\ k \in 1 .. l - 1 /\ j \in 1 .. n /\ l - n + j = k
      BY <1>1, <2>3
    <3>2. LastN(fw, p)[i] = fw[j] /\ LastN(fv, p)[i] = fv[k]
      BY <2>4, <2>5
    <3> HIDE DEF j, k
    <3>3. fw[j] = w[j] /\ w[j] = v[k] /\ fv[k] = v[k]
      BY <1>2, <2>1, <2>2, <3>1
    <3> QED BY <3>2, <3>3
  <2>7. LastN(fw, p) = LastN(fv, p)
    BY <2>4, <2>5, <2>6, SameSequence
  <2> QED BY <2>7 DEF fw, fv
<1>6. Last(w) = Last(v)
  <2>1. n \in 1 .. n /\ l - n + n = l
    BY <1>1
  <2>2. w[n] = v[l]
    BY <1>2, <2>1
  <2> QED BY <1>2, <1>3, <2>2 DEF Last
<1> QED BY <1>4, <1>5, <1>6 DEF w

\* The closes of a window are the window of the closes.
LEMMA ClosesOfWindow ==
    ASSUME NEW S, NEW b \in Seq(S), \A x \in S : x.close \in Int, NEW n \in 1 .. Len(b)
    PROVE  /\ Closes(b) \in Seq(Int) /\ Len(Closes(b)) = Len(b)
           /\ \A i \in 1 .. Len(b) : Closes(b)[i] = b[i].close
           /\ Closes(LastN(b, n)) = LastN(Closes(b), n)
<1> DEFINE l == Len(b)
           w == LastN(b, n)
           c == Closes(b)
           cw == Closes(w)
<1>1. l \in Nat /\ n \in 1 .. l /\ \A i \in 1 .. l : b[i] \in S
  OBVIOUS
<1>2. c \in Seq(Int) /\ l = Len(c) /\ \A i \in 1 .. l : c[i] = b[i].close
  BY <1>1 DEF Closes
<1>3. w \in Seq(S) /\ Len(w) = n /\ \A i \in 1 .. n : w[i] = b[l - n + i]
  <2> HIDE DEF w
  <2> QED BY LastNElements DEF w
<1> HIDE DEF w, l
<1>4. cw \in Seq(Int) /\ Len(cw) = n /\ \A i \in 1 .. n : cw[i] = w[i].close
  <2>1. \A i \in 1 .. n : w[i].close \in Int
    BY <1>3
  <2> QED BY <1>1, <1>3, <2>1 DEF Closes
<1> HIDE DEF c, cw
<1>5. /\ LastN(c, n) \in Seq(Int) /\ Len(LastN(c, n)) = n
      /\ \A i \in 1 .. n : LastN(c, n)[i] = c[l - n + i]
  <2>1. n \in 1 .. Len(c)
    BY <1>1, <1>2
  <2>2. \A i \in 1 .. n : LastN(c, n)[i] = c[Len(c) - n + i]
    BY <1>2, <2>1, LastNElements
  <2> QED BY <1>2, <2>1, <2>2, LastNElements
<1>6. cw = LastN(c, n)
  <2>1. ASSUME NEW i \in 1 .. n PROVE cw[i] = LastN(c, n)[i]
    <3>1. l - n + i \in 1 .. l
      BY <1>1
    <3> QED BY <1>2, <1>3, <1>4, <1>5, <3>1
  <2> QED BY <1>4, <1>5, <2>1, SameSequence
<1> QED BY <1>2, <1>6 DEF c, cw, w, l

\* An element counted from the end, with or without the last one of all.
LEMMA FromTheEnd ==
    ASSUME NEW S, NEW v \in Seq(S), NEW n \in 2 .. Len(v), NEW p \in Nat, p + 2 <= n
    PROVE  LET w == LastN(v, n)
           IN  /\ w[Len(w) - p] = v[Len(v) - p]
               /\ Front(w)[Len(Front(w)) - p] = Front(v)[Len(Front(v)) - p]
               /\ Last(w) = Last(v) /\ Last(Front(w)) = Last(Front(v))
<1> DEFINE w == LastN(v, n)
           l == Len(v)
<1>1. /\ l \in Nat /\ n \in Nat /\ 2 <= n /\ n <= l /\ p + 2 <= n /\ p \in Nat
      /\ v # << >> /\ v \in Seq(S)
  OBVIOUS
<1>2. w \in Seq(S) /\ Len(w) = n /\ \A i \in 1 .. n : w[i] = v[l - n + i]
  <2>1. n \in 1 .. Len(v)
    OBVIOUS
  <2> HIDE DEF w
  <2> QED BY <2>1, LastNElements DEF w
<1>3. l = Len(v)
  OBVIOUS
<1> HIDE DEF w, l
<1>4. w # << >>
  BY <1>1, <1>2
<1> DEFINE fw == Front(w)  fv == Front(v)
<1>5. /\ fw \in Seq(S) /\ Len(fw) = n - 1 /\ \A i \in 1 .. n - 1 : fw[i] = w[i]
      /\ Last(w) = w[n]
  BY <1>2, <1>4, FrontElements
<1>6. /\ fv \in Seq(S) /\ Len(fv) = l - 1 /\ \A i \in 1 .. l - 1 : fv[i] = v[i]
      /\ Last(v) = v[l]
  BY <1>1, <1>3, FrontElements
<1> HIDE DEF fw, fv
<1>7. w[n - p] = v[l - p]
  <2>1. n - p \in 1 .. n /\ l - n + (n - p) = l - p
    BY <1>1
  <2> QED BY <1>2, <2>1
<1>8. w[n] = v[l]
  <2>1. n \in 1 .. n /\ l - n + n = l
    BY <1>1
  <2> QED BY <1>2, <2>1
<1>9. ASSUME NEW q \in Nat, q + 2 <= n PROVE fw[n - 1 - q] = fv[l - 1 - q]
  <2> DEFINE i == n - 1 - q
             j == l - 1 - q
  <2>1. i \in 1 .. n - 1 /\ i \in 1 .. n /\ l - n + i = j /\ j \in 1 .. l - 1
    BY <1>1, <1>9
  <2> HIDE DEF i, j
  <2>2. fw[i] = w[i] /\ w[i] = v[j] /\ fv[j] = v[j]
    BY <1>2, <1>5, <1>6, <2>1
  <2> QED BY <2>2 DEF i, j
<1>10. fw[n - 1] = fv[l - 1]
  <2>1. fw[n - 1 - 0] = fv[l - 1 - 0]
    <3>1. 0 + 2 <= n /\ 0 \in Nat
      BY <1>1
    <3> QED BY <1>9, <3>1
  <2>2. n - 1 - 0 = n - 1 /\ l - 1 - 0 = l - 1
    BY <1>1
  <2> QED BY <2>1, <2>2
<1>11. fw[n - 1 - p] = fv[l - 1 - p]
  BY <1>1, <1>9
<1>12. Last(fw) = Last(fv)
  BY <1>5, <1>6, <1>10 DEF Last
<1>13. w[Len(w) - p] = v[Len(v) - p] /\ fw[Len(fw) - p] = fv[Len(fv) - p]
  BY <1>2, <1>3, <1>5, <1>6, <1>7, <1>11
<1> QED BY <1>5, <1>6, <1>8, <1>12, <1>13 DEF w, fw, fv

\* The strategies that look at a bounded number of bars answer the same to a
\* window that holds them as to all of them.
LEMMA MaOfWindow ==
    ASSUME NEW S, NEW b \in Seq(S), \A x \in S : x.close \in Int, NEW n \in 1 .. Len(b),
           Params.fast < n, Params.slow < n
    PROVE  MaCrossover(LastN(b, n)) = MaCrossover(b)
<1> DEFINE c == Closes(b)
           w == Closes(LastN(b, n))
<1>1. c \in Seq(Int) /\ n \in 1 .. Len(c) /\ w = LastN(c, n)
  BY ClosesOfWindow
<1>2. Params.fast \in Nat \ {0} /\ Params.slow \in Nat \ {0}
  BY ParamsAssumption
<1> HIDE DEF c, w
<1>3. ASSUME NEW p \in Nat \ {0}, p < n
      PROVE  Sma(w, p) = Sma(c, p) /\ Sma(Front(w), p) = Sma(Front(c), p)
  <2>1. p <= n
    BY <1>3
  <2>2. LastN(w, p) = LastN(c, p) /\ LastN(Front(w), p) = LastN(Front(c), p)
    BY <1>1, <1>3, <2>1, LastOfWindow
  <2> QED BY <2>2 DEF Sma
<1>4. /\ Sma(w, Params.fast) = Sma(c, Params.fast)
      /\ Sma(w, Params.slow) = Sma(c, Params.slow)
      /\ Sma(Front(w), Params.fast) = Sma(Front(c), Params.fast)
      /\ Sma(Front(w), Params.slow) = Sma(Front(c), Params.slow)
  BY <1>2, <1>3
<1> QED BY <1>4, Zenon DEF MaCrossover, c, w

LEMMA BollingerOfWindow ==
    ASSUME NEW S, NEW b \in Seq(S), \A x \in S : x.close \in Int, NEW n \in 1 .. Len(b),
           Params.bandPeriod < n
    PROVE  Bollinger(LastN(b, n)) = Bollinger(b)
<1> DEFINE c == Closes(b)
           w == Closes(LastN(b, n))
           p == Params.bandPeriod
<1>1. c \in Seq(Int) /\ n \in 1 .. Len(c) /\ w = LastN(c, n)
  BY ClosesOfWindow
<1>2. p \in Nat \ {0} /\ p < n
  BY ParamsAssumption
<1> HIDE DEF c, w, p
<1>3. p <= n
  BY <1>2
<1>4. /\ LastN(w, p) = LastN(c, p) /\ LastN(Front(w), p) = LastN(Front(c), p)
      /\ Last(w) = Last(c)
  BY <1>1, <1>2, <1>3, LastOfWindow
<1>5. Last(Front(w)) = Last(Front(c))
  <2>1. n \in 2 .. Len(c) /\ 0 \in Nat /\ 0 + 2 <= n
    BY <1>1, <1>2
  <2> QED BY <1>1, <2>1, FromTheEnd
<1>6. \A k : BandSide(w, p, k) = BandSide(c, p, k)
  BY <1>4, Zenon DEF BandSide
<1>7. \A k : BandSide(Front(w), p, k) = BandSide(Front(c), p, k)
  BY <1>4, <1>5, Zenon DEF BandSide
<1> QED BY <1>6, <1>7, Zenon DEF Bollinger, c, w, p

LEMMA MomentumOfWindow ==
    ASSUME NEW S, NEW b \in Seq(S), \A x \in S : x.close \in Int, NEW n \in 1 .. Len(b),
           Params.period + 2 <= n
    PROVE  Momentum(LastN(b, n)) = Momentum(b)
<1> DEFINE c == Closes(b)
           w == Closes(LastN(b, n))
           p == Params.period
<1>1. c \in Seq(Int) /\ n \in 1 .. Len(c) /\ w = LastN(c, n)
  BY ClosesOfWindow
<1>2. p \in Nat \ {0} /\ p + 2 <= n
  BY ParamsAssumption
<1> HIDE DEF c, w, p
<1>3. n \in 2 .. Len(c) /\ p \in Nat
  BY <1>1, <1>2
<1>4. /\ w[Len(w) - p] = c[Len(c) - p]
      /\ Front(w)[Len(Front(w)) - p] = Front(c)[Len(Front(c)) - p]
      /\ Last(w) = Last(c) /\ Last(Front(w)) = Last(Front(c))
  BY <1>1, <1>2, <1>3, FromTheEnd
<1>5. Roc(w, p) = Roc(c, p) /\ Roc(Front(w), p) = Roc(Front(c), p)
  BY <1>4, Zenon DEF Roc
<1> QED BY <1>5, Zenon DEF Momentum, c, w, p

LEMMA SupertrendOfWindow ==
    ASSUME NEW S, NEW b \in Seq(S), NEW p \in Nat \ {0}, p + 2 \in 1 .. Len(b), NEW t
    PROVE  Supertrend(LastN(b, p + 2), p, t) = Supertrend(b, p, t)
<1>1. LastN(LastN(b, p + 2), p + 2) = LastN(b, p + 2)
  <2> DEFINE n == p + 2
  <2>1. n \in 1 .. Len(b) /\ n \in Nat \ {0} /\ n <= n
    OBVIOUS
  <2> HIDE DEF n
  <2>2. LastN(LastN(b, n), n) = LastN(b, n)
    BY <2>1, LastOfWindow
  <2> QED BY <2>2 DEF n
<1> QED BY <1>1, Zenon DEF Supertrend

----------------------------------------------------------------------------
\* Wilder's averages and the average range.

Averages == [num : Nat, den : Nat \ {0}]

\* One step of the average.
Smoothed(avg, v, period) == Frac(avg.num * (period - 1) + v * avg.den, avg.den * period)

LEMMA SmoothedType ==
    ASSUME NEW avg \in Averages, NEW v \in Nat, NEW period \in Nat \ {0}
    PROVE  Smoothed(avg, v, period) \in Averages
<1>1. avg.num \in Nat /\ avg.den \in Nat /\ avg.den > 0 /\ period > 0 /\ period - 1 \in Nat
  BY DEF Averages
<1>2. avg.num * (period - 1) \in Nat /\ v * avg.den \in Nat
  BY <1>1
<1>3. avg.den * period \in Nat /\ avg.den * period > 0
  BY <1>1
<1>4. avg.num * (period - 1) + v * avg.den \in Nat
  BY <1>2
<1> QED BY <1>3, <1>4 DEF Smoothed, Frac, Averages

\* The average is the last of those of the beginnings.
LEMMA WilderRun ==
    ASSUME NEW values \in Seq(Nat), NEW period \in Nat \ {0},
           Total(SubSeq(values, 1, period)) \in Nat,
           SubSeq(values, period + 1, Len(values)) \in Seq(Nat)
    PROVE  LET rest == SubSeq(values, period + 1, Len(values))
           IN  \E run \in [0 .. Len(rest) -> Averages] :
                /\ run[0] = Frac(Total(SubSeq(values, 1, period)), period)
                /\ \A k \in 1 .. Len(rest) : run[k] = Smoothed(run[k - 1], rest[k], period)
                /\ Wilder(values, period) = run[Len(rest)]
<1> DEFINE v == SubSeq(values, period + 1, Len(values))
           n == Len(v)
           base == Frac(Total(SubSeq(values, 1, period)), period)
           Smooth(avg, x) == Frac(avg.num * (period - 1) + x * avg.den, avg.den * period)
           Rec(f) == f = [s \in SUBSET (1 .. n) |->
                            IF s = {} THEN base ELSE Smooth(f[s \ {Max(s)}], v[Max(s)])]
           h == CHOOSE f : Rec(f)
           step == [i \in 1 .. n |-> [a \in Averages |-> Smooth(a, v[i])]]
           run == [k \in 0 .. n |-> h[1 .. k]]
<1>0. /\ n \in Nat /\ DOMAIN v = 1 .. n /\ \A i \in 1 .. n : v[i] \in Nat
      /\ base \in Averages
  BY DEF Averages, Frac
<1> HIDE DEF v, base
<1>1. Wilder(values, period) = h[1 .. n]
  BY <1>0, Zenon DEF Wilder, FoldLeft, MapThenFoldSet, v, base
<1> HIDE DEF n
<1>2. \A a, x : Smooth(a, x) = Smoothed(a, x, period)
  BY DEF Smoothed
<1> HIDE DEF Smooth
<1>3. StepsIn(step, 1 .. n, Averages)
  BY <1>0, <1>2, SmoothedType DEF StepsIn
<1>4. PICK g : IsFold(g, 1 .. n, Averages, base, Greatest(n), step)
  <2> HIDE DEF step
  <2> QED BY <1>0, <1>3, LeftRecursion, Zenon
<1>5. \E f : Rec(f)
  <2> DEFINE f == [s \in SUBSET (1 .. n) |-> g[s]]
  <2>1. ASSUME NEW s \in SUBSET (1 .. n), s # {}
        PROVE  f[s] = Smooth(f[s \ {Max(s)}], v[Max(s)])
    <3>1. Max(s) \in 1 .. n /\ s \ {Max(s)} \in SUBSET (1 .. n)
      BY <1>0, <2>1, MaxOfInterval
    <3>2. g[s] = step[Max(s)][g[s \ {Max(s)}]] /\ g[s \ {Max(s)}] \in Averages
      BY <1>4, <2>1, <3>1 DEF IsFold, Greatest
    <3> QED BY <3>1, <3>2
  <2>2. f[{}] = base
    BY <1>4 DEF IsFold
  <2>3. Rec(f)
    BY <2>1, <2>2
  <2> HIDE DEF Rec, f
  <2> QED BY <2>3
<1>6. Rec(h)
  <2> HIDE DEF Rec
  <2> QED BY <1>5
<1>7. \A s \in SUBSET (1 .. n) :
        h[s] = IF s = {} THEN base ELSE Smooth(h[s \ {Max(s)}], v[Max(s)])
  <2> HIDE DEF h
  <2> QED BY <1>6, Zenon
<1> HIDE DEF h
<1>8. run[0] = base
  <2>1. 1 .. 0 = {} /\ {} \in SUBSET (1 .. n) /\ 0 \in 0 .. n
    BY <1>0
  <2> QED BY <1>7, <2>1
<1>9. \A k \in 1 .. n : run[k] = Smoothed(run[k - 1], v[k], period)
  <2> TAKE k \in 1 .. n
  <2>1. k \in 0 .. n /\ k - 1 \in 0 .. n
    BY <1>0
  <2>2. h[1 .. k] = Smooth(h[1 .. k - 1], v[k])
    BY <1>0, <1>7, MaxOfInterval
  <2> QED BY <1>2, <2>1, <2>2
<1>10. run \in [0 .. n -> Averages]
  <2> DEFINE P == {k \in 0 .. n : run[k] \in Averages}
  <2>1. 0 \in P
    BY <1>0, <1>8
  <2>2. ASSUME NEW k \in 1 .. n, k - 1 \in P PROVE k \in P
    <3> HIDE DEF run
    <3>1. run[k - 1] \in Averages /\ v[k] \in Nat /\ k \in 0 .. n
      BY <1>0, <2>2
    <3>2. Smoothed(run[k - 1], v[k], period) \in Averages
      BY <3>1, SmoothedType
    <3> QED BY <1>9, <2>2, <3>1, <3>2
  <2>3. \A k \in 0 .. n : k \in P
    <3> HIDE DEF P
    <3> QED BY <1>0, <2>1, <2>2, AllUpTo
  <2> QED BY <2>3
<1>11. Wilder(values, period) = run[n]
  BY <1>0, <1>1
<1> HIDE DEF run
<1> QED BY <1>8, <1>9, <1>10, <1>11 DEF n, base, v

\* Sums of natural numbers are natural numbers, and at least each of them.
LEMMA TotalOfNaturals ==
    ASSUME NEW v \in Seq(Nat)
    PROVE  Total(v) \in Nat /\ \A i \in 1 .. Len(v) : v[i] <= Total(v)
<1> DEFINE n == Len(v)
<1>1. n \in Nat /\ \A i \in 1 .. n : v[i] \in Nat
  OBVIOUS
<1>2. v \in Seq(Int)
  <2>1. \A x \in Nat : x \in Int
    OBVIOUS
  <2> QED BY <2>1, SeqOfMore
<1>3. PICK r \in [0 .. n -> Int] :
        r[0] = 0 /\ (\A k \in 1 .. n : r[k] = r[k - 1] + v[k]) /\ Total(v) = r[n]
  BY <1>2, TotalRun
<1> HIDE DEF n
<1> DEFINE P == {k \in 0 .. n : r[k] \in Nat /\ \A i \in 1 .. k : v[i] <= r[k]}
<1>4. 0 \in P
  BY <1>1, <1>3
<1>5. ASSUME NEW k \in 1 .. n, k - 1 \in P PROVE k \in P
  <2>1. k \in 0 .. n /\ r[k - 1] \in Nat /\ v[k] \in Nat /\ r[k] = r[k - 1] + v[k]
    BY <1>1, <1>3, <1>5
  <2>2. r[k] \in Nat /\ r[k - 1] <= r[k] /\ v[k] <= r[k]
    BY <2>1
  <2>3. \A i \in 1 .. k : i = k \/ i \in 1 .. k - 1
    BY <1>1
  <2>4. \A i \in 1 .. k - 1 : v[i] \in Nat /\ v[i] <= r[k - 1]
    BY <1>1, <1>5
  <2>5. \A i \in 1 .. k - 1 : v[i] <= r[k]
    BY <2>1, <2>2, <2>4
  <2> QED BY <2>1, <2>2, <2>3, <2>5
<1>6. \A k \in 0 .. n : k \in P
  <2> HIDE DEF P
  <2> QED BY <1>1, <1>4, <1>5, AllUpTo
<1>7. n \in 0 .. n
  BY <1>1
<1>8. r[n] \in Nat /\ \A i \in 1 .. n : v[i] <= r[n]
  BY <1>6, <1>7
<1> QED BY <1>3, <1>8 DEF n

\* What bars are made of.
LEMMA BarFields ==
    ASSUME NEW b \in Seq(BarType), NEW i \in 1 .. Len(b)
    PROVE  /\ b[i].open \in Prices /\ b[i].high \in Prices /\ b[i].low \in Prices
           /\ b[i].close \in Prices /\ b[i].volume \in Nat
           /\ b[i].day \in Nat /\ b[i].time \in Int /\ b[i] \in BarType
<1>1. b[i] \in BarType
  OBVIOUS
<1> QED BY <1>1 DEF BarType

\* Of finitely many integers one is the greatest, and one the least.
LEMMA GreatestOfMany ==
    ASSUME NEW n \in Nat \ {0}, NEW f, \A i \in 1 .. n : f[i] \in Int
    PROVE  \E i \in 1 .. n : \A j \in 1 .. n : f[i] >= f[j]
<1> DEFINE P == {k \in 0 .. n : k > 0 => \E i \in 1 .. k : \A j \in 1 .. k : f[i] >= f[j]}
<1>1. 0 \in P
  OBVIOUS
<1>2. ASSUME NEW k \in 1 .. n, k - 1 \in P PROVE k \in P
  <2>1. \A j \in 1 .. k : j \in 1 .. n /\ (j = k \/ j \in 1 .. k - 1)
    OBVIOUS
  <2>2. CASE k = 1
    <3>1. \A j \in 1 .. k : j = k
      BY <2>2
    <3>2. k \in 1 .. k /\ f[k] \in Int
      BY <2>1
    <3> QED BY <3>1, <3>2
  <2>3. CASE k # 1
    <3>1. PICK i \in 1 .. k - 1 : \A j \in 1 .. k - 1 : f[i] >= f[j]
      BY <1>2, <2>3
    <3>2. f[i] \in Int /\ f[k] \in Int /\ i \in 1 .. k /\ k \in 1 .. k
      OBVIOUS
    <3>3. CASE f[i] >= f[k]
      <4>1. \A j \in 1 .. k : f[i] >= f[j]
        BY <2>1, <3>1, <3>3
      <4> QED BY <3>2, <4>1
    <3>4. CASE ~(f[i] >= f[k])
      <4>1. ASSUME NEW j \in 1 .. k PROVE f[k] >= f[j]
        <5>1. CASE j = k
          BY <3>2, <5>1
        <5>2. CASE j \in 1 .. k - 1
          <6>1. f[j] \in Int /\ f[i] >= f[j]
            BY <2>1, <3>1, <5>2
          <6> QED BY <3>2, <3>4, <6>1
        <5> QED BY <2>1, <5>1, <5>2
      <4> QED BY <3>2, <4>1
    <3> QED BY <3>3, <3>4
  <2> QED BY <2>2, <2>3
<1>3. \A k \in 0 .. n : k \in P
  <2> HIDE DEF P
  <2> QED BY <1>1, <1>2, AllUpTo
<1>4. n \in P /\ n > 0
  BY <1>3
<1> QED BY <1>4

LEMMA LeastOfMany ==
    ASSUME NEW n \in Nat \ {0}, NEW f, \A i \in 1 .. n : f[i] \in Int
    PROVE  \E i \in 1 .. n : \A j \in 1 .. n : f[i] <= f[j]
<1> DEFINE g == [i \in 1 .. n |-> -f[i]]
<1>1. \A i \in 1 .. n : g[i] \in Int /\ g[i] = -f[i]
  OBVIOUS
<1> HIDE DEF g
<1>2. PICK i \in 1 .. n : \A j \in 1 .. n : g[i] >= g[j]
  BY <1>1, GreatestOfMany
<1>3. \A j \in 1 .. n : f[i] <= f[j]
  BY <1>1, <1>2
<1> QED BY <1>3

\* The highest high of some bars is that of one of them, and so is the lowest low.
LEMMA HighestOf ==
    ASSUME NEW b \in Seq(BarType), b # << >>
    PROVE  /\ \E i \in 1 .. Len(b) : Highest(b) = b[i].high
           /\ \A i \in 1 .. Len(b) : b[i].high <= Highest(b)
           /\ Highest(b) \in Prices
<1> DEFINE n == Len(b)
           f == [i \in 1 .. n |-> b[i].high]
           S == {x.high : x \in ToSet(b)}
<1>1. n \in Nat \ {0} /\ \A i \in 1 .. n : f[i] \in Prices /\ f[i] = b[i].high
  BY BarFields
<1>2. S = {f[i] : i \in 1 .. n}
  BY DEF ToSet
<1> HIDE DEF f, S
<1>3. PICK i \in 1 .. n : \A j \in 1 .. n : f[i] >= f[j]
  <2>1. \A i \in 1 .. n : f[i] \in Int
    BY <1>1 DEF Prices
  <2> HIDE DEF n
  <2> QED BY <1>1, <2>1, GreatestOfMany
<1>4. f[i] \in S /\ \A y \in S : f[i] >= y
  BY <1>2, <1>3
<1>5. Highest(b) \in S /\ \A y \in S : Highest(b) >= y
  BY <1>4, Zenon DEF Highest, Max, S
<1>6. \A j \in 1 .. n : Highest(b) >= f[j] /\ Highest(b) \in Int /\ f[j] \in Int
  BY <1>1, <1>2, <1>5 DEF Prices
<1>7. \A j \in 1 .. n : f[j] <= Highest(b)
  BY <1>6
<1> QED BY <1>1, <1>2, <1>5, <1>7

LEMMA LowestOf ==
    ASSUME NEW b \in Seq(BarType), b # << >>
    PROVE  /\ \E i \in 1 .. Len(b) : Lowest(b) = b[i].low
           /\ \A i \in 1 .. Len(b) : Lowest(b) <= b[i].low
           /\ Lowest(b) \in Prices
<1> DEFINE n == Len(b)
           f == [i \in 1 .. n |-> b[i].low]
           S == {x.low : x \in ToSet(b)}
<1>1. n \in Nat \ {0} /\ \A i \in 1 .. n : f[i] \in Prices /\ f[i] = b[i].low
  BY BarFields
<1>2. S = {f[i] : i \in 1 .. n}
  BY DEF ToSet
<1> HIDE DEF f, S
<1>3. PICK i \in 1 .. n : \A j \in 1 .. n : f[i] <= f[j]
  <2>1. \A i \in 1 .. n : f[i] \in Int
    BY <1>1 DEF Prices
  <2> HIDE DEF n
  <2> QED BY <1>1, <2>1, LeastOfMany
<1>4. f[i] \in S /\ \A y \in S : f[i] <= y
  BY <1>2, <1>3
<1>5. Lowest(b) \in S /\ \A y \in S : Lowest(b) <= y
  BY <1>4, Zenon DEF Lowest, Min, S
<1>6. \A j \in 1 .. n : Lowest(b) <= f[j]
  BY <1>2, <1>5
<1> QED BY <1>1, <1>2, <1>5, <1>6

\* Abs of an integer.
LEMMA AbsType == ASSUME NEW x \in Int PROVE Abs(x) \in Nat /\ Abs(x) >= x /\ Abs(x) >= -x
BY DEF Abs

\* The true range is at least each of the distances it is made of.
LEMMA TrueRangeType ==
    ASSUME NEW bar \in BarType, NEW c \in Int
    PROVE  /\ TrueRange(bar, c) \in Nat
           /\ TrueRange(bar, c) >= bar.high - bar.low
           /\ TrueRange(bar, c) >= Abs(bar.high - c)
           /\ TrueRange(bar, c) >= Abs(bar.low - c)
<1> DEFINE x == bar.high - bar.low
           y == Abs(bar.high - c)
           z == Abs(bar.low - c)
<1>1. bar.high \in Int /\ bar.low \in Int
  BY DEF BarType, Prices
<1>2. x \in Int /\ y \in Nat /\ z \in Nat
  BY <1>1, AbsType
<1> HIDE DEF x, y, z
<1>3. \E m \in {x, y, z} : \A o \in {x, y, z} : m >= o
  <2>1. CASE x >= y /\ x >= z
    BY <1>2, <2>1
  <2>2. CASE y >= x /\ y >= z
    BY <1>2, <2>2
  <2>3. CASE z >= x /\ z >= y
    BY <1>2, <2>3
  <2> QED BY <1>2, <2>1, <2>2, <2>3
<1>4. Max({x, y, z}) \in {x, y, z} /\ \A o \in {x, y, z} : Max({x, y, z}) >= o
  BY <1>3, Zenon DEF Max
<1> DEFINE m == Max({x, y, z})
<1> HIDE DEF m
<1>5. m \in {x, y, z} /\ m >= x /\ m >= y /\ m >= z
  BY <1>4 DEF m
<1>6. m \in Nat
  BY <1>2, <1>5
<1> QED BY <1>5, <1>6 DEF TrueRange, m, x, y, z

LEMMA TrueRangesType ==
    ASSUME NEW b \in Seq(BarType), b # << >>
    PROVE  /\ TrueRanges(b) \in Seq(Nat) /\ Len(TrueRanges(b)) = Len(b) - 1
           /\ \A i \in 1 .. Len(b) - 1 : TrueRanges(b)[i] = TrueRange(b[i + 1], b[i].close)
<1> DEFINE n == Len(b) - 1
<1>1. n \in Nat
  OBVIOUS
<1>2. ASSUME NEW i \in 1 .. n PROVE TrueRange(b[i + 1], b[i].close) \in Nat
  <2>1. i \in 1 .. Len(b) /\ i + 1 \in 1 .. Len(b)
    BY <1>1
  <2>2. b[i + 1] \in BarType /\ b[i].close \in Int
    BY <2>1, BarFields DEF Prices
  <2> QED BY <2>2, TrueRangeType
<1> HIDE DEF n
<1>3. TrueRanges(b) = [i \in 1 .. n |-> TrueRange(b[i + 1], b[i].close)]
  BY DEF TrueRanges, n
<1>4. TrueRanges(b) \in Seq(Nat) /\ Len(TrueRanges(b)) = n
  BY <1>1, <1>2, <1>3
<1> QED BY <1>3, <1>4 DEF n

\* The two parts Wilder's average is made of.
LEMMA WilderParts ==
    ASSUME NEW values \in Seq(Nat), NEW period \in Nat \ {0}, period <= Len(values)
    PROVE  /\ SubSeq(values, 1, period) \in Seq(Nat)
           /\ Len(SubSeq(values, 1, period)) = period
           /\ \A i \in 1 .. period : SubSeq(values, 1, period)[i] = values[i]
           /\ SubSeq(values, period + 1, Len(values)) \in Seq(Nat)
           /\ Len(SubSeq(values, period + 1, Len(values))) = Len(values) - period
           /\ \A i \in 1 .. Len(values) - period :
                SubSeq(values, period + 1, Len(values))[i] = values[period + i]
<1> DEFINE l == Len(values)
<1>1. l \in Nat /\ period \in Nat /\ period <= l /\ 1 <= period /\ \A i \in 1 .. l : values[i] \in Nat
  OBVIOUS
<1> HIDE DEF l
<1>2. 1 \in Int /\ period \in Int /\ period + 1 \in Int /\ l \in Int
      /\ (\A i \in 1 .. period : values[i] \in Nat)
      /\ (\A i \in period + 1 .. l : values[i] \in Nat)
  BY <1>1
<1> DEFINE a == SubSeq(values, 1, period)
           z == SubSeq(values, period + 1, l)
<1>3. /\ a \in Seq(Nat) /\ Len(a) = IF 1 <= period THEN period - 1 + 1 ELSE 0
      /\ \A i \in 1 .. period - 1 + 1 : a[i] = values[1 + i - 1]
  BY <1>2, SubSeqProperties
<1>4. /\ z \in Seq(Nat) /\ Len(z) = IF period + 1 <= l THEN l - (period + 1) + 1 ELSE 0
      /\ \A i \in 1 .. l - (period + 1) + 1 : z[i] = values[period + 1 + i - 1]
  BY <1>2, SubSeqProperties
<1> HIDE DEF a, z
<1>5. /\ period - 1 + 1 = period /\ l - (period + 1) + 1 = l - period
      /\ (period + 1 <= l \/ l - period = 0)
      /\ \A i \in 1 .. period : 1 + i - 1 = i
      /\ \A i \in 1 .. l - period : period + 1 + i - 1 = period + i
  BY <1>1
<1>6. Len(a) = period /\ \A i \in 1 .. period : a[i] = values[i]
  BY <1>1, <1>3, <1>5
<1>7. Len(z) = l - period /\ \A i \in 1 .. l - period : z[i] = values[period + i]
  BY <1>1, <1>4, <1>5
<1> QED BY <1>3, <1>4, <1>6, <1>7 DEF a, z, l

LEMMA AtrType ==
    ASSUME NEW b \in Seq(BarType), NEW period \in Nat \ {0}
    PROVE  Atr(b, period) \in Averages
<1>1. CASE Len(b) < period + 1
  BY <1>1 DEF Atr, Averages, Frac
<1>2. CASE ~(Len(b) < period + 1)
  <2> DEFINE v == TrueRanges(b)
  <2>1. b # << >> /\ period <= Len(b) - 1
    BY <1>2
  <2>2. v \in Seq(Nat) /\ period <= Len(v)
    BY <2>1, TrueRangesType
  <2> HIDE DEF v
  <2>3. SubSeq(v, 1, period) \in Seq(Nat) /\ SubSeq(v, period + 1, Len(v)) \in Seq(Nat)
    BY <2>2, WilderParts
  <2>4. Total(SubSeq(v, 1, period)) \in Nat
    BY <2>3, TotalOfNaturals
  <2>5. Wilder(v, period) \in Averages
    <3>1. PICK run \in [0 .. Len(SubSeq(v, period + 1, Len(v))) -> Averages] :
            Wilder(v, period) = run[Len(SubSeq(v, period + 1, Len(v)))]
      BY <2>2, <2>3, <2>4, WilderRun
    <3>2. Len(SubSeq(v, period + 1, Len(v))) \in 0 .. Len(SubSeq(v, period + 1, Len(v)))
      BY <2>3
    <3> QED BY <3>1, <3>2
  <2> QED BY <1>2, <2>5 DEF Atr, v
<1> QED BY <1>1, <1>2

----------------------------------------------------------------------------
\* Sessions.

\* What is kept of some bars is the last of what is kept of their beginnings.
LEMMA KeptRun ==
    ASSUME NEW b \in Seq(BarType), NEW W
    PROVE  \E run \in [0 .. Len(b) -> Seq(BarType)] :
             /\ run[0] = << >>
             /\ \A k \in 1 .. Len(b) :
                    run[k] = IF b[k] \in W THEN Append(run[k - 1], b[k]) ELSE run[k - 1]
             /\ Kept(b, W) = run[Len(b)]
<1> DEFINE n == Len(b)
           A == Seq(BarType)
           Keep(kept, bar) == IF bar \in W THEN Append(kept, bar) ELSE kept
           Rec(f) == f = [s \in SUBSET (1 .. n) |->
                            IF s = {} THEN << >> ELSE Keep(f[s \ {Max(s)}], b[Max(s)])]
           h == CHOOSE f : Rec(f)
           step == [i \in 1 .. n |-> [a \in A |-> Keep(a, b[i])]]
           run == [k \in 0 .. n |-> h[1 .. k]]
<1>0. n \in Nat /\ DOMAIN b = 1 .. n /\ \A i \in 1 .. n : b[i] \in BarType
  OBVIOUS
<1>1. Kept(b, W) = h[1 .. n]
  BY <1>0, Zenon DEF Kept, FoldLeft, MapThenFoldSet
<1> HIDE DEF n
<1>2. \A a \in A, x \in BarType : Keep(a, x) \in A
  OBVIOUS
<1>3. << >> \in A
  OBVIOUS
<1> HIDE DEF Keep, A
<1>4. StepsIn(step, 1 .. n, A)
  BY <1>0, <1>2 DEF StepsIn
<1>5. PICK g : IsFold(g, 1 .. n, A, << >>, Greatest(n), step)
  <2> HIDE DEF step
  <2> QED BY <1>0, <1>3, <1>4, LeftRecursion, Zenon
<1>6. \E f : Rec(f)
  <2> DEFINE f == [s \in SUBSET (1 .. n) |-> g[s]]
  <2>1. ASSUME NEW s \in SUBSET (1 .. n), s # {}
        PROVE  f[s] = Keep(f[s \ {Max(s)}], b[Max(s)])
    <3>1. Max(s) \in 1 .. n /\ s \ {Max(s)} \in SUBSET (1 .. n)
      BY <1>0, <2>1, MaxOfInterval
    <3>2. g[s] = step[Max(s)][g[s \ {Max(s)}]] /\ g[s \ {Max(s)}] \in A
      BY <1>5, <2>1, <3>1 DEF IsFold, Greatest
    <3> QED BY <3>1, <3>2
  <2>2. f[{}] = << >>
    BY <1>5 DEF IsFold
  <2>3. Rec(f)
    BY <2>1, <2>2
  <2> HIDE DEF Rec, f
  <2> QED BY <2>3
<1>7. Rec(h)
  <2> HIDE DEF Rec
  <2> QED BY <1>6
<1>8. \A s \in SUBSET (1 .. n) :
        h[s] = IF s = {} THEN << >> ELSE Keep(h[s \ {Max(s)}], b[Max(s)])
  <2> HIDE DEF h
  <2> QED BY <1>7, Zenon
<1> HIDE DEF h
<1>9. run[0] = << >>
  <2>1. 1 .. 0 = {} /\ {} \in SUBSET (1 .. n) /\ 0 \in 0 .. n
    BY <1>0
  <2> QED BY <1>8, <2>1
<1>10. \A k \in 1 .. n : run[k] = Keep(run[k - 1], b[k])
  <2> TAKE k \in 1 .. n
  <2>1. k \in 0 .. n /\ k - 1 \in 0 .. n
    BY <1>0
  <2>2. h[1 .. k] = Keep(h[1 .. k - 1], b[k])
    BY <1>0, <1>8, MaxOfInterval
  <2> QED BY <2>1, <2>2
<1>11. run \in [0 .. n -> A]
  <2> DEFINE P == {k \in 0 .. n : run[k] \in A}
  <2>1. 0 \in P
    BY <1>0, <1>3, <1>9
  <2>2. ASSUME NEW k \in 1 .. n, k - 1 \in P PROVE k \in P
    <3> HIDE DEF run
    <3>1. run[k - 1] \in A /\ b[k] \in BarType /\ k \in 0 .. n
      BY <1>0, <2>2
    <3> QED BY <1>2, <1>10, <2>2, <3>1
  <2>3. \A k \in 0 .. n : k \in P
    <3> HIDE DEF P
    <3> QED BY <1>0, <2>1, <2>2, AllUpTo
  <2> QED BY <2>3
<1>12. Kept(b, W) = run[n]
  BY <1>0, <1>1
<1> HIDE DEF run
<1> QED BY <1>9, <1>10, <1>11, <1>12 DEF n, A, Keep

\* Bars that are kept are bars.
LEMMA KeptType == ASSUME NEW b \in Seq(BarType), NEW W PROVE Kept(b, W) \in Seq(BarType)
<1>1. PICK run \in [0 .. Len(b) -> Seq(BarType)] : Kept(b, W) = run[Len(b)]
  BY KeptRun
<1>2. Len(b) \in 0 .. Len(b)
  OBVIOUS
<1> QED BY <1>1, <1>2

LEMMA SessionTypes ==
    ASSUME NEW b \in Seq(BarType), NEW d
    PROVE  /\ SessionBars(b, d) \in Seq(BarType)
           /\ PrevSessionBars(b, d) \in Seq(BarType)
           /\ OpeningBars(b) \in Seq(BarType)
<1>1. \A e : SessionBars(b, e) \in Seq(BarType)
  BY KeptType DEF SessionBars
<1>2. OpeningBars(b) \in Seq(BarType)
  BY KeptType DEF OpeningBars
<1>3. PrevSessionBars(b, d) \in Seq(BarType)
  <2> DEFINE days == {x.day : x \in {c \in ToSet(b) : c.day < d /\ IsSessionBar(c)}}
  <2>1. CASE days = {}
    <3>1. PrevSessionBars(b, d) = << >>
      BY <2>1 DEF PrevSessionBars
    <3> QED BY <3>1
  <2>2. CASE days # {}
    <3>1. PrevSessionBars(b, d) = SessionBars(b, Max(days))
      BY <2>2 DEF PrevSessionBars
    <3> QED BY <1>1, <3>1
  <2> QED BY <2>1, <2>2
<1> QED BY <1>1, <1>2, <1>3

\* A product grows with its first factor, if the other one is not negative.
LEMMA ProductMonotone ==
    ASSUME NEW x \in Int, NEW y \in Int, NEW z \in Nat, x <= y
    PROVE  x * z <= y * z /\ x * z \in Int /\ y * z \in Int
<1>1. CASE z = 0
  BY <1>1
<1>2. CASE z # 0
  BY <1>2, ProductOrder
<1> QED BY <1>1, <1>2

----------------------------------------------------------------------------
\* Exits.

\* The last of some bars.
LEMMA LastBar ==
    ASSUME NEW b \in Seq(BarType), b # << >>
    PROVE  /\ Last(b) = b[Len(b)] /\ Len(b) \in 1 .. Len(b) /\ 1 \in 1 .. Len(b)
           /\ Last(b).close \in Prices /\ Last(b).day \in Nat /\ b[1].open \in Prices
<1>1. Len(b) \in 1 .. Len(b) /\ 1 \in 1 .. Len(b)
  OBVIOUS
<1> QED BY <1>1, BarFields DEF Last

\* Fractions that are more than nothing.
Positive == {f \in Fractions : f.num > 0}

LEMMA PositiveFrac ==
    ASSUME NEW x \in Int, x > 0, NEW y \in Nat \ {0}
    PROVE  Frac(x, y) \in Positive
BY DEF Frac, Fractions, Positive

\* A stop made of an average range is a distance, as long as the other one is.
LEMMA AtrStopType ==
    ASSUME NEW b \in Seq(BarType), b # << >>, NEW price \in Prices, NEW otherwise \in Positive
    PROVE  AtrStop(b, price, otherwise) \in Positive
<1> DEFINE a == Atr(b, Params.atrPeriod)
           m == Params.atrStopTenths
<1>1. a \in Averages /\ m \in Nat
  BY ParamsAssumption, AtrType
<1>2. AtrStop(b, price, otherwise) = IF m = 0 \/ a.num = 0 THEN otherwise
                                     ELSE Frac(m * a.num, 10 * a.den * price)
  BY DEF AtrStop
<1> HIDE DEF a, m
<1>3. a.num \in Nat /\ a.den \in Nat \ {0} /\ price \in Nat \ {0}
  BY <1>1 DEF Averages, Prices
<1>4. ASSUME m # 0, a.num # 0 PROVE Frac(m * a.num, 10 * a.den * price) \in Positive
  <2>1. m * a.num \in Int /\ m * a.num > 0
    <3>1. m \in Nat \ {0} /\ a.num \in Nat \ {0}
      BY <1>1, <1>3, <1>4
    <3> QED BY <3>1
  <2>2. a.den * price \in Nat \ {0} /\ 10 * a.den * price = 10 * (a.den * price)
    BY <1>3
  <2>3. 10 * a.den * price \in Nat \ {0}
    BY <2>2
  <2> QED BY <2>1, <2>3, PositiveFrac
<1> QED BY <1>2, <1>4

\* A breakout of the previous day is priced at a bar of the day.
LEMMA PrevDayPrice ==
    ASSUME NEW b \in Seq(BarType), PrevDayBreakout(b) # NoSignal
    PROVE  ReferencePrice("prevDay", b) \in Prices
<1> DEFINE today == SessionBars(b, Last(b).day)
<1>1. today \in Seq(BarType)
  BY SessionTypes
<1>2. today # << >>
  BY DEF PrevDayBreakout
<1>3. ReferencePrice("prevDay", b) = Last(today).close
  BY DEF ReferencePrice
<1> HIDE DEF today
<1> QED BY <1>1, <1>2, <1>3, LastBar

\* A breakout of the opening range closes beyond the side it has left, and the two
\* sides are as far apart as the filter wants: so far, and the buffer, is the stop
\* on the other side.
LEMMA BreakoutStop ==
    ASSUME NEW b \in Seq(BarType), OpeningRange(b) # NoSignal
    PROVE  /\ ReferencePrice("orb", b) \in Prices
           /\ RangeStop(b, OpeningRange(b)) \in Positive
           /\ Le(Frac(Params.minRange + Params.stopBuffer, 1000), RangeStop(b, OpeningRange(b)))
<1> DEFINE session == SessionBars(b, Last(b).day)
           range == OpeningBars(session)
           side == OpeningRange(b)
           low == Lowest(range)
           high == Highest(range)
           c == Last(session).close
           far == IF side = Buy THEN low ELSE high
           buffer == Params.stopBuffer
           least == Params.minRange
           x == Abs(c - far)
<1>1. session \in Seq(BarType) /\ range \in Seq(BarType)
  BY SessionTypes
<1>2. Params.openingBars \in Nat \ {0} /\ buffer \in Nat /\ least \in Nat
  BY ParamsAssumption
<1>3. /\ ~(Len(session) < Params.openingBars + 1) /\ ~(Len(range) < Params.openingBars)
      /\ c > 0 => 1000 * (high - low) >= least * c
      /\ (side = Buy /\ c > high) \/ (side = Sell /\ c < low)
  <2> DEFINE prev == session[Len(session) - 1]
             sum == Total(Volumes(range))
             wide == c > 0 => 1000 * (high - low) >= least * c
             busy == sum > 0 => 10 * Len(range) * Last(session).volume >= Params.volumeTenths * sum
  <2>1. side = IF Len(session) < Params.openingBars + 1 \/ Len(range) < Params.openingBars
               THEN NoSignal
               ELSE IF ~wide \/ ~busy THEN NoSignal
               ELSE IF c > high /\ prev.close <= high THEN Buy
               ELSE IF c < low /\ prev.close >= low THEN Sell
               ELSE NoSignal
    BY DEF OpeningRange
  <2>2. side # NoSignal
    OBVIOUS
  <2> HIDE DEF session, range, side, low, high, c, least, prev, sum, wide, busy
  <2>3. wide
    BY <2>1, <2>2
  <2> QED BY <2>1, <2>2, <2>3 DEF wide
<1>4. RangeStop(b, side) = Frac(1000 * x + buffer * c, 1000 * c) /\ ReferencePrice("orb", b) = c
  BY DEF RangeStop, ReferencePrice
<1> HIDE DEF range, session, side
<1>5. session # << >> /\ range # << >>
  BY <1>1, <1>2, <1>3
<1>6. low \in Int /\ high \in Int /\ c \in Prices
  BY <1>1, <1>5, HighestOf, LowestOf, LastBar DEF Prices
<1> HIDE DEF low, high, c, buffer, least
<1>7. c \in Nat \ {0} /\ least * c \in Nat /\ buffer * c \in Nat
  BY <1>2, <1>6 DEF Prices
<1>8. high - low >= 0 /\ 1000 * (high - low) >= least * c
  <2>1. 1000 * (high - low) >= least * c
    BY <1>3, <1>7
  <2> DEFINE p == least * c
  <2>2. p \in Nat /\ 1000 * (high - low) >= p
    BY <1>7, <2>1
  <2> HIDE DEF p
  <2>3. high - low >= 0
    BY <1>6, <2>2
  <2> QED BY <2>1, <2>3
<1>9. x \in Int /\ x > high - low
  <2>1. CASE side = Buy
    <3>1. far = low /\ c - low \in Int /\ c - low > high - low
      BY <1>3, <1>6, <1>7, <2>1 DEF Buy, Sell
    <3>2. x = Abs(c - low)
      BY <3>1
    <3> DEFINE y == c - low
    <3>3. y \in Int /\ y > high - low /\ x = Abs(y)
      BY <3>1, <3>2
    <3> HIDE DEF x, y
    <3>4. Abs(y) \in Nat /\ Abs(y) >= y
      BY <3>3, AbsType
    <3> QED BY <1>6, <3>3, <3>4
  <2>2. CASE side = Sell
    <3>1. far = high /\ c - high \in Int /\ -(c - high) > high - low
      BY <1>3, <1>6, <1>7, <2>2 DEF Buy, Sell
    <3>2. x = Abs(c - high)
      BY <3>1
    <3> DEFINE y == c - high
    <3>3. y \in Int /\ -y > high - low /\ x = Abs(y)
      BY <3>1, <3>2
    <3> HIDE DEF x, y
    <3>4. Abs(y) \in Nat /\ Abs(y) >= -y
      BY <3>3, AbsType
    <3> QED BY <1>6, <3>3, <3>4
  <2> QED BY <1>3, <2>1, <2>2
<1> HIDE DEF x
<1> DEFINE p == least * c
           q == buffer * c
<1>10. p \in Nat /\ q \in Nat /\ 1000 * x > p
  BY <1>6, <1>7, <1>8, <1>9
<1>11. (least + buffer) * (1000 * c) = 1000 * (p + q)
  BY <1>2, <1>7
<1> HIDE DEF p
<1>12. 1000 * x + q \in Int /\ 1000 * x + q > 0 /\ 1000 * c \in Nat \ {0}
  <2> HIDE DEF q
  <2> QED BY <1>7, <1>9, <1>10
<1>13. (least + buffer) * (1000 * c) <= (1000 * x + q) * 1000
  <2> HIDE DEF q
  <2>1. 1000 * (p + q) <= (1000 * x + q) * 1000
    BY <1>9, <1>10
  <2> QED BY <1>11, <2>1
<1>14. Le(Frac(least + buffer, 1000), Frac(1000 * x + q, 1000 * c))
  BY <1>13 DEF Le, Frac
<1>15. Frac(1000 * x + q, 1000 * c) \in Positive
  <2> HIDE DEF q
  <2> QED BY <1>12, PositiveFrac
<1> QED BY <1>4, <1>6, <1>14, <1>15 DEF side, least, buffer, x

\* What a session traded, and the squares of how far from the average, are natural
\* numbers.
LEMMA SessionVwapType ==
    ASSUME NEW b \in Seq(BarType), b # << >>
    PROVE  LET v == SessionVwap(b)
           IN  v.volume \in Nat /\ v.vwap \in Nat /\ v.excess \in Int /\ v.variance \in Nat
<1> DEFINE session == SessionBars(b, Last(b).day)
           volume == Total(Volumes(session))
           values == [i \in DOMAIN session |-> Typical(session[i]) * session[i].volume]
           vwap == Total(values)
           z(i) == Typical(session[i]) * volume - vwap
           squares == [i \in DOMAIN session |-> session[i].volume * (z(i) * z(i))]
           c == Last(b).close
           v == SessionVwap(b)
<1>1. session \in Seq(BarType) /\ c \in Nat \ {0}
  BY SessionTypes, LastBar DEF Prices
<1>2. /\ v.volume = volume /\ v.vwap = vwap /\ v.excess = 3 * volume * c - vwap
      /\ v.variance = Total(squares)
  BY DEF SessionVwap
<1> HIDE DEF session, c, v
<1>3. volume \in Nat
  <2>1. \A i \in 1 .. Len(session) : session[i].volume \in Nat
    BY <1>1, BarFields
  <2>2. Volumes(session) \in Seq(Nat)
    BY <1>1, <2>1 DEF Volumes
  <2> QED BY <2>2, TotalOfNaturals
<1>4. ASSUME NEW i \in 1 .. Len(session)
      PROVE  Typical(session[i]) \in Nat /\ session[i].volume \in Nat
  <2> DEFINE x == session[i].high  y == session[i].low  w == session[i].close
  <2>1. x \in Nat /\ y \in Nat /\ w \in Nat /\ session[i].volume \in Nat
    BY <1>1, BarFields DEF Prices
  <2>2. Typical(session[i]) = x + y + w
    BY DEF Typical
  <2> HIDE DEF x, y, w
  <2>3. x + y + w \in Nat
    BY <2>1
  <2> QED BY <2>1, <2>2, <2>3
<1>5. vwap \in Nat
  <2>1. \A i \in 1 .. Len(session) : Typical(session[i]) * session[i].volume \in Nat
    BY <1>4
  <2>2. values \in Seq(Nat)
    BY <1>1, <2>1
  <2> HIDE DEF values
  <2> QED BY <2>2, TotalOfNaturals
<1> HIDE DEF volume, vwap
<1>6. Total(squares) \in Nat
  <2>1. ASSUME NEW i \in 1 .. Len(session) PROVE session[i].volume * (z(i) * z(i)) \in Nat
    <3>1. z(i) \in Int /\ session[i].volume \in Nat
      BY <1>3, <1>4, <1>5
    <3>2. z(i) * z(i) \in Nat
      <4> DEFINE y == z(i)
      <4>1. y \in Int
        BY <3>1
      <4> HIDE DEF y
      <4>2. y * y \in Nat
        BY <4>1
      <4> QED BY <4>2 DEF y
    <3> DEFINE s == z(i) * z(i)
    <3> HIDE DEF s
    <3>3. session[i].volume * s \in Nat
      BY <3>1, <3>2 DEF s
    <3> QED BY <3>3 DEF s
  <2>2. squares \in Seq(Nat)
    <3> HIDE DEF z
    <3> QED BY <1>1, <2>1
  <2> HIDE DEF squares
  <2> QED BY <2>2, TotalOfNaturals
<1>7. 3 * volume * c - vwap \in Int
  BY <1>1, <1>3, <1>5
<1> HIDE DEF squares
<1> QED BY <1>2, <1>3, <1>5, <1>6, <1>7 DEF v

\* A close that deviates by more than what is allowed leaves something to take.
LEMMA VwapTakeType ==
    ASSUME NEW b \in Seq(BarType), b # << >>, Vwap(b) # NoSignal
    PROVE  VwapTake(b) \in Positive
<1> DEFINE v == SessionVwap(b)
           x == Abs(v.excess)
           d == Params.deviation
<1>1. v.vwap \in Nat /\ v.excess \in Int /\ d \in Nat
  BY SessionVwapType, ParamsAssumption
<1>2. v.vwap # 0 /\ 1000 * x > d * v.vwap
  BY DEF Vwap, Reverting
<1>3. VwapTake(b) = Frac(1000 * x - d * v.vwap, 1000 * v.vwap)
  BY DEF VwapTake
<1>4. x \in Nat
  BY <1>1, AbsType
<1> HIDE DEF v, x, d
<1> DEFINE p == d * v.vwap
<1>5. p \in Int
  BY <1>1
<1>6. 1000 * x > p /\ 1000 * v.vwap \in Nat \ {0}
  BY <1>1, <1>2
<1> HIDE DEF p
<1>7. 1000 * x - p \in Int /\ 1000 * x - p > 0
  BY <1>4, <1>5, <1>6
<1>8. Frac(1000 * x - p, 1000 * v.vwap) \in Positive
  BY <1>6, <1>7, PositiveFrac
<1> QED BY <1>3, <1>8 DEF p

\* A close beyond a band leaves something to take until the band, and the other
\* band is further away.
LEMMA BandExitsType ==
    ASSUME NEW b \in Seq(BarType), b # << >>, VwapBands(b) # NoSignal
    PROVE  BandExits(b).stop \in Positive /\ BandExits(b).take \in Positive
<1> DEFINE v == SessionVwap(b)
           e == v.excess
           x == Abs(e)
           m == Params.stdMult
           n == v.volume
           d == Deviation(v)
           c == Last(b).close
<1>1. n \in Nat /\ v.vwap \in Nat /\ e \in Int /\ v.variance \in Nat /\ m \in Nat /\ c \in Nat \ {0}
  BY SessionVwapType, ParamsAssumption, LastBar DEF Prices
<1>2. n # 0 /\ v.vwap # 0 /\ e * e * n > m * m * v.variance
  BY DEF VwapBands, Reverting
<1>3. /\ BandExits(b).stop = Frac(x + m * d, 3 * n * c)
      /\ BandExits(b).take = Frac(x - m * d, v.vwap)
  BY DEF BandExits
<1>4. x \in Nat /\ (x = e \/ x = -e)
  BY <1>1, AbsType DEF Abs
<1>5. d \in 0 .. x /\ d * d * n <= v.variance
  <2> DEFINE S == {r \in 0 .. x : r * r * n <= v.variance}
  <2>1. d = Max(S)
    BY DEF Deviation
  <2> HIDE DEF x, n, v, d
  <2>2. 0 \in S /\ S \subseteq 0 .. x
    BY <1>1, <1>4
  <2> HIDE DEF S
  <2>3. Max(S) \in S
    <3> DEFINE below == {x - r : r \in S}
    <3>1. below \in SUBSET Nat /\ x \in below
      BY <1>4, <2>2
    <3>2. PICK l \in below : \A y \in below : l <= y
      <4> HIDE DEF below
      <4> QED BY <3>1, LeastOf
    <3>3. PICK r \in S : l = x - r
      BY <3>2
    <3>4. ASSUME NEW y \in S PROVE r >= y
      <4>1. x - y \in below
        OBVIOUS
      <4> HIDE DEF below
      <4>2. x - r <= x - y
        BY <3>2, <3>3, <4>1
      <4>3. r \in Int /\ y \in Int /\ x \in Int
        BY <1>4, <2>2
      <4> QED BY <4>2, <4>3
    <3> QED BY <3>3, <3>4, Zenon DEF Max
  <2> QED BY <2>1, <2>3 DEF S
<1> DEFINE w == v.variance
           band == m * d
<1>6. d \in Nat /\ w \in Nat
  BY <1>1, <1>4, <1>5
<1> HIDE DEF v, e, x, m, n, d, c, w
<1>7. band \in Nat /\ band < x
  <2>1. band \in Nat
    BY <1>1, <1>6
  <2>2. ASSUME x <= band PROVE FALSE
    <3>1. x * x <= band * band
      <4> HIDE DEF band
      <4>1. x * x <= band * x
        BY <1>4, <2>1, <2>2, ProductMonotone
      <4>2. x * band <= band * band
        BY <1>4, <2>1, <2>2, ProductMonotone
      <4>3. x * band = band * x /\ x * band \in Int /\ x * x \in Int /\ band * band \in Int
        BY <1>4, <2>1
      <4> QED BY <4>1, <4>2, <4>3
    <3>2. (x * x) * n <= (band * band) * n
      <4>1. x * x \in Int /\ band * band \in Int
        BY <1>4, <2>1
      <4> HIDE DEF band
      <4> QED BY <1>1, <3>1, <4>1, ProductMonotone
    <3>3. (band * band) * n = (d * d * n) * (m * m)
      BY <1>1, <1>6
    <3>4. (d * d * n) * (m * m) <= w * (m * m)
      <4>1. d * d * n \in Int /\ m * m \in Nat
        BY <1>1, <1>6
      <4> QED BY <1>5, <1>6, <4>1, ProductMonotone DEF w
    <3>5. w * (m * m) < (x * x) * n
      <4>1. e * e = x * x
        <5>1. CASE x = e
          BY <5>1
        <5>2. CASE x = -e
          BY <1>1, <5>2
        <5> QED BY <1>4, <5>1, <5>2
      <4>2. m * m * w = w * (m * m)
        BY <1>1, <1>6
      <4>3. m * m * w < e * e * n
        <5>1. m * m * w \in Int /\ e * e * n \in Int
          BY <1>1, <1>6
        <5> QED BY <1>2, <5>1 DEF w
      <4> QED BY <4>1, <4>2, <4>3
    <3>6. /\ (x * x) * n \in Int /\ (band * band) * n \in Int /\ w * (m * m) \in Int
          /\ (d * d * n) * (m * m) \in Int
      <4>1. x * x \in Int /\ band * band \in Int /\ m * m \in Int /\ d * d * n \in Int
        BY <1>1, <1>4, <1>6, <2>1
      <4> HIDE DEF band
      <4> QED BY <1>1, <1>6, <4>1
    <3> DEFINE a1 == (x * x) * n
               a2 == (band * band) * n
               a3 == (d * d * n) * (m * m)
               a4 == w * (m * m)
    <3>7. /\ a1 \in Int /\ a2 \in Int /\ a3 \in Int /\ a4 \in Int
          /\ a1 <= a2 /\ a2 = a3 /\ a3 <= a4 /\ a4 < a1
      BY <3>2, <3>3, <3>4, <3>5, <3>6
    <3> HIDE DEF a1, a2, a3, a4
    <3> QED BY ONLY <3>7
  <2> HIDE DEF band
  <2> QED BY <1>4, <2>1, <2>2
<1> HIDE DEF band
<1>8. 3 * n * c \in Nat \ {0}
  <2>1. n * c \in Nat \ {0} /\ 3 * n * c = 3 * (n * c)
    BY <1>1, <1>2
  <2> QED BY <2>1
<1>9. x + band \in Int /\ x + band > 0 /\ x - band \in Int /\ x - band > 0
  BY <1>4, <1>7
<1>10. Frac(x + band, 3 * n * c) \in Positive /\ Frac(x - band, v.vwap) \in Positive
  BY <1>1, <1>2, <1>8, <1>9, PositiveFrac
<1> QED BY <1>3, <1>10 DEF band

\* A gap that is wide enough leaves something to take.
LEMMA GapTakeType ==
    ASSUME NEW b \in Seq(BarType), GapFill(b) # NoSignal
    PROVE  GapTake(b) \in Positive /\ ReferencePrice("gap", b) \in Prices
<1> DEFINE today == SessionBars(b, Last(b).day)
           before == PrevSessionBars(b, Last(b).day)
           c == Last(before).close
           o == today[1].open
           m == Params.minGap
           x == Abs(o - c)
<1>1. today \in Seq(BarType) /\ before \in Seq(BarType) /\ m \in Nat
  BY SessionTypes, ParamsAssumption
<1>2. Len(today) = 1 /\ before # << >> /\ ~(1000 * x <= m * c)
  BY DEF GapFill
<1>3. GapTake(b) = Frac(1000 * x - m * c, 1000 * c) /\ ReferencePrice("gap", b) = o
  BY DEF GapTake, ReferencePrice
<1> HIDE DEF today, before, m
<1>5. today # << >>
  <2>1. Len(<< >>) = 0 /\ 0 # 1
    OBVIOUS
  <2> QED BY <1>2, <2>1, Zenon
<1>6. o \in Prices /\ c \in Prices
  BY <1>1, <1>2, <1>5, LastBar
<1> HIDE DEF o, c
<1>7. x \in Nat
  <2>1. o - c \in Int
    BY <1>6 DEF Prices
  <2> QED BY <2>1, AbsType
<1> HIDE DEF x
<1> DEFINE p == m * c
<1>8. p \in Int /\ ~(1000 * x <= p) /\ 1000 * c \in Nat \ {0}
  BY <1>1, <1>2, <1>6 DEF Prices
<1> HIDE DEF p
<1>9. 1000 * x - p \in Int /\ 1000 * x - p > 0
  BY <1>7, <1>8
<1>10. Frac(1000 * x - p, 1000 * c) \in Positive
  BY <1>8, <1>9, PositiveFrac
<1> QED BY <1>3, <1>6, <1>10 DEF p

----------------------------------------------------------------------------
\* Supertrend.

\* A band of this width is at least as wide as one of two true ranges that are
\* part of the average it is made of.
LEMMA WideBand ==
    ASSUME NEW p \in Nat \ {0}, NEW t \in Nat, NEW total \in Nat, NEW R \in Nat, NEW v \in Nat,
           R <= total, 2 * t * (2 * p - 1) >= 10 * p * p
    PROVE  LET offset == 2 * t * (total * (p - 1) + v * p)
           IN  10 * (p * p) * R <= offset \/ 10 * (p * p) * v <= offset
<1> DEFINE num == total * (p - 1) + v * p
           w == 2 * t
           q == 2 * p - 1
           pp == 10 * (p * p)
<1>1. p - 1 \in Nat /\ p \in Nat /\ w \in Nat /\ q \in Nat /\ pp \in Nat
  OBVIOUS
<1>2. w * q >= pp /\ w * q \in Nat
  OBVIOUS
<1>3. R * (p - 1) <= total * (p - 1)
  BY <1>1, ProductMonotone
<1>4. ASSUME NEW m \in Nat, m <= R, m <= v PROVE pp * m <= w * num
  <2>1. m * (p - 1) <= R * (p - 1) /\ m * p <= v * p
    BY <1>1, <1>4, ProductMonotone
  <2>2. m * (p - 1) + m * p <= num /\ num \in Nat
    <3> DEFINE a == m * (p - 1)  b == R * (p - 1)  c == total * (p - 1)  d == m * p  e == v * p
    <3>1. a \in Int /\ b \in Int /\ c \in Nat /\ d \in Int /\ e \in Nat
      BY <1>1
    <3>2. a <= b /\ b <= c /\ d <= e
      BY <1>3, <2>1
    <3> HIDE DEF a, b, c, d, e
    <3>3. a + d <= c + e /\ c + e \in Nat
      BY ONLY <3>1, <3>2
    <3> QED BY <3>3 DEF a, c, d, e
  <2>3. m * (p - 1) + m * p = q * m
    BY <1>1
  <2> HIDE DEF num, w, q, pp
  <2>4. q * m \in Int /\ q * m <= num
    BY <1>1, <2>2, <2>3
  <2>5. (q * m) * w <= num * w
    BY <1>1, <2>2, <2>4, ProductMonotone
  <2>6. pp * m <= (w * q) * m
    BY <1>1, <1>2, ProductMonotone
  <2>7. (w * q) * m = (q * m) * w /\ num * w = w * num
    BY <1>1, <2>2
  <2>8. pp * m \in Int /\ (q * m) * w \in Int /\ w * num \in Int
    BY <1>1, <2>2, <2>4
  <2> QED BY <2>5, <2>6, <2>7, <2>8
<1>5. CASE R <= v
  BY <1>4, <1>5
<1>6. CASE v <= R
  BY <1>4, <1>6
<1> QED BY <1>5, <1>6

\* A close inside its bar leaves a band by less than a true range: that of the
\* bar, or of the bar after it when it goes over to the other side of the band.
LEMMA LeavesBand ==
    ASSUME NEW D \in Nat, NEW o \in Int, NEW R \in Nat, NEW v \in Nat,
           NEW h1 \in Nat, NEW l1 \in Nat, NEW c1 \in Nat,
           NEW h2 \in Nat, NEW l2 \in Nat, NEW c2 \in Nat,
           l1 <= c1, c1 <= h1, l2 <= c2, c2 <= h2,
           h1 - l1 <= R, h2 - l2 <= v, h2 - c1 <= v, c1 - l2 <= v
    PROVE  /\ /\ 20 * c1 * D > 10 * (h1 + l1) * D + o
              /\ \/ 20 * c2 * D < 10 * (h2 + l2) * D - o
                 \/ 20 * c2 * D < 10 * (h1 + l1) * D - o
              => o < 10 * D * R /\ o < 10 * D * v
           /\ /\ 20 * c1 * D < 10 * (h1 + l1) * D - o
              /\ \/ 20 * c2 * D > 10 * (h2 + l2) * D + o
                 \/ 20 * c2 * D > 10 * (h1 + l1) * D + o
              => o < 10 * D * R /\ o < 10 * D * v
<1> DEFINE a1 == h1 * D  b1 == l1 * D  e1 == c1 * D
           a2 == h2 * D  b2 == l2 * D  e2 == c2 * D  r == R * D  u == v * D
<1>1. /\ a1 \in Int /\ b1 \in Int /\ e1 \in Int /\ a2 \in Int /\ b2 \in Int /\ e2 \in Int
      /\ r \in Int /\ u \in Int
  OBVIOUS
<1>2. b1 <= e1 /\ e1 <= a1 /\ b2 <= e2 /\ e2 <= a2
  BY ProductMonotone
<1>3. a1 - b1 <= r /\ a2 - b2 <= u /\ a2 - e1 <= u /\ e1 - b2 <= u
  <2>1. h1 - l1 \in Int /\ h2 - l2 \in Int /\ h2 - c1 \in Int /\ c1 - l2 \in Int
    OBVIOUS
  <2>2. (h1 - l1) * D <= r /\ (h2 - l2) * D <= u /\ (h2 - c1) * D <= u /\ (c1 - l2) * D <= u
    BY <2>1, ProductMonotone
  <2>3. /\ (h1 - l1) * D = a1 - b1 /\ (h2 - l2) * D = a2 - b2
        /\ (h2 - c1) * D = a2 - e1 /\ (c1 - l2) * D = e1 - b2
    OBVIOUS
  <2> QED BY <2>2, <2>3
<1>4. /\ 20 * c1 * D = 20 * e1 /\ 20 * c2 * D = 20 * e2
      /\ 10 * (h1 + l1) * D = 10 * a1 + 10 * b1
      /\ 10 * (h2 + l2) * D = 10 * a2 + 10 * b2
      /\ 10 * D * R = 10 * r /\ 10 * D * v = 10 * u
  OBVIOUS
<1> HIDE DEF a1, b1, e1, a2, b2, e2, r, u
<1>5. /\ /\ 20 * e1 > 10 * a1 + 10 * b1 + o
         /\ \/ 20 * e2 < 10 * a2 + 10 * b2 - o
            \/ 20 * e2 < 10 * a1 + 10 * b1 - o
         => o < 10 * r /\ o < 10 * u
      /\ /\ 20 * e1 < 10 * a1 + 10 * b1 - o
         /\ \/ 20 * e2 > 10 * a2 + 10 * b2 + o
            \/ 20 * e2 > 10 * a1 + 10 * b1 + o
         => o < 10 * r /\ o < 10 * u
  <2>1. o \in Int
    OBVIOUS
  <2> QED BY ONLY <1>1, <1>2, <1>3, <2>1
<1> QED BY <1>4, <1>5

\* The smaller of two integers is one of them.
LEMMA MinOfTwo == ASSUME NEW a \in Int, NEW b \in Int PROVE Min({a, b}) \in {a, b}
<1>1. \E x \in {a, b} : \A y \in {a, b} : x <= y
  OBVIOUS
<1> QED BY <1>1 DEF Min

\* The average over the bars of Supertrend, all but the last of which make the
\* mean it starts with.
LEMMA AtrOfBands ==
    ASSUME NEW w \in Seq(BarType), NEW p \in Nat \ {0}, Len(w) = p + 2
    PROVE  \E total \in Nat :
             /\ TrueRange(w[p + 1], w[p].close) <= total
             /\ Atr(w, p) = Frac(total * (p - 1) + TrueRange(w[p + 2], w[p + 1].close) * p, p * p)
<1> DEFINE v == TrueRanges(w)
           first == SubSeq(v, 1, p)
           rest == SubSeq(v, p + 1, Len(v))
           total == Total(first)
           last == TrueRange(w[p + 2], w[p + 1].close)
<1>1. w # << >> /\ Len(w) - 1 = p + 1
  OBVIOUS
<1>2. /\ v \in Seq(Nat) /\ Len(v) = p + 1
      /\ \A i \in 1 .. p + 1 : v[i] = TrueRange(w[i + 1], w[i].close)
  BY <1>1, TrueRangesType
<1> HIDE DEF v
<1>3. /\ first \in Seq(Nat) /\ Len(first) = p /\ \A i \in 1 .. p : first[i] = v[i]
      /\ rest \in Seq(Nat) /\ Len(rest) = p + 1 - p
      /\ \A i \in 1 .. p + 1 - p : rest[i] = v[p + i]
  BY <1>2, WilderParts
<1> HIDE DEF first, rest
<1>4. /\ first \in Seq(Nat) /\ Len(first) = p /\ \A i \in 1 .. p : first[i] = v[i]
      /\ rest \in Seq(Nat) /\ Len(rest) = 1 /\ rest[1] = v[p + 1]
  <2>1. p + 1 - p = 1
    OBVIOUS
  <2> QED BY <1>3, <2>1
<1>5. total \in Nat /\ first[p] <= total
  BY <1>4, TotalOfNaturals
<1>6. v[p] = TrueRange(w[p + 1], w[p].close) /\ v[p + 1] = last
  <2>1. p \in 1 .. p + 1 /\ p + 1 \in 1 .. p + 1 /\ p + 1 + 1 = p + 2
    OBVIOUS
  <2> QED BY <1>2, <2>1
<1>7. first[p] = v[p]
  BY <1>4
<1>8. Wilder(v, p) = Smoothed(Frac(total, p), last, p)
  <2>1. PICK run \in [0 .. Len(rest) -> Averages] :
            /\ run[0] = Frac(total, p)
            /\ \A k \in 1 .. Len(rest) : run[k] = Smoothed(run[k - 1], rest[k], p)
            /\ Wilder(v, p) = run[Len(rest)]
    BY <1>2, <1>4, <1>5, WilderRun DEF first, rest
  <2>2. run[1] = Smoothed(run[1 - 1], rest[1], p) /\ 1 - 1 = 0
    BY <1>4, <2>1
  <2> QED BY <1>4, <1>6, <2>1, <2>2
<1>9. Smoothed(Frac(total, p), last, p) = Frac(total * (p - 1) + last * p, p * p)
  BY DEF Smoothed, Frac
<1>10. Atr(w, p) = Wilder(v, p)
  <2>1. ~(Len(w) < p + 1)
    BY <1>1
  <2> QED BY <2>1 DEF Atr, v
<1>11. TrueRange(w[p + 1], w[p].close) <= total
  BY <1>5, <1>6, <1>7
<1>12. Atr(w, p) = Frac(total * (p - 1) + last * p, p * p)
  BY <1>8, <1>9, <1>10
<1> HIDE DEF total
<1> QED BY <1>5, <1>11, <1>12

\* Supertrend does not signal when its bands are as wide as this.
LEMMA SupertrendIsSilent ==
    ASSUME NEW b \in Seq(BarType), ClosesInRange(b), NEW p \in Nat \ {0}, p + 2 <= Len(b),
           NEW t \in Nat, 2 * t * (2 * p - 1) >= 10 * p * p
    PROVE  Supertrend(b, p, t) = NoSignal
<1> DEFINE window == LastN(b, p + 2)
           atr == Atr(window, p)
           offset == BandOffset(atr, t)
           Upper(x) == 10 * (x.high + x.low) * atr.den + offset
           Lower(x) == 10 * (x.high + x.low) * atr.den - offset
           At(x) == 20 * x.close * atr.den
           prev == window[p + 1]
           curr == window[p + 2]
           upper == IF At(prev) <= Upper(prev) THEN Min({Upper(curr), Upper(prev)}) ELSE Upper(curr)
           lower == IF At(prev) >= Lower(prev) THEN Max({Lower(curr), Lower(prev)}) ELSE Lower(curr)
           dirPrev == IF At(prev) > Upper(prev) THEN Buy
                      ELSE IF At(prev) < Lower(prev) THEN Sell ELSE NoSignal
           dirCurr == IF At(curr) > upper THEN Buy
                      ELSE IF At(curr) < lower THEN Sell ELSE dirPrev
           R == TrueRange(prev, window[p].close)
           v == TrueRange(curr, prev.close)
<1>1. Supertrend(b, p, t) = IF atr.num = 0 \/ dirPrev = NoSignal \/ dirCurr = dirPrev
                            THEN NoSignal ELSE dirCurr
  BY Zenon DEF Supertrend
<1>2. /\ window \in Seq(BarType) /\ Len(window) = p + 2
      /\ \A i \in 1 .. p + 2 : window[i] = b[Len(b) - (p + 2) + i]
  <2>1. p + 2 \in 1 .. Len(b)
    OBVIOUS
  <2> HIDE DEF window
  <2> QED BY <2>1, LastNElements DEF window
<1>3. ASSUME NEW i \in 1 .. p + 2
      PROVE  /\ window[i] \in BarType
             /\ window[i].low <= window[i].close /\ window[i].close <= window[i].high
  <2>1. Len(b) - (p + 2) + i \in 1 .. Len(b)
    OBVIOUS
  <2>2. window[i] = b[Len(b) - (p + 2) + i]
    BY <1>2
  <2> HIDE DEF window
  <2>3. window[i] \in BarType
    BY <1>2
  <2>4. window[i].low <= window[i].close /\ window[i].close <= window[i].high
    BY <2>1, <2>2 DEF ClosesInRange
  <2> QED BY <2>3, <2>4
<1> HIDE DEF window
<1>4. PICK total \in Nat : R <= total /\ atr = Frac(total * (p - 1) + v * p, p * p)
  BY <1>2, AtrOfBands
<1>5. /\ prev \in BarType /\ prev.low <= prev.close /\ prev.close <= prev.high
      /\ curr \in BarType /\ curr.low <= curr.close /\ curr.close <= curr.high
      /\ window[p].close \in Int /\ prev.close \in Int
  <2>1. p \in 1 .. p + 2 /\ p + 1 \in 1 .. p + 2 /\ p + 2 \in 1 .. p + 2
    OBVIOUS
  <2>2. window[p] \in BarType
    BY <1>3, <2>1
  <2>3. /\ prev \in BarType /\ prev.low <= prev.close /\ prev.close <= prev.high
        /\ curr \in BarType /\ curr.low <= curr.close /\ curr.close <= curr.high
    BY <1>3, <2>1
  <2>4. \A x \in BarType : x.close \in Int
    BY DEF BarType, Prices
  <2> HIDE DEF prev, curr
  <2>5. window[p].close \in Int /\ prev.close \in Int
    BY <2>2, <2>3, <2>4
  <2> QED BY <2>3, <2>5
<1> HIDE DEF prev, curr, atr
<1> DEFINE h1 == prev.high  l1 == prev.low  c1 == prev.close
           h2 == curr.high  l2 == curr.low  c2 == curr.close
           D == p * p
<1>6. /\ h1 \in Nat /\ l1 \in Nat /\ c1 \in Nat /\ h2 \in Nat /\ l2 \in Nat /\ c2 \in Nat
  BY <1>5 DEF BarType, Prices
<1>7. R \in Nat /\ h1 - l1 <= R
  BY <1>5, TrueRangeType
<1>8. v \in Nat /\ h2 - l2 <= v /\ h2 - c1 <= v /\ c1 - l2 <= v
  <2> DEFINE x == h2 - c1  y == l2 - c1
  <2>1. v \in Nat /\ v >= h2 - l2 /\ v >= Abs(x) /\ v >= Abs(y)
    BY <1>5, TrueRangeType
  <2> HIDE DEF v, h2, l2, c1
  <2>2. x \in Int /\ y \in Int /\ -y = c1 - l2
    BY <1>6
  <2> HIDE DEF x, y
  <2>3. Abs(x) >= x /\ Abs(y) >= -y /\ Abs(x) \in Nat /\ Abs(y) \in Nat
    BY <2>2, AbsType
  <2>4. x <= v /\ -y <= v
    BY <2>1, <2>2, <2>3
  <2> QED BY <1>6, <2>1, <2>2, <2>4 DEF x
<1> HIDE DEF R, v
<1>9. atr.den = D /\ D \in Nat /\ offset = 2 * t * (total * (p - 1) + v * p)
  BY <1>4 DEF Frac, BandOffset
<1> HIDE DEF offset
<1>10. offset \in Int
  <2>1. total * (p - 1) + v * p \in Int
    BY <1>4, <1>8
  <2> DEFINE num == total * (p - 1) + v * p
  <2> HIDE DEF num
  <2>2. 2 * t * num \in Int
    BY <2>1 DEF num
  <2> QED BY <1>9, <2>2 DEF num
<1>11. 10 * D * R <= offset \/ 10 * D * v <= offset
  BY <1>4, <1>7, <1>8, <1>9, WideBand
<1>12. /\ Upper(prev) = 10 * (h1 + l1) * D + offset
       /\ Lower(prev) = 10 * (h1 + l1) * D - offset
       /\ Upper(curr) = 10 * (h2 + l2) * D + offset
       /\ Lower(curr) = 10 * (h2 + l2) * D - offset
       /\ At(prev) = 20 * c1 * D /\ At(curr) = 20 * c2 * D
  BY <1>9
<1>13. /\ l1 <= c1 /\ c1 <= h1 /\ l2 <= c2 /\ c2 <= h2
  BY <1>5
<1> HIDE DEF h1, l1, c1, h2, l2, c2, D
<1>14. /\ 10 * (h1 + l1) * D \in Int /\ 10 * (h2 + l2) * D \in Int
       /\ 20 * c1 * D \in Int /\ 20 * c2 * D \in Int /\ 10 * D * R \in Int /\ 10 * D * v \in Int
  BY <1>6, <1>7, <1>8, <1>9
<1> DEFINE up == Upper(prev)  lo == Lower(prev)  up2 == Upper(curr)  lo2 == Lower(curr)
           at == At(prev)  at2 == At(curr)
<1>15. /\ up \in Int /\ lo \in Int /\ up2 \in Int /\ lo2 \in Int /\ at \in Int /\ at2 \in Int
  BY <1>10, <1>12, <1>14
<1>16. /\ at > up /\ (at2 < lo2 \/ at2 < lo) => offset < 10 * D * R /\ offset < 10 * D * v
       /\ at < lo /\ (at2 > up2 \/ at2 > up) => offset < 10 * D * R /\ offset < 10 * D * v
  <2>1. /\ /\ 20 * c1 * D > 10 * (h1 + l1) * D + offset
           /\ \/ 20 * c2 * D < 10 * (h2 + l2) * D - offset
              \/ 20 * c2 * D < 10 * (h1 + l1) * D - offset
           => offset < 10 * D * R /\ offset < 10 * D * v
        /\ /\ 20 * c1 * D < 10 * (h1 + l1) * D - offset
           /\ \/ 20 * c2 * D > 10 * (h2 + l2) * D + offset
              \/ 20 * c2 * D > 10 * (h1 + l1) * D + offset
           => offset < 10 * D * R /\ offset < 10 * D * v
    <3> HIDE DEF Upper, Lower, At, upper, lower, dirPrev, dirCurr
    <3> QED BY <1>6, <1>7, <1>8, <1>9, <1>10, <1>13, LeavesBand
  <2> HIDE DEF Upper, Lower, At
  <2> QED BY <1>12, <2>1
<1>17. ~(offset < 10 * D * R /\ offset < 10 * D * v)
  BY <1>10, <1>11, <1>14
<1>18. ~(at > up /\ (at2 < lo2 \/ at2 < lo)) /\ ~(at < lo /\ (at2 > up2 \/ at2 > up))
  BY <1>16, <1>17
<1> HIDE DEF Upper, Lower, At
<1>19. upper \in {up, up2} /\ lower \in {lo, lo2}
  BY <1>15, MinOfTwo, MaxOfTwo
<1> HIDE DEF up, lo, up2, lo2, at, at2, upper, lower
<1>20. /\ dirPrev = (IF at > up THEN Buy ELSE IF at < lo THEN Sell ELSE NoSignal)
       /\ dirCurr = (IF at2 > upper THEN Buy ELSE IF at2 < lower THEN Sell ELSE dirPrev)
  BY DEF at, up, lo, at2
<1> HIDE DEF dirPrev, dirCurr
<1>21. Buy # Sell /\ Buy # NoSignal /\ Sell # NoSignal
  BY DEF Buy, Sell, NoSignal
<1>22. dirPrev = NoSignal \/ dirCurr = dirPrev
  <2>1. CASE at > up
    <3>1. ~(at2 < lower)
      BY <1>18, <1>19, <2>1
    <3> QED BY <1>20, <2>1, <3>1
  <2>2. CASE ~(at > up) /\ at < lo
    <3>1. ~(at2 > upper)
      BY <1>18, <1>19, <2>2
    <3> QED BY <1>20, <2>2, <3>1
  <2>3. CASE ~(at > up) /\ ~(at < lo)
    BY <1>20, <2>3
  <2> QED BY <2>1, <2>2, <2>3
<1> QED BY <1>1, <1>22

----------------------------------------------------------------------------
\* Sessions of the exchange in a window.

\* As many bars are kept as there are only if all are.
LEMMA KeptLength ==
    ASSUME NEW b \in Seq(BarType), NEW W
    PROVE  /\ Len(Kept(b, W)) \in Nat /\ Len(Kept(b, W)) <= Len(b)
           /\ Len(Kept(b, W)) = Len(b) =>
                Kept(b, W) = b /\ \A i \in 1 .. Len(b) : b[i] \in W
           /\ b # << >> /\ b[Len(b)] \notin W /\ Len(Kept(b, W)) >= Len(b) - 1 =>
                \A i \in 1 .. Len(b) - 1 : b[i] \in W
           /\ b # << >> /\ b[Len(b)] \in W =>
                Kept(b, W) # << >> /\ Last(Kept(b, W)) = b[Len(b)]
<1> DEFINE n == Len(b)
<1>0. n \in Nat /\ \A i \in 1 .. n : b[i] \in BarType
  OBVIOUS
<1>1. PICK run \in [0 .. n -> Seq(BarType)] :
            /\ run[0] = << >>
            /\ \A k \in 1 .. n : run[k] = IF b[k] \in W THEN Append(run[k - 1], b[k]) ELSE run[k - 1]
            /\ Kept(b, W) = run[n]
  BY KeptRun
<1>b. b \in Seq(BarType) /\ n = Len(b) /\ (b # << >> => n # 0)
  OBVIOUS
<1> HIDE DEF n
<1> DEFINE All(k) == Len(run[k]) = k /\ (\A i \in 1 .. k : run[k][i] = b[i] /\ b[i] \in W)
           P == {k \in 0 .. n : Len(run[k]) < k \/ All(k)}
<1>2. 0 \in P
  <2>1. Len(run[0]) = 0 /\ 0 \in 0 .. n /\ 1 .. 0 = {}
    BY <1>0, <1>1
  <2>2. All(0)
    BY <2>1
  <2> HIDE DEF All
  <2> QED BY <2>1, <2>2
<1>3. ASSUME NEW k \in 1 .. n, k - 1 \in P PROVE k \in P
  <2>1. /\ run[k - 1] \in Seq(BarType) /\ Len(run[k - 1]) \in Nat /\ b[k] \in BarType
        /\ k \in 0 .. n /\ k - 1 \in 0 .. n /\ k \in Nat /\ k - 1 \in Nat
    BY <1>0, <1>1
  <2>2. CASE b[k] \notin W
    <3>1. run[k] = run[k - 1]
      BY <1>1, <2>2
    <3>2. Len(run[k]) < k
      BY <1>3, <2>1, <3>1
    <3> QED BY <2>1, <3>2
  <2>3. CASE b[k] \in W
    <3>1. run[k] = Append(run[k - 1], b[k])
      BY <1>1, <2>3
    <3>2. /\ Len(run[k]) = Len(run[k - 1]) + 1
          /\ \A i \in 1 .. Len(run[k - 1]) : run[k][i] = run[k - 1][i]
          /\ run[k][Len(run[k - 1]) + 1] = b[k]
      BY <2>1, <3>1
    <3>3. CASE Len(run[k - 1]) < k - 1
      <4>1. Len(run[k]) < k
        BY <2>1, <3>2, <3>3
      <4> QED BY <2>1, <4>1
    <3>4. CASE All(k - 1)
      <4>1. Len(run[k]) = k
        BY <2>1, <3>2, <3>4
      <4>2. ASSUME NEW i \in 1 .. k PROVE run[k][i] = b[i] /\ b[i] \in W
        <5>1. CASE i = k
          BY <2>1, <2>3, <3>2, <3>4, <5>1
        <5>2. CASE i # k
          <6>1. i \in 1 .. k - 1
            BY <2>1, <5>2
          <6> QED BY <3>2, <3>4, <6>1
        <5> QED BY <5>1, <5>2
      <4> QED BY <2>1, <4>1, <4>2
    <3> QED BY <1>3, <3>3, <3>4
  <2> QED BY <2>2, <2>3
<1>4. \A k \in 0 .. n : k \in P
  <2> HIDE DEF P
  <2> QED BY <1>0, <1>2, <1>3, AllUpTo
<1> DEFINE s == run[n]
<1>5. s \in Seq(BarType) /\ Len(s) \in Nat /\ (Len(s) < n \/ All(n))
  <2>1. n \in 0 .. n
    BY <1>0
  <2>2. n \in P
    <3> HIDE DEF P
    <3> QED BY <1>4, <2>1
  <2>3. s \in Seq(BarType) /\ Len(s) \in Nat
    BY <1>1, <2>1
  <2> HIDE DEF All
  <2> QED BY <2>2, <2>3
<1>6. Len(s) <= n
  BY <1>0, <1>5
<1>7. ASSUME Len(s) = n PROVE s = b /\ \A i \in 1 .. n : b[i] \in W
  <2>1. All(n)
    BY <1>0, <1>5, <1>7
  <2>2. \A i \in 1 .. n : s[i] = b[i] /\ b[i] \in W
    BY <2>1
  <2> HIDE DEF s
  <2>3. s = b
    BY <1>5, <1>7, <1>b, <2>2, SameSequence
  <2> QED BY <2>2, <2>3
<1>8. ASSUME n # 0, b[n] \notin W, Len(s) >= n - 1
      PROVE  \A i \in 1 .. n - 1 : b[i] \in W
  <2>1. n \in 1 .. n /\ n - 1 \in 0 .. n /\ ~(n - 1 < n - 1)
    BY <1>0, <1>8
  <2>2. s = run[n - 1]
    BY <1>1, <1>8, <2>1
  <2>3. All(n - 1)
    <3>1. Len(run[n - 1]) < n - 1 \/ All(n - 1)
      BY <1>4, <2>1
    <3>2. ~(Len(run[n - 1]) < n - 1)
      BY <1>0, <1>5, <1>8, <2>2
    <3> QED BY <3>1, <3>2
  <2> QED BY <2>3
<1>9. ASSUME n # 0, b[n] \in W PROVE s # << >> /\ Last(s) = b[n]
  <2>1. n \in 1 .. n /\ n - 1 \in 0 .. n
    BY <1>0, <1>9
  <2>2. s = Append(run[n - 1], b[n]) /\ run[n - 1] \in Seq(BarType) /\ b[n] \in BarType
    BY <1>0, <1>1, <1>9, <2>1
  <2> HIDE DEF s
  <2> QED BY <2>2, AppendFacts
<1> HIDE DEF s
<1> QED BY <1>1, <1>5, <1>6, <1>7, <1>8, <1>9, <1>b DEF s

\* What is kept of a sequence is kept of its last bars, when nothing before them is.
LEMMA KeptTail ==
    ASSUME NEW b \in Seq(BarType), NEW c \in Seq(BarType), NEW d \in Nat, Len(b) = d + Len(c),
           NEW W, NEW V, \A i \in 1 .. d : b[i] \notin W,
           \A i \in 1 .. Len(c) : c[i] = b[d + i] /\ (c[i] \in V <=> b[d + i] \in W)
    PROVE  Kept(b, W) = Kept(c, V)
<1> DEFINE m == Len(c)
           n == Len(b)
<1>1. m \in Nat /\ n = d + m /\ d \in Nat
  OBVIOUS
<1>2. PICK run \in [0 .. n -> Seq(BarType)] :
            /\ run[0] = << >>
            /\ \A k \in 1 .. n : run[k] = IF b[k] \in W THEN Append(run[k - 1], b[k]) ELSE run[k - 1]
            /\ Kept(b, W) = run[n]
  BY KeptRun
<1>3. PICK tail \in [0 .. m -> Seq(BarType)] :
            /\ tail[0] = << >>
            /\ \A k \in 1 .. m : tail[k] = IF c[k] \in V THEN Append(tail[k - 1], c[k]) ELSE tail[k - 1]
            /\ Kept(c, V) = tail[m]
  BY KeptRun
<1>4. \A i \in 1 .. m : c[i] = b[d + i] /\ (c[i] \in V <=> b[d + i] \in W)
  OBVIOUS
<1> HIDE DEF m, n
<1>5. run[d] = << >>
  <2> DEFINE P == {k \in Nat : run[k] = << >>}
  <2>1. 0 \in P
    BY <1>2
  <2>2. ASSUME NEW k \in 1 .. d, k - 1 \in P PROVE k \in P
    <3>1. k \in 1 .. n /\ k \in Nat /\ b[k] \notin W
      BY <1>1
    <3> QED BY <1>2, <2>2, <3>1
  <2>3. \A k \in 0 .. d : k \in P
    <3> HIDE DEF P
    <3> QED BY <2>1, <2>2, AllUpTo
  <2> QED BY <2>3
<1>6. run[d + m] = tail[m]
  <2> DEFINE P == {k \in Nat : run[d + k] = tail[k]}
  <2>1. 0 \in P
    BY <1>1, <1>3, <1>5
  <2>2. ASSUME NEW k \in 1 .. m, k - 1 \in P PROVE k \in P
    <3>1. d + k \in 1 .. n /\ k \in Nat /\ d + k - 1 = d + (k - 1)
      BY <1>1
    <3>2. run[d + k] = IF b[d + k] \in W THEN Append(run[d + (k - 1)], b[d + k]) ELSE run[d + (k - 1)]
      BY <1>2, <3>1
    <3>3. run[d + (k - 1)] = tail[k - 1]
      BY <2>2
    <3> QED BY <1>3, <1>4, <3>1, <3>2, <3>3
  <2>3. \A k \in 0 .. m : k \in P
    <3> HIDE DEF P
    <3> QED BY <1>1, <2>1, <2>2, AllUpTo
  <2> QED BY <1>1, <2>3
<1> QED BY <1>1, <1>2, <1>3, <1>6

\* What is kept of the last two bars.
LEMMA KeptEnd ==
    ASSUME NEW b \in Seq(BarType), NEW W, Len(b) >= 2
    PROVE  LET n == Len(b)
           IN  /\ b[n] \in W /\ b[n - 1] \in W => Len(Kept(b, W)) >= 2
               /\ b[n] \in W /\ (\A i \in 1 .. n - 1 : b[i] \notin W) => Kept(b, W) = << b[n] >>
               /\ b[n] \notin W /\ b[n - 1] \in W =>
                    Kept(b, W) # << >> /\ Last(Kept(b, W)) = b[n - 1]
<1> DEFINE n == Len(b)
<1>1. PICK run \in [0 .. n -> Seq(BarType)] :
            /\ run[0] = << >>
            /\ \A k \in 1 .. n : run[k] = IF b[k] \in W THEN Append(run[k - 1], b[k]) ELSE run[k - 1]
            /\ Kept(b, W) = run[n]
  BY KeptRun
<1>2. /\ n \in 1 .. n /\ n - 1 \in 1 .. n /\ n - 1 - 1 = n - 2 /\ n - 2 \in 0 .. n /\ n - 1 \in 0 .. n
      /\ b[n] \in BarType /\ b[n - 1] \in BarType /\ n - 1 \in Nat
  <2>1. n \in Nat /\ n >= 2
    OBVIOUS
  <2>2. \A i \in 1 .. n : b[i] \in BarType
    OBVIOUS
  <2> HIDE DEF n
  <2> QED BY <2>1, <2>2
<1> HIDE DEF n
<1>3. run[n - 2] \in Seq(BarType) /\ run[n - 1] \in Seq(BarType) /\ run[n] \in Seq(BarType)
  BY <1>1, <1>2
<1>4. ASSUME b[n] \in W, b[n - 1] \in W PROVE Len(run[n]) >= 2
  <2>1. run[n] = Append(run[n - 1], b[n]) /\ run[n - 1] = Append(run[n - 2], b[n - 1])
    BY <1>1, <1>2, <1>4
  <2>2. Len(run[n]) = Len(run[n - 1]) + 1 /\ Len(run[n - 1]) = Len(run[n - 2]) + 1 /\ Len(run[n - 2]) \in Nat
    BY <1>2, <1>3, <2>1, AppendFacts
  <2> QED BY <2>2
<1>5. ASSUME b[n] \in W, \A i \in 1 .. n - 1 : b[i] \notin W PROVE run[n] = << b[n] >>
  <2> DEFINE P == {k \in Nat : run[k] = << >>}
  <2>1. 0 \in P
    BY <1>1
  <2>2. ASSUME NEW k \in 1 .. n - 1, k - 1 \in P PROVE k \in P
    <3>1. k \in 1 .. n /\ k \in Nat /\ b[k] \notin W
      BY <1>2, <1>5
    <3> QED BY <1>1, <2>2, <3>1
  <2>3. \A k \in 0 .. n - 1 : k \in P
    <3> HIDE DEF P
    <3> QED BY <1>2, <2>1, <2>2, AllUpTo
  <2>4. run[n - 1] = << >>
    BY <1>2, <2>3
  <2>5. run[n] = Append(run[n - 1], b[n])
    BY <1>1, <1>2, <1>5
  <2> QED BY <1>2, <2>4, <2>5
<1>6. ASSUME b[n] \notin W, b[n - 1] \in W
      PROVE  run[n] # << >> /\ Last(run[n]) = b[n - 1]
  <2>1. run[n] = Append(run[n - 2], b[n - 1])
    BY <1>1, <1>2, <1>6
  <2> DEFINE s == run[n - 2]
             e == b[n - 1]
  <2>2. s \in Seq(BarType) /\ e \in BarType
    BY <1>2, <1>3
  <2> HIDE DEF s, e
  <2>3. Append(s, e) # << >> /\ Last(Append(s, e)) = e
    BY <2>2, AppendFacts
  <2> QED BY <2>1, <2>3 DEF s, e
<1> QED BY <1>1, <1>4, <1>5, <1>6 DEF n

\* In unbroken sessions the days are in order, and a later bar of a day is as
\* much later as there are bars between; so no day has more than a session.
LEMMA DaysInOrder ==
    ASSUME NEW b \in Seq(BarType), Unbroken(b), NEW i \in 1 .. Len(b), NEW j \in i .. Len(b)
    PROVE  /\ b[i].day <= b[j].day
           /\ b[i].day = b[j].day => b[j].time = b[i].time + (j - i)
           /\ j - i >= SessionLength => b[i].day < b[j].day
<1> DEFINE n == Len(b)
           P == {k \in Nat : /\ b[i].day <= b[i + k].day
                             /\ b[i].day = b[i + k].day => b[i + k].time = b[i].time + k}
<1>1. n \in Nat /\ i \in Nat /\ i >= 1 /\ i <= n /\ j \in Nat /\ i <= j /\ j <= n
  OBVIOUS
<1>2. \A k \in 1 .. n : b[k].day \in Nat /\ b[k].time \in Int /\ IsSessionBar(b[k])
  BY BarFields DEF Unbroken, BarType
<1>3. \A k \in 1 .. n - 1 : /\ b[k].day <= b[k + 1].day
                            /\ b[k].day = b[k + 1].day => b[k + 1].time = b[k].time + 1
  BY DEF Unbroken
<1> HIDE DEF n
<1>4. 0 \in P
  BY <1>1, <1>2
<1>5. ASSUME NEW k \in 1 .. n - i, k - 1 \in P PROVE k \in P
  <2>1. /\ i + (k - 1) \in 1 .. n - 1 /\ i + (k - 1) \in 1 .. n /\ i + k \in 1 .. n
        /\ i + (k - 1) + 1 = i + k /\ k \in Nat
    BY <1>1
  <2> DEFINE x == b[i + (k - 1)]
             y == b[i + k]
             z == b[i]
  <2>2. x.day <= y.day /\ (x.day = y.day => y.time = x.time + 1)
    BY <1>3, <2>1
  <2>3. z.day <= x.day /\ (z.day = x.day => x.time = z.time + (k - 1))
    BY <1>5
  <2>4. x.day \in Nat /\ y.day \in Nat /\ z.day \in Nat /\ x.time \in Int /\ y.time \in Int /\ z.time \in Int
    BY <1>1, <1>2, <2>1
  <2> HIDE DEF x, y, z
  <2>5. k \in Int
    BY <2>1
  <2>6. z.day <= y.day /\ (z.day = y.day => y.time = z.time + k)
    BY ONLY <2>2, <2>3, <2>4, <2>5
  <2> QED BY <2>1, <2>6 DEF y, z
<1>6. \A k \in 0 .. n - i : k \in P
  <2>1. n - i \in Nat
    BY <1>1
  <2> HIDE DEF P
  <2> QED BY <1>4, <1>5, <2>1, AllUpTo
<1>7. j - i \in 0 .. n - i /\ i + (j - i) = j
  BY <1>1
<1>8. b[i].day <= b[j].day /\ (b[i].day = b[j].day => b[j].time = b[i].time + (j - i))
  BY <1>6, <1>7
<1>9. ASSUME j - i >= SessionLength PROVE b[i].day < b[j].day
  <2>1. /\ b[i].day \in Nat /\ b[j].day \in Nat /\ b[i].time \in Int /\ b[j].time \in Int
        /\ 0 <= b[i].time /\ b[j].time < SessionLength /\ SessionLength \in Nat
    BY <1>1, <1>2, SessionAssumption DEF IsSessionBar
  <2> DEFINE x == b[i].time
             y == b[j].time
             s == SessionLength
  <2>2. ~(y = x + (j - i))
    <3>1. x \in Int /\ y \in Int /\ 0 <= x /\ y < s /\ s \in Nat /\ i \in Int /\ j \in Int /\ j - i >= s
      BY <1>1, <1>9, <2>1
    <3> HIDE DEF x, y, s
    <3> QED BY ONLY <3>1
  <2> QED BY <1>8, <2>1, <2>2
<1> QED BY <1>8, <1>9

\* The last bars of unbroken sessions are such, and close in their ranges too.
LEMMA UnbrokenWindow ==
    ASSUME NEW b \in Seq(BarType), NEW n \in 1 .. Len(b)
    PROVE  /\ Unbroken(b) => Unbroken(LastN(b, n))
           /\ ClosesInRange(b) => ClosesInRange(LastN(b, n))
<1> DEFINE c == LastN(b, n)
           l == Len(b)
<1>1. Len(c) = n /\ \A i \in 1 .. n : c[i] = b[l - n + i]
  BY LastNElements
<1>2. l \in Nat /\ n \in 1 .. l
  OBVIOUS
<1> HIDE DEF c
<1>3. ASSUME Unbroken(b) PROVE Unbroken(c)
  <2>1. /\ \A i \in 1 .. l : IsSessionBar(b[i])
        /\ \A i \in 1 .. l - 1 : /\ b[i].day <= b[i + 1].day
                                 /\ b[i].day = b[i + 1].day => b[i + 1].time = b[i].time + 1
    BY <1>3 DEF Unbroken
  <2> HIDE DEF l
  <2>2. ASSUME NEW i \in 1 .. n PROVE IsSessionBar(c[i])
    <3>1. l - n + i \in 1 .. l /\ c[i] = b[l - n + i]
      BY <1>1, <1>2
    <3> QED BY <2>1, <3>1
  <2>3. ASSUME NEW i \in 1 .. n - 1
        PROVE  /\ c[i].day <= c[i + 1].day
               /\ c[i].day = c[i + 1].day => c[i + 1].time = c[i].time + 1
    <3>1. /\ i \in 1 .. n /\ i + 1 \in 1 .. n /\ l - n + i \in 1 .. l - 1
          /\ l - n + (i + 1) = l - n + i + 1
      BY <1>2
    <3>2. c[i] = b[l - n + i] /\ c[i + 1] = b[l - n + i + 1]
      BY <1>1, <3>1
    <3> QED BY <2>1, <3>1, <3>2
  <2> QED BY <1>1, <2>2, <2>3 DEF Unbroken
<1>4. ASSUME ClosesInRange(b) PROVE ClosesInRange(c)
  <2>1. \A i \in 1 .. l : b[i].low <= b[i].close /\ b[i].close <= b[i].high
    BY <1>4 DEF ClosesInRange
  <2> HIDE DEF l
  <2>2. \A i \in 1 .. n : l - n + i \in 1 .. l
    BY <1>2
  <2> QED BY <1>1, <2>1, <2>2 DEF ClosesInRange
<1> QED BY <1>3, <1>4 DEF c

\* A window of one bar more than the opening has: a breakout is only seen on
\* its last bar, and that is the first one after the opening.
LEMMA BreakoutIsFirst ==
    ASSUME NEW b \in Seq(BarType), b # << >>, Len(b) <= Params.openingBars + 1,
           ClosesInRange(b), Unbroken(b), OpeningRange(b) # NoSignal
    PROVE  Last(b).time = Params.openingBars
<1> DEFINE o == Params.openingBars
           n == Len(b)
           last == b[n]
           S == {x \in ToSet(b) : x.day = Last(b).day /\ IsSessionBar(x)}
           session == SessionBars(b, Last(b).day)
           R == {x \in ToSet(session) : x.time < o}
           range == OpeningBars(session)
<1>1. o \in Nat \ {0} /\ n \in Nat \ {0} /\ n <= o + 1 /\ Last(b) = last
  <2>1. n \in Nat \ {0} /\ n <= o + 1
    OBVIOUS
  <2>2. o \in Nat \ {0}
    BY ParamsAssumption
  <2> QED BY <2>1, <2>2 DEF Last
<1>2. /\ ~(Len(session) < o + 1) /\ ~(Len(range) < o)
      /\ Last(session).close > Highest(range) \/ Last(session).close < Lowest(range)
  BY DEF OpeningRange
<1>3. session = Kept(b, S) /\ range = Kept(session, R)
  BY DEF SessionBars, OpeningBars
<1> HIDE DEF S, R, range, session, o, n, last
<1>4. /\ Len(session) \in Nat /\ Len(session) <= n
      /\ Len(session) = n => session = b /\ \A i \in 1 .. n : b[i] \in S
  BY <1>3, KeptLength DEF n
<1>5. n = o + 1 /\ session = b /\ \A i \in 1 .. n : b[i] \in S
  <2>1. Len(session) = n /\ n = o + 1
    BY <1>1, <1>2, <1>4
  <2> QED BY <1>4, <2>1
<1>6. /\ Len(range) \in Nat
      /\ last \notin R /\ Len(range) >= n - 1 => \A i \in 1 .. n - 1 : b[i] \in R
      /\ last \in R => range # << >> /\ Last(range) = last
  BY <1>3, <1>5, KeptLength DEF n, last
<1>7. /\ last \in BarType /\ last.low <= last.close /\ last.close <= last.high
      /\ last.close \in Prices /\ last.high \in Prices /\ last.low \in Prices /\ last.time \in Int
  <2>1. n \in 1 .. Len(b)
    BY <1>1 DEF n
  <2> QED BY <2>1, BarFields DEF ClosesInRange, last
<1>8. last \notin R
  <2> SUFFICES ASSUME last \in R PROVE FALSE
    OBVIOUS
  <2>1. range # << >> /\ Last(range) = last /\ range \in Seq(BarType)
    BY <1>3, <1>5, <1>6, KeptType
  <2>2. Len(range) \in 1 .. Len(range) /\ last = range[Len(range)]
    BY <2>1 DEF Last
  <2>3. last.high <= Highest(range) /\ Highest(range) \in Prices
    BY <2>1, <2>2, HighestOf
  <2>4. Lowest(range) <= last.low /\ Lowest(range) \in Prices
    BY <2>1, <2>2, LowestOf
  <2>5. last.close > Highest(range) \/ last.close < Lowest(range)
    BY <1>1, <1>2, <1>5
  <2> QED BY <1>7, <2>3, <2>4, <2>5 DEF Prices
<1>9. \A i \in 1 .. n - 1 : b[i] \in R
  <2>1. Len(range) >= n - 1
    BY <1>1, <1>2, <1>5, <1>6
  <2> QED BY <1>6, <1>8, <2>1
<1>10. /\ n - 1 \in 1 .. n - 1 /\ n - 1 \in 1 .. Len(b) - 1 /\ n - 1 + 1 = n
       /\ n \in 1 .. n /\ n \in 1 .. Len(b) /\ n - 1 \in 1 .. n /\ n - 1 \in 1 .. Len(b)
  BY <1>1, <1>5 DEF n
<1>11. b[n - 1].day = last.day /\ b[n - 1].time \in Int
  BY <1>5, <1>10, BarFields DEF S, last
<1>12. last.time = b[n - 1].time + 1
  BY <1>10, <1>11 DEF Unbroken, last
<1>13. b[n - 1].time < o
  BY <1>9, <1>10 DEF R
<1>14. ~(last.time < o)
  <2>1. last \in ToSet(session)
    BY <1>5, <1>10 DEF ToSet, last
  <2> QED BY <1>8, <2>1 DEF R
<1>15. last.time = o
  BY <1>1, <1>7, <1>11, <1>12, <1>13, <1>14
<1> QED BY <1>1, <1>15 DEF o

\* The greatest of some numbers.
LEMMA MaxIs ==
    ASSUME NEW S \in SUBSET Int, NEW m \in S, \A x \in S : x <= m
    PROVE  Max(S) = m
<1>1. m \in S /\ \A x \in S : m >= x
  OBVIOUS
<1>2. Max(S) \in S /\ \A x \in S : Max(S) >= x
  BY <1>1, Zenon DEF Max
<1> DEFINE y == Max(S)
<1>3. y \in Int /\ y >= m /\ y <= m /\ m \in Int
  BY <1>2
<1> HIDE DEF y
<1>4. y = m
  BY <1>3
<1> QED BY <1>4 DEF y

\* The days before a day on which there were sessions.
DaysBefore(b, day) == {x.day : x \in {c \in ToSet(b) : c.day < day /\ IsSessionBar(c)}}

LEMMA DaysBeforeAre ==
    ASSUME NEW b \in Seq(BarType), Unbroken(b), NEW day
    PROVE  /\ DaysBefore(b, day) \in SUBSET Nat
           /\ \A i \in 1 .. Len(b) : b[i].day < day => b[i].day \in DaysBefore(b, day)
           /\ \A d \in DaysBefore(b, day) : d < day /\ \E i \in 1 .. Len(b) : d = b[i].day
           /\ PrevSessionBars(b, day) = IF DaysBefore(b, day) = {} THEN << >>
                                        ELSE SessionBars(b, Max(DaysBefore(b, day)))
<1>1. ToSet(b) = {b[i] : i \in 1 .. Len(b)}
  BY DEF ToSet
<1>2. \A i \in 1 .. Len(b) : b[i].day \in Nat /\ IsSessionBar(b[i])
  BY BarFields DEF Unbroken
<1>3. \A i \in 1 .. Len(b) : b[i].day < day => b[i].day \in DaysBefore(b, day)
  BY <1>1, <1>2 DEF DaysBefore
<1>4. \A d \in DaysBefore(b, day) : d < day /\ \E i \in 1 .. Len(b) : d = b[i].day
  BY <1>1 DEF DaysBefore
<1>5. DaysBefore(b, day) \in SUBSET Nat
  BY <1>2, <1>4
<1> QED BY <1>3, <1>4, <1>5 DEF DaysBefore, PrevSessionBars

\* The answer of GapFill to an opening after a close.
GapSignal(close, open) ==
    IF 1000 * Abs(open - close) <= Params.minGap * close THEN NoSignal
    ELSE IF Params.maxGap > 0 /\ 1000 * Abs(open - close) > Params.maxGap * close THEN NoSignal
    ELSE IF open - close > 0 THEN Sell ELSE Buy

\* In unbroken sessions it is a matter of the last two bars.
LEMMA GapOfTwo ==
    ASSUME NEW b \in Seq(BarType), Unbroken(b), Len(b) >= 2
    PROVE  LET n == Len(b)
           IN  GapFill(b) = IF b[n - 1].day = b[n].day THEN NoSignal
                            ELSE GapSignal(b[n - 1].close, b[n].open)
<1> DEFINE n == Len(b)
           day == b[n].day
           prev == b[n - 1].day
           W(d) == {x \in ToSet(b) : x.day = d /\ IsSessionBar(x)}
           today == SessionBars(b, day)
           before == PrevSessionBars(b, day)
<1>1. /\ n \in Nat /\ n >= 2 /\ n \in 1 .. Len(b) /\ n - 1 \in 1 .. Len(b) /\ n - 1 \in 1 .. Len(b) - 1
      /\ Last(b) = b[n] /\ n - 1 + 1 = n
  BY DEF Last
<1>2. \A d : SessionBars(b, d) = Kept(b, W(d))
  BY DEF SessionBars
<1>3. \A i \in 1 .. Len(b) : b[i] \in ToSet(b) /\ IsSessionBar(b[i]) /\ b[i].day \in Nat
  BY BarFields DEF ToSet, Unbroken
<1>4. \A d : \A i \in 1 .. Len(b) : b[i] \in W(d) <=> b[i].day = d
  BY <1>3
<1>5. GapFill(b) = LET close == Last(before).close
                       gap == today[1].open - close
                   IN  IF Len(today) # 1 \/ before = << >> THEN NoSignal
                       ELSE IF 1000 * Abs(gap) <= Params.minGap * close THEN NoSignal
                       ELSE IF Params.maxGap > 0 /\ 1000 * Abs(gap) > Params.maxGap * close
                       THEN NoSignal ELSE IF gap > 0 THEN Sell ELSE Buy
  BY <1>1 DEF GapFill
<1> HIDE DEF W, n
<1>6. CASE prev = day
  <2>1. Len(Kept(b, W(day))) >= 2
    BY <1>1, <1>4, <1>6, KeptEnd DEF n
  <2>2. Len(today) # 1
    <3>1. Kept(b, W(day)) \in Seq(BarType)
      BY KeptType
    <3>2. Len(Kept(b, W(day))) # 1
      <4> DEFINE k == Kept(b, W(day))
      <4>1. k \in Seq(BarType) /\ Len(k) >= 2
        BY <2>1, <3>1
      <4> DEFINE m == Len(k)
      <4>2. m \in Nat /\ m >= 2
        <5> HIDE DEF k
        <5> QED BY <4>1
      <4> HIDE DEF m
      <4>3. m # 1
        BY ONLY <4>2
      <4> QED BY <4>3 DEF m
    <3> QED BY <1>2, <3>2
  <2> HIDE DEF today, before
  <2>3. GapFill(b) = NoSignal
    BY <1>5, <2>2
  <2> QED BY <1>6, <2>3 DEF n
<1>7. CASE prev # day
  <2>1. prev \in Nat /\ day \in Nat /\ prev < day
    <3>1. prev \in Nat /\ day \in Nat
      BY <1>1, <1>3
    <3>2. prev <= day
      BY <1>1 DEF Unbroken
    <3> QED BY <1>7, <3>1, <3>2
  <2>2. \A i \in 1 .. n - 1 : b[i].day <= prev /\ b[i].day \in Nat /\ i \in 1 .. Len(b)
    <3> TAKE i \in 1 .. n - 1
    <3>1. i \in 1 .. Len(b) /\ n - 1 \in i .. Len(b)
      BY <1>1
    <3> QED BY <1>3, <3>1, DaysInOrder
  <2>3. \A i \in 1 .. n - 1 : b[i] \notin W(day)
    <3> TAKE i \in 1 .. n - 1
    <3>1. b[i].day # day
      BY <2>1, <2>2
    <3> QED BY <1>4, <2>2, <3>1
  <2>4. today = << b[n] >>
    <3>1. b[n] \in W(day)
      BY <1>1, <1>4
    <3> QED BY <1>1, <1>2, <2>3, <3>1, KeptEnd DEF n
  <2>5. Max(DaysBefore(b, day)) = prev /\ prev \in DaysBefore(b, day)
    <3>1. DaysBefore(b, day) \in SUBSET Int /\ prev \in DaysBefore(b, day)
      BY <1>1, <2>1, DaysBeforeAre
    <3>2. ASSUME NEW d \in DaysBefore(b, day) PROVE d <= prev
      <4>1. PICK i \in 1 .. Len(b) : d = b[i].day
        BY DaysBeforeAre
      <4>2. d < day
        BY DaysBeforeAre
      <4>3. i # n
        BY <1>3, <2>1, <4>1, <4>2
      <4>4. i \in 1 .. n - 1
        <5>1. i \in 1 .. n
          BY DEF n
        <5>2. i \in Nat /\ 1 <= i /\ i <= n /\ n \in Nat
          BY <1>1, <5>1
        <5> QED BY <4>3, <5>2
      <4> QED BY <2>2, <4>1, <4>4
    <3> QED BY <3>1, <3>2, MaxIs
  <2>6. before = Kept(b, W(prev))
    BY <1>2, <2>5, DaysBeforeAre
  <2>7. before # << >> /\ Last(before) = b[n - 1]
    <3>1. b[n] \notin W(prev) /\ b[n - 1] \in W(prev)
      BY <1>1, <1>4, <1>7
    <3> QED BY <1>1, <2>6, <3>1, KeptEnd DEF n
  <2>8. Len(today) = 1 /\ today[1] = b[n]
    BY <2>4
  <2> HIDE DEF today, before
  <2>9. GapFill(b) = GapSignal(b[n - 1].close, b[n].open)
    BY <1>5, <2>7, <2>8 DEF GapSignal
  <2> QED BY <1>7, <2>9 DEF n
<1> QED BY <1>6, <1>7

LEMMA GapOfWindow ==
    ASSUME NEW b \in Seq(BarType), Unbroken(b), NEW n \in 2 .. Len(b)
    PROVE  GapFill(LastN(b, n)) = GapFill(b)
<1> DEFINE c == LastN(b, n)
           l == Len(b)
<1>1. n \in 1 .. l /\ l \in Nat /\ n \in Nat /\ n >= 2 /\ l >= 2
  OBVIOUS
<1>2. c \in Seq(BarType) /\ Len(c) = n /\ \A i \in 1 .. n : c[i] = b[l - n + i]
  BY <1>1, LastNElements
<1>3. Unbroken(c)
  BY <1>1, UnbrokenWindow
<1>4. l = Len(b)
  OBVIOUS
<1> HIDE DEF c, l
<1>5. c[n] = b[l] /\ c[n - 1] = b[l - 1]
  <2>1. n \in 1 .. n /\ n - 1 \in 1 .. n /\ l - n + n = l /\ l - n + (n - 1) = l - 1
    BY <1>1
  <2> QED BY <1>2, <2>1
<1>6. GapFill(c) = IF c[n - 1].day = c[n].day THEN NoSignal
                   ELSE GapSignal(c[n - 1].close, c[n].open)
  BY <1>1, <1>2, <1>3, GapOfTwo
<1>7. GapFill(b) = IF b[l - 1].day = b[l].day THEN NoSignal
                   ELSE GapSignal(b[l - 1].close, b[l].open)
  BY <1>1, <1>4, GapOfTwo
<1> QED BY <1>5, <1>6, <1>7 DEF c

\* The session of a day none of whose bars comes before a window.
LEMMA SessionOfWindow ==
    ASSUME NEW b \in Seq(BarType), NEW n \in 1 .. Len(b), NEW day,
           \A i \in 1 .. Len(b) - n : b[i].day # day
    PROVE  SessionBars(LastN(b, n), day) = SessionBars(b, day)
<1> DEFINE c == LastN(b, n)
           d == Len(b) - n
           W == {x \in ToSet(b) : x.day = day /\ IsSessionBar(x)}
           V == {x \in ToSet(c) : x.day = day /\ IsSessionBar(x)}
<1>1. c \in Seq(BarType) /\ Len(c) = n /\ \A i \in 1 .. n : c[i] = b[d + i]
  BY LastNElements
<1>2. d \in Nat /\ Len(b) = d + n /\ \A i \in 1 .. n : d + i \in 1 .. Len(b)
  OBVIOUS
<1>3. \A i \in 1 .. d : b[i] \notin W
  OBVIOUS
<1> HIDE DEF c, d
<1>4. ASSUME NEW i \in 1 .. Len(c)
      PROVE  c[i] = b[d + i] /\ (c[i] \in V <=> b[d + i] \in W)
  <2>1. c[i] = b[d + i] /\ d + i \in 1 .. Len(b)
    BY <1>1, <1>2
  <2>2. c[i] \in ToSet(c) /\ b[d + i] \in ToSet(b)
    BY <2>1 DEF ToSet
  <2> QED BY <2>1, <2>2
<1>5. SessionBars(b, day) = Kept(b, W) /\ SessionBars(c, day) = Kept(c, V)
  BY DEF SessionBars
<1> HIDE DEF W, V
<1>6. Kept(b, W) = Kept(c, V)
  <2>1. Len(b) = d + Len(c) /\ d \in Nat /\ c \in Seq(BarType)
    BY <1>1, <1>2
  <2>2. \A i \in 1 .. Len(c) : c[i] = b[d + i] /\ (c[i] \in V <=> b[d + i] \in W)
    BY <1>4
  <2> QED BY ONLY <2>1, <2>2, <1>3, b \in Seq(BarType), KeptTail
<1> QED BY <1>5, <1>6 DEF c

\* A set of numbers below a bound has a greatest one.
LEMMA GreatestBelow ==
    ASSUME NEW S \in SUBSET Nat, S # {}, NEW d \in Nat, \A x \in S : x < d
    PROVE  \E m \in S : \A x \in S : x <= m
<1> DEFINE T == {d - x : x \in S}
<1>1. T \in SUBSET Nat /\ T # {}
  <2>1. \A x \in S : d - x \in Nat
    <3> TAKE x \in S
    <3>1. x \in Nat /\ x < d /\ d \in Nat
      OBVIOUS
    <3> QED BY ONLY <3>1
  <2> QED BY <2>1
<1>2. PICK t \in T : \A y \in T : t <= y
  <2> HIDE DEF T
  <2> QED BY <1>1, LeastOf
<1>3. PICK m \in S : t = d - m
  OBVIOUS
<1>4. ASSUME NEW x \in S PROVE x <= m
  <2>1. d - m <= d - x /\ x \in Nat /\ m \in Nat
    BY <1>2, <1>3
  <2> QED BY <2>1
<1> QED BY <1>4

\* Two sessions hold the day of the last bar and what there is of the one before.
LEMMA SessionsOfWindow ==
    ASSUME NEW b \in Seq(BarType), Unbroken(b), NEW n \in 1 .. Len(b), n >= 2 * SessionLength
    PROVE  LET day == b[Len(b)].day
               c == LastN(b, n)
           IN  /\ SessionBars(c, day) = SessionBars(b, day)
               /\ PrevSessionBars(c, day) = PrevSessionBars(b, day)
<1> DEFINE l == Len(b)
           day == b[l].day
           c == LastN(b, n)
           k == l - SessionLength
<1>1. /\ l \in Nat /\ n \in Nat /\ n <= l /\ SessionLength \in Nat /\ SessionLength >= 1
      /\ n \in 1 .. l /\ l = Len(b) /\ n >= 2 * SessionLength
  BY SessionAssumption
<1>2. /\ c \in Seq(BarType) /\ Len(c) = n /\ Unbroken(c)
      /\ \A i \in 1 .. n : c[i] = b[l - n + i] /\ l - n + i \in 1 .. l
  BY LastNElements, UnbrokenWindow
<1>3. \A i \in 1 .. l : b[i].day \in Nat
  BY BarFields
<1>4. \A i \in 1 .. l : \A j \in i .. l : j - i >= SessionLength => b[i].day < b[j].day
  BY DaysInOrder
<1> HIDE DEF c, l
<1>5. k \in 1 .. l /\ l \in k .. l /\ l - k >= SessionLength /\ l \in 1 .. l
  BY <1>1
<1>6. b[k].day < day /\ day \in Nat
  BY <1>3, <1>4, <1>5
<1> HIDE DEF k
<1>7. ASSUME NEW i \in 1 .. l - n PROVE b[i].day < b[k].day
  <2>1. i \in 1 .. l /\ k \in i .. l /\ k - i >= SessionLength
    BY <1>1, <1>5 DEF k
  <2> QED BY <1>4, <2>1
<1>8. SessionBars(c, day) = SessionBars(b, day)
  <2>1. ASSUME NEW i \in 1 .. l - n PROVE b[i].day # day
    <3>1. i \in 1 .. l
      BY <1>1
    <3>2. b[i].day \in Nat /\ b[k].day \in Nat
      BY <1>3, <1>5, <3>1
    <3> QED BY <1>6, <1>7, <3>2
  <2> QED BY <1>1, <2>1, SessionOfWindow DEF c
<1>9. PrevSessionBars(c, day) = PrevSessionBars(b, day)
  <2> DEFINE inB == DaysBefore(b, day)
             inC == DaysBefore(c, day)
  <2>1. /\ inB \in SUBSET Nat
        /\ \A i \in 1 .. l : b[i].day < day => b[i].day \in inB
        /\ \A d \in inB : d < day /\ \E i \in 1 .. l : d = b[i].day
        /\ PrevSessionBars(b, day) = IF inB = {} THEN << >> ELSE SessionBars(b, Max(inB))
    BY <1>1, DaysBeforeAre
  <2>2. /\ inC \in SUBSET Nat
        /\ \A i \in 1 .. n : c[i].day < day => c[i].day \in inC
        /\ \A d \in inC : d < day /\ \E i \in 1 .. n : d = c[i].day
        /\ PrevSessionBars(c, day) = IF inC = {} THEN << >> ELSE SessionBars(c, Max(inC))
    <3>1. /\ inC \in SUBSET Nat
          /\ \A i \in 1 .. Len(c) : c[i].day < day => c[i].day \in inC
          /\ \A d \in inC : d < day /\ \E i \in 1 .. Len(c) : d = c[i].day
          /\ PrevSessionBars(c, day) = IF inC = {} THEN << >> ELSE SessionBars(c, Max(inC))
      BY <1>2, DaysBeforeAre
    <3> HIDE DEF inC
    <3> QED BY <1>2, <3>1
  <2> HIDE DEF inB, inC
  <2>3. b[k].day \in inB
    BY <1>5, <1>6, <2>1
  <2>4. PICK m \in inB : \A x \in inB : x <= m
    BY <1>6, <2>1, <2>3, GreatestBelow
  <2>5. Max(inB) = m
    BY <2>1, <2>4, MaxIs
  <2>6. \A i \in 1 .. l - n : b[i].day < m
    <3> TAKE i \in 1 .. l - n
    <3>1. b[i].day < b[k].day /\ b[k].day <= m /\ i \in 1 .. l
      BY <1>1, <1>7, <2>3, <2>4
    <3>2. b[i].day \in Nat /\ b[k].day \in Nat /\ m \in Nat
      BY <1>3, <1>5, <2>1, <3>1
    <3> QED BY <3>1, <3>2
  <2>7. m \in inC
    <3>1. PICK j \in 1 .. l : m = b[j].day
      BY <2>1
    <3>2. j \notin 1 .. l - n
      BY <1>3, <2>6, <3>1
    <3>3. j - (l - n) \in 1 .. n /\ l - n + (j - (l - n)) = j
      BY <1>1, <3>2
    <3>4. c[j - (l - n)] = b[j]
      BY <1>2, <3>3
    <3>5. m < day
      BY <2>1
    <3> QED BY <2>2, <3>1, <3>3, <3>4, <3>5
  <2>8. Max(inC) = m
    <3>1. ASSUME NEW d \in inC PROVE d <= m
      <4>1. d < day /\ \E i \in 1 .. n : d = c[i].day
        BY <2>2
      <4>2. PICK i \in 1 .. n : d = c[i].day
        BY <4>1
      <4>3. l - n + i \in 1 .. l /\ d = b[l - n + i].day
        BY <1>2, <4>2
      <4>4. d \in inB
        BY <2>1, <4>1, <4>3
      <4> QED BY <2>4, <4>4
    <3>2. inC \in SUBSET Int
      BY <2>2
    <3> QED BY <2>7, <3>1, <3>2, MaxIs
  <2>9. SessionBars(c, m) = SessionBars(b, m)
    <3>1. \A i \in 1 .. l - n : b[i].day # m
      <4> TAKE i \in 1 .. l - n
      <4>1. i \in 1 .. l
        BY <1>1
      <4>2. b[i].day \in Nat /\ m \in Nat /\ b[i].day < m
        BY <1>3, <2>1, <2>6, <4>1
      <4> QED BY <4>2
    <3> QED BY <1>1, <3>1, SessionOfWindow DEF c
  <2> QED BY <2>1, <2>2, <2>3, <2>5, <2>7, <2>8, <2>9
<1> QED BY <1>8, <1>9 DEF c, l

LEMMA PrevDayOfWindow ==
    ASSUME NEW b \in Seq(BarType), Unbroken(b), NEW n \in 1 .. Len(b), n >= 2 * SessionLength
    PROVE  PrevDayBreakout(LastN(b, n)) = PrevDayBreakout(b)
<1> DEFINE c == LastN(b, n)
<1>1. Last(c) = Last(b)
  BY LastOfWindow
<1>2. Last(b) = b[Len(b)]
  BY DEF Last
<1>3. /\ SessionBars(c, Last(b).day) = SessionBars(b, Last(b).day)
      /\ PrevSessionBars(c, Last(b).day) = PrevSessionBars(b, Last(b).day)
  BY <1>2, SessionsOfWindow
<1> HIDE DEF c
<1>4. PrevDayBreakout(c) = PrevDayBreakout(b)
  BY <1>1, <1>3, Zenon DEF PrevDayBreakout
<1> QED BY <1>4 DEF c
=============================================================================
