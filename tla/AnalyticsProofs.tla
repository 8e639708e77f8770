-------------------------- MODULE AnalyticsProofs --------------------------
(***************************************************************************)
(* Theorems about Analytics.  The orders and the sums that the reports are *)
(* made of come first, then threshold tests, near misses and the sums of a *)
(* scrape, each from what the code records; then the two invariants, IInv  *)
(* and Sums, that hold what it records together.                           *)
(***************************************************************************)
EXTENDS Analytics, FiniteSetTheorems, TLAPS
-----------------------------------------------------------------------------
(* Orders, sums and ratios *)

\* A nonempty set of bounded integers has a least element.
LEMMA Least ==
    ASSUME NEW a \in Int, NEW b \in Int, NEW S \in SUBSET (a..b), S # {}
    PROVE  \E x \in S : \A y \in S : x <= y
<1> DEFINE Below(x) == {y \in S : y <= x}
           T == {Below(x) : x \in S}
<1>1. IsFiniteSet(S) /\ \A B \in SUBSET S : IsFiniteSet(B)
  BY FS_Interval, FS_Subset
<1>2. T \subseteq FiniteSubsetsOf(S) /\ T # {}
  BY <1>1 DEF FiniteSubsetsOf
<1>3. IsWellFoundedOn(StrictSubsetOrdering(S), FiniteSubsetsOf(S))
  BY FS_StrictSubsetOrderingWellFounded
<1>4. PICK B \in T : \A C \in T : <<C, B>> \notin StrictSubsetOrdering(S)
  <2> HIDE DEF T
  <2> QED
    BY <1>2, <1>3, WFMin
<1>5. PICK x \in S : B = Below(x)
  OBVIOUS
<1>6. ASSUME NEW y \in S, y < x PROVE FALSE
  <2>1. ASSUME NEW w \in S, w <= y PROVE w <= x
    <3>1. w \in Int /\ y \in Int /\ x \in Int
      OBVIOUS
    <3> QED
      BY <1>6, <2>1, <3>1
  <2>2. x \in B /\ x \notin Below(y)
    BY <1>5, <1>6
  <2>3. Below(y) \subseteq B
    BY <1>5, <2>1
  <2>4. <<Below(y), B>> \in StrictSubsetOrdering(S)
    BY <1>5, <2>2, <2>3 DEF StrictSubsetOrdering
  <2> QED
    BY <1>4, <2>4
<1> QED
  BY <1>6

\* And a greatest one.
LEMMA Greatest ==
    ASSUME NEW a \in Int, NEW b \in Int, NEW S \in SUBSET (a..b), S # {}
    PROVE  \E x \in S : \A y \in S : y <= x
<1> DEFINE T == {-x : x \in S}
<1>1. PICK low \in Int, high \in Int : low = -b /\ high = -a
  OBVIOUS
<1>2. \A x \in S : x \in Int /\ -x \in low..high
  <2>1. \A x \in S : x \in Int /\ a <= x /\ x <= b
    OBVIOUS
  <2> QED
    BY <1>1, <2>1
<1>3. T \in SUBSET (low..high) /\ T # {}
  BY <1>2
<1>4. PICK z \in T : \A y \in T : z <= y
  <2> HIDE DEF T
  <2> QED
    BY <1>3, Least
<1>5. PICK x \in S : z = -x
  OBVIOUS
<1>6. \A y \in S : -x <= -y /\ x \in Int /\ y \in Int
  BY <1>4, <1>5, <1>2
<1> QED
  BY <1>6

\* Counting up to n.
LEMMA UpTo ==
    ASSUME NEW n \in Nat, NEW T, 0 \in T, \A k \in 0..n : k \in T => k + 1 \in T
    PROVE  \A k \in 0..n : k \in T
<1> DEFINE bad == {k \in 0..n : k \notin T}
<1> SUFFICES ASSUME bad # {} PROVE FALSE
  OBVIOUS
<1>1. PICK k \in bad : \A y \in bad : k <= y
  <2>1. bad \in SUBSET (0..n) /\ 0 \in Int /\ n \in Int
    OBVIOUS
  <2> HIDE DEF bad
  <2> QED
    BY <2>1, Least
<1>2. k - 1 \in 0..n /\ k - 1 \notin bad
  BY <1>1
<1>3. k - 1 \in T /\ (k - 1) + 1 = k
  BY <1>2
<1> QED
  BY <1>1, <1>2, <1>3

\* The element a fold takes out of a set.
Taken(s) == CHOOSE x \in s : TRUE

\* What holds of the empty set and of every set when it holds of the set without
\* the element the fold takes out holds of all subsets of a finite set.
LEMMA TakeOut ==
    ASSUME NEW S, IsFiniteSet(S), NEW T, {} \in T,
           \A s \in SUBSET S : s # {} /\ s \ {Taken(s)} \in T => s \in T
    PROVE  \A s \in SUBSET S : s \in T
<1> DEFINE Upto(k) == \A s \in SUBSET S : Cardinality(s) <= k => s \in T
           K == {k \in Nat : Upto(k)}
<1>1. \A s \in SUBSET S : IsFiniteSet(s) /\ Cardinality(s) \in Nat
                          /\ Cardinality(s) <= Cardinality(S)
  BY FS_Subset, FS_CardinalityType
<1>2. 0 \in K
  <2>1. ASSUME NEW s \in SUBSET S, Cardinality(s) <= 0 PROVE s \in T
    <3>1. Cardinality(s) = 0 /\ IsFiniteSet(s)
      BY <1>1, <2>1
    <3>2. s = {}
      BY <3>1, FS_EmptySet
    <3> QED
      BY <3>2
  <2> QED
    BY <2>1
<1>3. ASSUME NEW k \in Nat, k \in K PROVE k + 1 \in K
  <2>1. ASSUME NEW s \in SUBSET S, Cardinality(s) <= k + 1, s # {} PROVE s \in T
    <3>1. Taken(s) \in s
      BY <2>1 DEF Taken
    <3>2. Cardinality(s \ {Taken(s)}) = Cardinality(s) - 1
      BY <1>1, <3>1, FS_RemoveElement
    <3>3. s \ {Taken(s)} \in T
      BY <1>1, <1>3, <2>1, <3>2
    <3> QED
      BY <2>1, <3>3
  <2> QED
    BY <2>1
<1>4. Cardinality(S) \in Nat
  BY <1>1
<1>5. Cardinality(S) \in K
  <2> HIDE DEF K
  <2>1. \A k \in 0..Cardinality(S) : k \in K => k + 1 \in K
    BY <1>3, <1>4
  <2> QED
    BY <1>2, <1>4, <2>1, UpTo
<1> QED
  BY <1>1, <1>5

\* The sums of the subsets of its domain that SumFunction builds on its way.
IsSum(g, f) ==
    g = [s \in SUBSET DOMAIN f |->
            IF s = {} THEN 0 ELSE f[Taken(s)] + g[s \ {Taken(s)}]]

\* SumFunction is what its recursion says: the sums exist, size by size.
LEMMA SumDefined ==
    ASSUME NEW f, IsFiniteSet(DOMAIN f)
    PROVE  \E g : IsSum(g, f) /\ SumFunction(f) = g[DOMAIN f]
<1> DEFINE S == DOMAIN f
           Level(k) == {s \in SUBSET S : Cardinality(s) <= k}
           Sums(g, k) == g = [s \in Level(k) |->
                                 IF s = {} THEN 0 ELSE f[Taken(s)] + g[s \ {Taken(s)}]]
           K == {k \in Nat : \E g : Sums(g, k)}
<1>1. \A s \in SUBSET S : IsFiniteSet(s) /\ Cardinality(s) \in Nat
                          /\ Cardinality(s) <= Cardinality(S)
  BY FS_Subset, FS_CardinalityType
<1>2. 0 \in K
  <2>1. Level(0) = {{}}
    BY <1>1, FS_EmptySet
  <2>2. Sums([s \in Level(0) |-> 0], 0)
    BY <2>1
  <2> QED
    BY <2>2
<1>3. ASSUME NEW k \in Nat, k \in K PROVE k + 1 \in K
  <2>1. PICK g : Sums(g, k)
    BY <1>3
  <2> DEFINE h == [s \in Level(k + 1) |->
                      IF s = {} THEN 0 ELSE f[Taken(s)] + g[s \ {Taken(s)}]]
  <2>2. ASSUME NEW s \in Level(k + 1), s # {}
        PROVE  h[s \ {Taken(s)}] = g[s \ {Taken(s)}]
    <3>1. Taken(s) \in s
      BY <2>2 DEF Taken
    <3>2. Cardinality(s \ {Taken(s)}) = Cardinality(s) - 1
      BY <1>1, <3>1, FS_RemoveElement
    <3>3. PICK u : u = s \ {Taken(s)}
      OBVIOUS
    <3>4. u \in Level(k) /\ u \in Level(k + 1)
      BY <1>1, <2>2, <3>2, <3>3
    <3>5. h[u] = IF u = {} THEN 0 ELSE f[Taken(u)] + g[u \ {Taken(u)}]
      BY <3>4
    <3>6. g[u] = IF u = {} THEN 0 ELSE f[Taken(u)] + g[u \ {Taken(u)}]
      BY <2>1, <3>4
    <3> QED
      BY <3>3, <3>5, <3>6
  <2>3. h = [s \in Level(k + 1) |->
                IF s = {} THEN 0 ELSE f[Taken(s)] + h[s \ {Taken(s)}]]
    <3>1. \A s \in Level(k + 1) :
             h[s] = IF s = {} THEN 0 ELSE f[Taken(s)] + g[s \ {Taken(s)}]
      OBVIOUS
    <3>2. \A s \in Level(k + 1) :
             h[s] = IF s = {} THEN 0 ELSE f[Taken(s)] + h[s \ {Taken(s)}]
      BY <2>2, <3>1
    <3>3. h = [s \in Level(k + 1) |-> h[s]]
      OBVIOUS
    <3> HIDE DEF h, Level
    <3> QED
      BY <3>2, <3>3
  <2> HIDE DEF h
  <2>4. Sums(h, k + 1)
    BY <2>3
  <2>5. \E w : Sums(w, k + 1)
    <3> HIDE DEF Sums
    <3> QED
      BY <2>4
  <2>6. k + 1 \in Nat
    OBVIOUS
  <2> HIDE DEF Sums
  <2> QED
    BY <2>5, <2>6
<1>4. Cardinality(S) \in Nat
  BY <1>1
<1>5. Cardinality(S) \in K
  <2> HIDE DEF K
  <2>1. \A k \in 0..Cardinality(S) : k \in K => k + 1 \in K
    BY <1>3, <1>4
  <2> QED
    BY <1>2, <1>4, <2>1, UpTo
<1>6. Level(Cardinality(S)) = SUBSET S
  BY <1>1
<1>7. \E g : IsSum(g, f)
  BY <1>5, <1>6 DEF IsSum
<1> QED
  BY <1>7 DEF IsSum, Taken, SumFunction, SumFunctionOnSet, FoldFunctionOnSet, MapThenFoldSet

\* A table of zeros adds up to zero.
LEMMA SumOfZeros ==
    ASSUME NEW S, IsFiniteSet(S) PROVE SumFunction([x \in S |-> 0]) = 0
<1> DEFINE f == [x \in S |-> 0]
<1>1. DOMAIN f = S
  OBVIOUS
<1>2. PICK g : IsSum(g, f) /\ SumFunction(f) = g[S]
  <2> HIDE DEF f
  <2> QED
    BY <1>1, SumDefined
<1> DEFINE T == {s \in SUBSET S : g[s] = 0}
<1>3. \A s \in SUBSET S : g[s] = IF s = {} THEN 0 ELSE f[Taken(s)] + g[s \ {Taken(s)}]
  BY <1>1, <1>2 DEF IsSum
<1>4. \A s \in SUBSET S : s # {} => Taken(s) \in S
  BY DEF Taken
<1>5. {} \in T /\ \A s \in SUBSET S : s # {} /\ s \ {Taken(s)} \in T => s \in T
  BY <1>3, <1>4
<1>6. \A s \in SUBSET S : s \in T
  <2> HIDE DEF T
  <2> QED
    BY <1>5, TakeOut
<1> QED
  BY <1>2, <1>6

\* A table of counts with n more in one entry.
Plus(f, x, n) == [f EXCEPT ![x] = @ + n]

\* n more in one entry of a table is n more in its sum.
LEMMA SumOfIncrement ==
    ASSUME NEW S, IsFiniteSet(S), NEW f \in [S -> Nat], NEW x \in S, NEW d \in Nat
    PROVE  SumFunction(f) \in Nat /\ SumFunction(Plus(f, x, d)) = SumFunction(f) + d
<1>1. PICK e : e = [f EXCEPT ![x] = @ + d]
  OBVIOUS
<1>2. DOMAIN f = S /\ DOMAIN e = S
  BY <1>1
<1>3. PICK g : IsSum(g, f) /\ SumFunction(f) = g[S]
  BY <1>2, SumDefined
<1>4. PICK h : IsSum(h, e) /\ SumFunction(e) = h[S]
  BY <1>2, SumDefined
<1> DEFINE T == {s \in SUBSET S : /\ g[s] \in Nat
                                  /\ h[s] = g[s] + (IF x \in s THEN d ELSE 0)}
<1>5. \A s \in SUBSET S :
         /\ g[s] = IF s = {} THEN 0 ELSE f[Taken(s)] + g[s \ {Taken(s)}]
         /\ h[s] = IF s = {} THEN 0 ELSE e[Taken(s)] + h[s \ {Taken(s)}]
  BY <1>2, <1>3, <1>4 DEF IsSum
<1>6. {} \in T
  <2>1. g[{}] = 0 /\ h[{}] = 0
    BY <1>5
  <2> QED
    BY <2>1
<1>7. ASSUME NEW s \in SUBSET S, s # {}, s \ {Taken(s)} \in T PROVE s \in T
  <2>1. PICK y \in S, u \in T : y = Taken(s) /\ y \in s /\ u = s \ {y}
    BY <1>7 DEF Taken
  <2>2. g[s] = f[y] + g[u] /\ h[s] = e[y] + h[u]
    BY <1>5, <1>7, <2>1
  <2>3. f[y] \in Nat /\ g[u] \in Nat /\ h[u] = g[u] + (IF x \in u THEN d ELSE 0)
    BY <2>1
  <2>4. CASE y = x
    <3>1. e[y] = f[y] + d /\ x \notin u /\ x \in s
      BY <1>1, <2>1, <2>4
    <3> QED
      BY <2>2, <2>3, <3>1
  <2>5. CASE y # x
    <3>1. e[y] = f[y] /\ (x \in u <=> x \in s)
      BY <1>1, <2>1, <2>5
    <3> QED
      BY <2>2, <2>3, <3>1
  <2> QED
    BY <2>4, <2>5
<1>8. \A s \in SUBSET S : s \in T
  <2> HIDE DEF T
  <2> QED
    BY <1>6, <1>7, TakeOut
<1>9. S \in T
  BY <1>8
<1> QED
  BY <1>1, <1>3, <1>4, <1>9 DEF Plus

\* Counts add up to a count.
LEMMA SumIsCount ==
    ASSUME NEW S, IsFiniteSet(S), NEW f \in [S -> Nat]
    PROVE  SumFunction(f) \in Nat
<1>1. CASE S = {}
  <2>1. f = [x \in S |-> 0]
    BY <1>1
  <2> QED
    BY <2>1, SumOfZeros
<1>2. CASE S # {}
  BY <1>2, SumOfIncrement
<1> QED
  BY <1>1, <1>2

\* What dividing with rest gives.
LEMMA Division ==
    ASSUME NEW n \in Nat, NEW d \in Nat \ {0}
    PROVE  /\ n \div d \in Nat /\ n % d \in Nat
           /\ n % d < d /\ n % d = n - d * (n \div d)
<1>1. n \div d \in Nat
  OBVIOUS
<1>2. n % d \in Nat /\ n % d < d
  OBVIOUS
<1>3. n % d = n - d * (n \div d)
  OBVIOUS
<1> QED
  BY <1>1, <1>2, <1>3

\* A smaller ratio is not rounded to a larger number: ties to even keep the order.
LEMMA RoundedMonotone ==
    ASSUME NEW n \in Nat, NEW d \in Nat \ {0}, NEW m \in Nat, NEW e \in Nat \ {0},
           n * e <= m * d
    PROVE  Rounded(n, d) <= Rounded(m, e) /\ Rounded(n, d) \in Nat
<1> DEFINE q == n \div d
           r == n % d
           p == m \div e
           s == m % e
<1>1. q \in Nat /\ r \in Nat /\ r < d /\ r = n - d * q
  BY Division
<1>2. p \in Nat /\ s \in Nat /\ s < e /\ s = m - e * p
  BY Division
<1>3. /\ Rounded(n, d) = IF 2 * r > d \/ (2 * r = d /\ q % 2 = 1) THEN q + 1 ELSE q
      /\ Rounded(m, e) = IF 2 * s > e \/ (2 * s = e /\ p % 2 = 1) THEN p + 1 ELSE p
  BY DEF Rounded
<1> HIDE DEF q, r, p, s
<1>4. q \in Nat /\ r \in Nat /\ r < d /\ n = d * q + r
  BY <1>1
<1>5. p \in Nat /\ s \in Nat /\ s < e /\ m = e * p + s
  BY <1>2
<1>6. d * e * q + r * e <= d * e * p + s * d
  BY <1>4, <1>5
<1>7. CASE q > p
  <2>1. d * e * q >= d * e * (p + 1)
    BY <1>4, <1>5, <1>7
  <2>2. d * e * (p + 1) = d * e * p + e * d
    BY <1>4, <1>5
  <2>3. s * d < e * d
    BY <1>5
  <2> QED
    BY <1>4, <1>5, <1>6, <2>1, <2>2, <2>3
<1>8. CASE q < p
  BY <1>4, <1>5, <1>3, <1>8
<1>9. CASE q = p
  <2>1. r * e <= s * d
    BY <1>4, <1>5, <1>6, <1>9
  <2>2. CASE 2 * r > d
    BY <1>4, <1>5, <1>3, <1>9, <2>1, <2>2
  <2>3. CASE 2 * r = d
    BY <1>4, <1>5, <1>3, <1>9, <2>1, <2>3
  <2>4. CASE 2 * r < d
    BY <1>4, <1>5, <1>3, <1>9, <2>4
  <2> QED
    BY <1>4, <2>2, <2>3, <2>4
<1> QED
  BY <1>4, <1>5, <1>7, <1>8, <1>9

-----------------------------------------------------------------------------
(* /analytics/threshold-test *)

\* The score of a labelled pair is a number.
LEMMA CaseScore == ASSUME NEW c \in Case PROVE c.score \in Int
<1>1. c.score \in -1000..1000
  BY DEF Case
<1>2. PICK score \in -1000..1000 : score = c.score
  BY <1>1
<1> QED
  BY <1>2

\* Counts of a confusion: what is predicted is part of what is labelled, and a
\* higher threshold predicts less.
LEMMA PredictedCounts ==
    ASSUME NEW cases \in Seq(Case), NEW t \in Int, NEW expected
    PROVE  /\ Cardinality(Predicted(cases, t, expected)) \in Nat
           /\ Cardinality(Labelled(cases, expected)) \in Nat
           /\ Cardinality(Predicted(cases, t, expected)) <= Cardinality(Labelled(cases, expected))
           /\ \A u \in Int : t <= u => Cardinality(Predicted(cases, u, expected))
                                       <= Cardinality(Predicted(cases, t, expected))
<1>1. IsFiniteSet(DOMAIN cases)
  BY FS_Interval
<1>2. Labelled(cases, expected) \subseteq DOMAIN cases
      /\ \A u \in Int : Predicted(cases, u, expected) \subseteq Labelled(cases, expected)
  BY DEF Labelled, Predicted
<1>3. IsFiniteSet(Labelled(cases, expected))
      /\ \A u \in Int : IsFiniteSet(Predicted(cases, u, expected))
  BY <1>1, <1>2, FS_Subset
<1>4. ASSUME NEW u \in Int, t <= u
      PROVE  Predicted(cases, u, expected) \subseteq Predicted(cases, t, expected)
  <2>1. \A k \in DOMAIN cases : cases[k] \in Case
    OBVIOUS
  <2>2. \A k \in DOMAIN cases : cases[k].score \in Int
    BY <2>1, CaseScore
  <2> QED
    BY <1>4, <2>2 DEF Predicted
<1> QED
  BY <1>2, <1>3, <1>4, FS_Subset, FS_CardinalityType

\* The four counts of a confusion are what their names say.
LEMMA ConfusionType ==
    ASSUME NEW cases \in Seq(Case), NEW t \in Int
    PROVE  LET c == Confusion(cases, t)
           IN  /\ c.tp \in Nat /\ c.fp \in Nat /\ c.fn \in Nat
               /\ c.tp + c.fn = Cardinality(Labelled(cases, TRUE))
<1>1. \A n, m \in Nat : m <= n => n - m \in Nat /\ m + (n - m) = n
  OBVIOUS
<1> QED
  BY <1>1, PredictedCounts DEF Confusion

\* F1 does not fall when more is found with fewer false hits, whatever the
\* rounding makes of it.
LEMMA F1Monotone ==
    ASSUME NEW c, NEW d,
           c.tp \in Nat, c.fp \in Nat, c.fn \in Nat, d.tp \in Nat, d.fp \in Nat, d.fn \in Nat,
           c.tp + c.fn = d.tp + d.fn, c.tp <= d.tp, d.fp <= c.fp
    PROVE  F1(c) <= F1(d) /\ F1(c) \in Nat /\ F1(d) \in Nat
<1> DEFINE n(x) == 20000 * x.tp
           m(x) == 2 * x.tp + x.fp + x.fn
<1>1. ASSUME c.tp > 0, d.tp > 0
      PROVE  Rounded(n(c), m(c)) <= Rounded(n(d), m(d)) /\ Rounded(n(c), m(c)) \in Nat
  <2>1. n(c) \in Nat /\ n(d) \in Nat /\ m(c) \in Nat \ {0} /\ m(d) \in Nat \ {0}
    BY <1>1
  <2>2. n(c) * m(d) <= n(d) * m(c)
    <3>1. PICK a \in Nat, b \in Nat, g \in Nat, e \in Nat, f \in Nat, h \in Nat :
             /\ a = c.tp /\ b = c.fp /\ g = c.fn
             /\ e = d.tp /\ f = d.fp /\ h = d.fn
      OBVIOUS
    <3> DEFINE total == a + g
    <3>2. m(c) = a + b + total /\ m(d) = e + f + total /\ total \in Nat
      <4>1. a + g = e + h
        BY <3>1
      <4>2. m(c) = 2 * a + b + g /\ m(d) = 2 * e + f + h
        BY <3>1
      <4> HIDE DEF m
      <4> QED
        BY <4>1, <4>2
    <3> HIDE DEF total
    <3>3. a <= e /\ f <= b
      BY <3>1
    <3>4. a * f <= e * b /\ a * total <= e * total
      BY <3>2, <3>3
    <3>5. a * (e + f + total) <= e * (a + b + total)
      BY <3>2, <3>4
    <3>6. 20000 * a * (e + f + total) <= 20000 * e * (a + b + total)
      BY <3>2, <3>5
    <3> QED
      BY <3>1, <3>2, <3>6
  <2> HIDE DEF n, m
  <2> QED
    BY <2>1, <2>2, RoundedMonotone
<1>2. ASSUME NEW x, x.tp \in Nat, x.fp \in Nat, x.fn \in Nat PROVE F1(x) \in Nat
  <2>1. CASE x.tp = 0
    BY <2>1 DEF F1
  <2>2. CASE x.tp > 0
    <3>1. n(x) \in Nat /\ m(x) \in Nat \ {0}
      BY <1>2, <2>2
    <3>2. n(x) * m(x) <= n(x) * m(x)
      BY <3>1
    <3> HIDE DEF n, m
    <3>3. Rounded(n(x), m(x)) \in Nat
      BY <3>1, <3>2, RoundedMonotone
    <3> QED
      BY <2>2, <3>3 DEF F1, n, m
  <2> QED
    BY <1>2, <2>1, <2>2
<1>3. CASE c.tp = 0
  BY <1>2, <1>3 DEF F1
<1>4. CASE c.tp > 0
  BY <1>1, <1>2, <1>4 DEF F1
<1> QED
  BY <1>3, <1>4

\* Of two thresholds, one that finds as many of the expected matches with fewer
\* false hits comes first: by its F1, by its precision when rounding hides the
\* difference, and when neither finds any because it must be the higher one.
LEMMA SaferIsBetter ==
    ASSUME NEW cases \in Seq(Case), NEW t \in Int, NEW u \in Int,
           Confusion(cases, u).tp >= Confusion(cases, t).tp,
           Confusion(cases, u).fp < Confusion(cases, t).fp
    PROVE  Better(cases, u, t)
<1> DEFINE a == Confusion(cases, u)
           b == Confusion(cases, t)
<1>1. /\ a.tp \in Nat /\ a.fp \in Nat /\ a.fn \in Nat
      /\ b.tp \in Nat /\ b.fp \in Nat /\ b.fn \in Nat
      /\ b.tp + b.fn = a.tp + a.fn /\ b.tp <= a.tp /\ a.fp < b.fp
  BY ConfusionType
<1>2. u > t
  <2>1. u <= t => b.fp <= a.fp
    BY PredictedCounts DEF Confusion
  <2> QED
    BY <1>1, <2>1
<1>3. Better(cases, u, t) <=> \/ F1(a) > F1(b)
                              \/ F1(a) = F1(b) /\ SmallerRatio(Precision(b), Precision(a))
                              \/ /\ F1(a) = F1(b) /\ ~SmallerRatio(Precision(a), Precision(b))
                                 /\ u > t
  BY DEF Better
<1> HIDE DEF a, b
<1>4. F1(b) <= F1(a) /\ F1(a) \in Nat /\ F1(b) \in Nat
  <2>1. PICK c, d : c = b /\ d = a
    OBVIOUS
  <2>2. /\ c.tp \in Nat /\ c.fp \in Nat /\ c.fn \in Nat
        /\ d.tp \in Nat /\ d.fp \in Nat /\ d.fn \in Nat
        /\ c.tp + c.fn = d.tp + d.fn
    BY <1>1, <2>1, Zenon
  <2>3. c.tp <= d.tp /\ d.fp <= c.fp
    <3>1. PICK x \in Nat, y \in Nat : x = c.fp /\ y = d.fp
      BY <2>2
    <3>2. y < x
      BY <1>1, <2>1, <3>1
    <3>3. y <= x
      BY <3>2
    <3>4. c.tp <= d.tp
      BY <1>1, <2>1, Zenon
    <3> QED
      BY <3>1, <3>3, <3>4, Zenon
  <2>4. F1(c) <= F1(d) /\ F1(c) \in Nat /\ F1(d) \in Nat
    BY <2>2, <2>3, F1Monotone, Zenon
  <2> QED
    BY <2>1, <2>4, Zenon
<1>5. ~SmallerRatio(Precision(a), Precision(b))
  <2>1. Precision(b) = IF b.tp + b.fp = 0 THEN <<0, 1>> ELSE <<b.tp, b.tp + b.fp>>
    BY DEF Precision, SafeDiv
  <2>2. Precision(b) = <<b.tp, b.tp + b.fp>>
    BY <1>1, <2>1, SMTT(30)
  <2>3. CASE a.tp + a.fp = 0
    <3>1. Precision(a) = <<0, 1>> /\ b.tp = 0
      BY <1>1, <2>3, SMTT(30) DEF Precision, SafeDiv
    <3> QED
      BY <1>1, <2>2, <3>1 DEF SmallerRatio
  <2>4. CASE a.tp + a.fp # 0
    <3>1. Precision(a) = <<a.tp, a.tp + a.fp>>
      BY <2>4 DEF Precision, SafeDiv
    <3>2. PICK x \in Nat, y \in Nat, v \in Nat, w \in Nat :
             x = a.tp /\ y = a.fp /\ v = b.tp /\ w = b.fp
      BY <1>1
    <3>3. v <= x /\ y < w
      BY <1>1, <3>2
    <3>4. v * y <= x * w
      BY <3>3
    <3>5. ~(x * (v + w) < v * (x + y))
      BY <3>4
    <3> QED
      BY <2>2, <3>1, <3>2, <3>5 DEF SmallerRatio
  <2> QED
    BY <2>3, <2>4
<1> QED
  BY <1>2, <1>3, <1>4, <1>5

-----------------------------------------------------------------------------
(* /analytics/near-misses *)

AtMost(x) == {k \in DOMAIN events : events[k].score <= x}
Under(x) == {k \in DOMAIN events : events[k].score < x}

Scores == -1000..1000
Event == [score: -1000..1000, threshold: 0..1000]
EventsTyped == events \in Seq(Event)

\* Elements of a typed sequence.
LEMMA ElementType == ASSUME NEW S, NEW q \in Seq(S), NEW k \in DOMAIN q PROVE q[k] \in S
OBVIOUS

\* The scores and thresholds of recorded events are numbers.
LEMMA EventType ==
    ASSUME EventsTyped, NEW k \in DOMAIN events
    PROVE  events[k].score \in Scores /\ events[k].score \in Int /\ events[k].threshold \in Int
<1>1. events[k] \in Event
  BY ElementType DEF EventsTyped
<1>2. events[k].score \in Scores
  BY <1>1 DEF Event, Scores
<1>3. events[k].threshold \in 0..1000
  BY <1>1 DEF Event
<1>4. events[k].score \in Int
  <2>1. PICK score \in Scores : score = events[k].score
    BY <1>2
  <2> QED
    BY <2>1 DEF Scores
<1>5. events[k].threshold \in Int
  <2>1. PICK threshold \in 0..1000 : threshold = events[k].threshold
    BY <1>3
  <2> QED
    BY <2>1
<1> QED
  BY <1>2, <1>4, <1>5, Zenon

\* Sets of events are finite and there are no more of them than events.
LEMMA EventsFinite ==
    ASSUME EventsTyped
    PROVE  /\ Len(events) \in Nat /\ Cardinality(DOMAIN events) = Len(events)
           /\ \A K \in SUBSET DOMAIN events :
                 /\ IsFiniteSet(K) /\ Cardinality(K) \in Nat
                 /\ Cardinality(DOMAIN events \ K) = Len(events) - Cardinality(K)
<1>1. Len(events) \in Nat /\ DOMAIN events = 1..Len(events)
  BY DEF EventsTyped
<1>2. IsFiniteSet(DOMAIN events) /\ Cardinality(DOMAIN events) = Len(events)
  <2>1. Cardinality(1..Len(events)) = IF 1 > Len(events) THEN 0 ELSE Len(events) - 1 + 1
    BY <1>1, FS_Interval, SMTT(30)
  <2>2. IsFiniteSet(1..Len(events))
    BY <1>1, FS_Interval
  <2> QED
    BY <1>1, <2>1, <2>2
<1>3. ASSUME NEW K \in SUBSET DOMAIN events
      PROVE  /\ IsFiniteSet(K) /\ Cardinality(K) \in Nat
             /\ Cardinality(DOMAIN events \ K) = Len(events) - Cardinality(K)
  <2>1. PICK D : D = DOMAIN events
    OBVIOUS
  <2>2. D \cap K = K /\ IsFiniteSet(D) /\ Cardinality(D) = Len(events)
    BY <1>2, <2>1
  <2>3. IsFiniteSet(K) /\ Cardinality(K) \in Nat
    BY <2>1, <2>2, FS_Subset, FS_CardinalityType
  <2>4. Cardinality(D \ K) = Cardinality(D) - Cardinality(D \cap K)
    BY <2>2, FS_Difference
  <2> QED
    BY <2>1, <2>2, <2>3, <2>4
<1> QED
  BY <1>1, <1>2, <1>3

\* sorted(scores)[k] exists: it is a score that at most k events score less than.
LEMMA OrderedSound ==
    ASSUME EventsTyped, NEW k \in Nat, k < Len(events)
    PROVE  /\ \E j \in DOMAIN events : Ordered(k) = events[j].score
           /\ Cardinality(Under(Ordered(k))) <= k
<1> DEFINE scores == {events[j].score : j \in DOMAIN events}
           reached == {s \in scores : k < Cardinality(AtMost(s))}
<1>1. scores \in SUBSET Scores /\ \A s \in scores : s \in Int
  BY EventType
<1>2. \A S \in SUBSET scores : S # {} =>
         /\ \E x \in S : \A y \in S : x <= y
         /\ \E x \in S : \A y \in S : y <= x
  <2> HIDE DEF scores
  <2>1. ASSUME NEW S \in SUBSET scores, S # {}
        PROVE  /\ \E x \in S : \A y \in S : x <= y
               /\ \E x \in S : \A y \in S : y <= x
    <3>1. PICK a \in Int, b \in Int : Scores = a..b
      <4>1. PICK a \in Int : a = -1000
        OBVIOUS
      <4>2. Scores = a..1000
        BY <4>1 DEF Scores
      <4> QED
        BY <4>2
    <3>2. S \in SUBSET Scores
      BY <1>1
    <3>3. S \in SUBSET (a..b)
      BY <3>1, <3>2
    <3> QED
      BY <2>1, <3>3, Least, Greatest
  <2> QED
    BY <2>1
<1>3. \A x : AtMost(x) \in SUBSET DOMAIN events /\ Under(x) \in SUBSET DOMAIN events
  BY DEF AtMost, Under
<1>4. reached # {}
  <2>1. scores # {}
    <3>1. 1 \in DOMAIN events
      BY DEF EventsTyped
    <3> QED
      BY <3>1
  <2>2. PICK x \in scores : \A y \in scores : y <= x
    <3> HIDE DEF scores
    <3> QED
      BY <1>2, <2>1
  <2>3. AtMost(x) = DOMAIN events
    BY <2>2 DEF AtMost
  <2> QED
    BY <2>3, EventsFinite
<1>5. PICK s \in reached : \A y \in reached : s <= y
  <2>1. reached \in SUBSET scores
    OBVIOUS
  <2> HIDE DEF reached, scores
  <2> QED
    BY <1>2, <1>4, <2>1
<1>6. Cardinality(Under(s)) <= k
  <2> DEFINE lower == {x \in scores : x < s}
  <2>1. CASE lower = {}
    <3>1. Under(s) = {}
      BY <2>1 DEF Under
    <3> QED
      BY <3>1, FS_EmptySet
  <2>2. CASE lower # {}
    <3>1. PICK x \in lower : \A y \in lower : y <= x
      <4>1. lower \in SUBSET scores
        OBVIOUS
      <4> HIDE DEF lower, scores
      <4> QED
        BY <1>2, <2>2, <4>1
    <3>2. x \in scores /\ x < s /\ x \in Int /\ s \in Int
      BY <1>1, <1>5, <3>1
    <3>3. Under(s) = AtMost(x)
      <4>1. ASSUME NEW j \in DOMAIN events PROVE events[j].score < s <=> events[j].score <= x
        <5>1. events[j].score \in scores /\ events[j].score \in Int
          BY EventType
        <5>2. events[j].score < s => events[j].score <= x
          BY <3>1, <5>1
        <5> QED
          BY <3>2, <5>1, <5>2
      <4> QED
        BY <4>1 DEF Under, AtMost
    <3>4. ~(s <= x)
      BY <3>2
    <3>5. x \notin reached
      BY <1>5, <3>4
    <3>6. ~(k < Cardinality(AtMost(x)))
      BY <3>2, <3>5
    <3>7. Cardinality(AtMost(x)) \in Nat
      BY <1>3, EventsFinite
    <3> QED
      BY <3>3, <3>6, <3>7
  <2> QED
    BY <2>1, <2>2
<1>7. Ordered(k) = CHOOSE x \in scores : /\ Cardinality(Under(x)) <= k
                                         /\ k < Cardinality(AtMost(x))
  BY DEF Ordered, EventsWith, Under, AtMost
<1>8. s \in scores /\ k < Cardinality(AtMost(s))
  BY <1>5
<1>9. Ordered(k) \in scores /\ Cardinality(Under(Ordered(k))) <= k
  <2> HIDE DEF scores
  <2> QED
    BY <1>6, <1>7, <1>8
<1> QED
  BY <1>9

\* The 25th percentile leaves a quarter of the events under it at most.
LEMMA QuarterUnder ==
    ASSUME NEW n \in Nat \ {0}, Len(events) = n
    PROVE  Rank25 \in Nat /\ Rank25 < n /\ 4 * Rank25 <= n
BY DEF Rank25

\* Every event of the window fell short of its threshold.
EventsMissed == \A k \in DOMAIN events : events[k].score < events[k].threshold

\* The recommendation recovers what it promises, whatever is in the window.
LEMMA MostRecovered == EventsTyped /\ EventsMissed => RecoversMost
<1> SUFFICES ASSUME EventsTyped, EventsMissed, RecommendedThreshold # NoRecommendation
             PROVE  /\ 4 * EventsWith(LAMBDA s : s >= RecommendedThreshold) >= 3 * Len(events)
                    /\ \E k \in DOMAIN events : RecommendedThreshold < events[k].threshold
  BY DEF RecoversMost
<1> DEFINE p == Ordered(Rank25)
<1>1. Len(events) \in Nat \ {0} /\ RecommendedThreshold = p - 5
  BY EventsFinite, MinSamplesAssumption DEF RecommendedThreshold
<1>2. Rank25 \in Nat /\ Rank25 < Len(events) /\ 4 * Rank25 <= Len(events)
  BY <1>1, QuarterUnder
<1>3. PICK j \in DOMAIN events : p = events[j].score
  BY <1>2, OrderedSound
<1>4. Cardinality(Under(p)) <= Rank25
  BY <1>2, OrderedSound
<1>5. p \in Int
  BY <1>3, EventType
<1> DEFINE recovered == {k \in DOMAIN events : events[k].score >= RecommendedThreshold}
<1>6. 4 * Cardinality(recovered) >= 3 * Len(events)
  <2>1. DOMAIN events \ Under(p) \subseteq recovered
    <3> HIDE DEF p
    <3> QED
      BY <1>1, <1>5, EventType DEF Under
  <2>2. IsFiniteSet(recovered) /\ Cardinality(recovered) \in Nat
    BY EventsFinite
  <2>3. Cardinality(DOMAIN events \ Under(p)) <= Cardinality(recovered)
    BY <2>1, <2>2, FS_Subset
  <2>4. /\ Cardinality(Under(p)) \in Nat
        /\ Cardinality(DOMAIN events \ Under(p)) = Len(events) - Cardinality(Under(p))
    BY EventsFinite DEF Under
  <2> HIDE DEF recovered, p
  <2> QED
    BY <1>1, <1>2, <1>4, <2>2, <2>3, <2>4
<1>7. RecommendedThreshold < events[j].threshold
  <2> HIDE DEF p
  <2> QED
    BY <1>1, <1>3, <1>5, EventType DEF EventsMissed
<1> QED
  BY <1>6, <1>7 DEF EventsWith

-----------------------------------------------------------------------------
(* The collectors *)

Collectors ==
    [hits: [Label -> Nat], misses: [Label -> Nat], total: Nat, total_hits: Nat,
     hit_rate: Fraction, by_provider: [Provider -> Nat], by_model: [Model -> Nat],
     similarity: [SimilarityBucket -> Nat], lookup_latency: Nat,
     provider_latency: [Provider -> Nat], cost_saved: Nat, tokens_saved: Nat,
     cache_size: Nat, accuracy: Fraction, drift_rate: Fraction,
     false_hit_rate: Fraction]

\* A ratio of counts has a denominator.
LEMMA RatioType ==
    ASSUME NEW n \in Nat, NEW d \in Nat PROVE Ratio(n, d) \in Fraction
BY DEF Ratio, Fraction

\* One more in one place is still a table of counts.
LEMMA AddType ==
    ASSUME NEW S, NEW f \in [S -> Nat], NEW x, NEW n \in Nat
    PROVE  [f EXCEPT ![x] = @ + n] \in [S -> Nat]
<1>1. \A y \in S : f[y] + n \in Nat
  OBVIOUS
<1>2. [f EXCEPT ![x] = @ + n] = [y \in S |-> IF y = x THEN f[y] + n ELSE f[y]]
  OBVIOUS
<1> QED
  BY <1>1, <1>2

\* What each method of CacheMetrics writes keeps the collectors' types.
LEMMA CountLookupType ==
    ASSUME NEW c \in Collectors, NEW status, NEW p \in Provider, NEW m \in Model, NEW s
    PROVE  CountLookup(c, status, p, m, s) \in Collectors
<1> DEFINE hit == IF status = "HIT" THEN 1 ELSE 0
<1>1. hit \in Nat /\ 1 - hit \in Nat
  OBVIOUS
<1> HIDE DEF hit
<1>2. /\ [c.hits EXCEPT ![<<p, m>>] = @ + hit] \in [Label -> Nat]
      /\ [c.misses EXCEPT ![<<p, m>>] = @ + (1 - hit)] \in [Label -> Nat]
      /\ [c.by_provider EXCEPT ![p] = @ + 1] \in [Provider -> Nat]
      /\ [c.by_model EXCEPT ![m] = @ + 1] \in [Model -> Nat]
      /\ [c.similarity EXCEPT ![BucketOf(s)] = @ + 1] \in [SimilarityBucket -> Nat]
  BY <1>1, AddType DEF Collectors
<1>3. Ratio(c.total_hits + hit, c.total + 1) \in Fraction
      /\ c.total_hits + hit \in Nat /\ c.total + 1 \in Nat /\ c.lookup_latency + 1 \in Nat
  BY <1>1, RatioType DEF Collectors
<1> QED
  BY <1>1, <1>2, <1>3, ZenonT(120) DEF CountLookup, Collectors, hit

LEMMA CountSavingsType ==
    ASSUME NEW c \in Collectors, NEW m \in Model, NEW prompt \in Nat, NEW completion \in Nat
    PROVE  CountSavings(c, m, prompt, completion) \in Collectors
<1>1. PriceOf(m) \in Price
  BY PricingAssumption DEF PriceOf, FallbackPrice, Price
<1>2. PICK a \in Nat, b \in Nat : a = PriceOf(m).input /\ b = PriceOf(m).output
  BY <1>1 DEF Price
<1>3. prompt * a \in Nat /\ completion * b \in Nat
  OBVIOUS
<1>4. c.cost_saved + prompt * a + completion * b \in Nat
      /\ c.tokens_saved + prompt + completion \in Nat
  BY <1>3 DEF Collectors
<1>5. CountSavings(c, m, prompt, completion) =
        [c EXCEPT !.cost_saved = c.cost_saved + prompt * a + completion * b,
                  !.tokens_saved = c.tokens_saved + prompt + completion]
  BY <1>2 DEF CountSavings, Collectors
<1> QED
  BY <1>4, <1>5, ZenonT(30) DEF Collectors

LEMMA CountLatencyType ==
    ASSUME NEW c \in Collectors, NEW p \in Provider
    PROVE  CountProviderLatency(c, p) \in Collectors
<1>1. [c.provider_latency EXCEPT ![p] = @ + 1] \in [Provider -> Nat]
  BY AddType DEF Collectors
<1> QED
  BY <1>1 DEF CountProviderLatency, Collectors

\* The rates /analytics/validation reports are fractions while no more false
\* hits than replays have been counted.
LEMMA RatesType ==
    ASSUME NEW v \in [validations: Nat, drift: Nat, false_hits: Nat],
           v.false_hits <= v.validations
    PROVE  Accuracy(v) \in Fraction /\ DriftRate(v) \in Fraction /\ FalseHitRate(v) \in Fraction
<1>1. DriftRate(v) \in Fraction /\ FalseHitRate(v) \in Fraction
  BY RatioType DEF DriftRate, FalseHitRate
<1>2. Accuracy(v) \in Fraction
  BY DEF Accuracy, Fraction
<1> QED
  BY <1>1, <1>2
-----------------------------------------------------------------------------
(* The sums of a scrape *)

\* The lookups of each series, and the series of one provider or of one model.
LookedUp(c) == [l \in Label |-> c.hits[l] + c.misses[l]]
OfProvider(f, p) == [m \in Model |-> f[<<p, m>>]]
OfModel(f, m) == [p \in Provider |-> f[<<p, m>>]]

\* ScrapeAddsUp of collectors c while waiting(p) misses of p await their answer.
AddsUp(c, waiting) ==
    /\ c.total = SumFunction(LookedUp(c))
    /\ c.total = SumFunction(c.similarity)
    /\ c.total = c.lookup_latency
    /\ \A p \in Provider :
          /\ c.by_provider[p] = SumFunction(OfProvider(LookedUp(c), p))
          /\ c.provider_latency[p] + waiting[p] <= SumFunction(OfProvider(c.misses, p))
    /\ \A m \in Model : c.by_model[m] = SumFunction(OfModel(LookedUp(c), m))
    /\ c.total_hits = SumFunction(c.hits)
    /\ c.hit_rate = Ratio(c.total_hits, c.total)

\* Every sum of a scrape is over a finite set of series.
LEMMA SeriesFinite ==
    /\ IsFiniteSet(Provider) /\ IsFiniteSet(Model) /\ IsFiniteSet(Label)
    /\ IsFiniteSet(SimilarityBucket)
<1>1. IsFiniteSet(Label)
  BY SeriesAssumption, FS_Product DEF Label
<1>2. IsFiniteSet(SimilarityBucket)
  <2>1. PICK a \in Int, b \in Int : a = 0 /\ b = 1001
    OBVIOUS
  <2>2. SimilarityBucket \subseteq a..b
    BY <2>1 DEF SimilarityBucket
  <2>3. IsFiniteSet(a..b)
    BY FS_Interval
  <2> QED
    BY <2>3, <2>2, FS_Subset
<1> QED
  BY <1>1, <1>2, SeriesAssumption

\* Every similarity a lookup can report falls in a bucket.
LEMMA BucketExists ==
    ASSUME NEW s \in Int, s <= 1001 PROVE BucketOf(s) \in SimilarityBucket
<1> DEFINE B == {b \in SimilarityBucket : s <= b}
<1>1. PICK a \in Int, u \in Int : a = 0 /\ u = 1001
  OBVIOUS
<1>2. B \in SUBSET (a..u) /\ B # {}
  BY <1>1 DEF SimilarityBucket
<1>3. PICK b \in B : \A c \in B : b <= c
  <2> HIDE DEF B
  <2> QED
    BY <1>2, Least, ZenonT(30)
<1>4. s <= b /\ \A c \in SimilarityBucket : s <= c => b <= c
  BY <1>3
<1> QED
  BY <1>3, <1>4 DEF BucketOf

\* One more in a series is one more for its provider and for its model only.
LEMMA SeriesOfIncrement ==
    ASSUME NEW f \in [Label -> Nat], NEW p \in Provider, NEW m \in Model, NEW n \in Nat
    PROVE  /\ \A q \in Provider : OfProvider(f, q) \in [Model -> Nat]
           /\ \A k \in Model : OfModel(f, k) \in [Provider -> Nat]
           /\ OfProvider(Plus(f, <<p, m>>, n), p) = Plus(OfProvider(f, p), m, n)
           /\ OfModel(Plus(f, <<p, m>>, n), m) = Plus(OfModel(f, m), p, n)
           /\ \A q \in Provider \ {p} : OfProvider(Plus(f, <<p, m>>, n), q) = OfProvider(f, q)
           /\ \A k \in Model \ {m} : OfModel(Plus(f, <<p, m>>, n), k) = OfModel(f, k)
<1>1. \A q \in Provider, k \in Model : <<q, k>> \in Label
  BY DEF Label
<1>2. \A q \in Provider, k \in Model :
         Plus(f, <<p, m>>, n)[<<q, k>>] =
           IF q = p /\ k = m THEN f[<<q, k>>] + n ELSE f[<<q, k>>]
  BY <1>1 DEF Plus
<1>3. \A q \in Provider : OfProvider(f, q) \in [Model -> Nat]
  BY <1>1 DEF OfProvider
<1>4. \A k \in Model : OfModel(f, k) \in [Provider -> Nat]
  BY <1>1 DEF OfModel
<1>5. PICK e : e = Plus(f, <<p, m>>, n)
  OBVIOUS
<1>6. \A q \in Provider, k \in Model :
         e[<<q, k>>] = IF q = p /\ k = m THEN f[<<q, k>>] + n ELSE f[<<q, k>>]
  BY <1>2, <1>5
<1>7. OfProvider(e, p) = Plus(OfProvider(f, p), m, n)
  BY <1>6 DEF OfProvider, Plus
<1>8. OfModel(e, m) = Plus(OfModel(f, m), p, n)
  BY <1>6 DEF OfModel, Plus
<1>9. \A q \in Provider \ {p} : OfProvider(e, q) = OfProvider(f, q)
  BY <1>6 DEF OfProvider
<1>10. \A k \in Model \ {m} : OfModel(e, k) = OfModel(f, k)
  BY <1>6 DEF OfModel
<1> QED
  BY <1>3, <1>4, <1>5, <1>7, <1>8, <1>9, <1>10

\* d is c with one more lookup, a hit when hit is 1.
Counted(c, d, hit, p, m, s) ==
    /\ d.hits = Plus(c.hits, <<p, m>>, hit)
    /\ d.misses = Plus(c.misses, <<p, m>>, 1 - hit)
    /\ d.by_provider = Plus(c.by_provider, p, 1)
    /\ d.by_model = Plus(c.by_model, m, 1)
    /\ d.similarity = Plus(c.similarity, BucketOf(s), 1)
    /\ d.total = c.total + 1 /\ d.total_hits = c.total_hits + hit
    /\ d.lookup_latency = c.lookup_latency + 1
    /\ d.hit_rate = Ratio(c.total_hits + hit, c.total + 1)
    /\ d.provider_latency = c.provider_latency
    /\ d.accuracy = c.accuracy /\ d.drift_rate = c.drift_rate
    /\ d.false_hit_rate = c.false_hit_rate

LEMMA LookupCounted ==
    ASSUME NEW c \in Collectors, NEW status, NEW p \in Provider, NEW m \in Model, NEW s
    PROVE  \E hit \in 0..1 : /\ hit = IF status = "HIT" THEN 1 ELSE 0
                             /\ Counted(c, CountLookup(c, status, p, m, s), hit, p, m, s)
<1>1. PICK hit \in 0..1 : hit = IF status = "HIT" THEN 1 ELSE 0
  OBVIOUS
<1>2. [c.misses EXCEPT ![<<p, m>>] = @ + 1 - hit] = [c.misses EXCEPT ![<<p, m>>] = @ + (1 - hit)]
  <2>1. c.misses \in [Label -> Nat] /\ <<p, m>> \in Label
    BY DEF Collectors, Label
  <2>2. c.misses[<<p, m>>] + 1 - hit = c.misses[<<p, m>>] + (1 - hit)
    BY <2>1
  <2> QED
    BY <2>2
<1>3. Counted(c, CountLookup(c, status, p, m, s), hit, p, m, s)
  BY <1>1, <1>2 DEF CountLookup, Collectors, Counted, Plus
<1> QED
  BY <1>1, <1>3

\* A lookup keeps the sums; a miss of a buffered request also waits.
LEMMA LookupAddsUp ==
    ASSUME NEW c \in Collectors, NEW waiting \in [Provider -> Nat], AddsUp(c, waiting),
           NEW status, NEW p \in Provider, NEW m \in Model, NEW s \in Int, s <= 1001,
           NEW more \in 0..1, status = "HIT" => more = 0
    PROVE  AddsUp(CountLookup(c, status, p, m, s), Plus(waiting, p, more))
<1>1. PICK d : d = CountLookup(c, status, p, m, s)
  OBVIOUS
<1>2. PICK hit \in 0..1 : hit = (IF status = "HIT" THEN 1 ELSE 0) /\ Counted(c, d, hit, p, m, s)
  BY <1>1, LookupCounted
<1>3. PICK miss \in Nat : miss = 1 - hit /\ more <= miss
  BY <1>2
<1>4. /\ c.hits \in [Label -> Nat] /\ c.misses \in [Label -> Nat] /\ <<p, m>> \in Label
      /\ c.by_provider \in [Provider -> Nat] /\ c.by_model \in [Model -> Nat]
      /\ c.similarity \in [SimilarityBucket -> Nat] /\ c.provider_latency \in [Provider -> Nat]
      /\ c.total \in Nat
  BY DEF Collectors, Label
<1>5. LookedUp(c) \in [Label -> Nat] /\ LookedUp(d) = Plus(LookedUp(c), <<p, m>>, 1)
  <2>1. \A l \in Label : c.hits[l] \in Nat /\ c.misses[l] \in Nat
    BY <1>4
  <2>2. \A l \in Label : d.hits[l] + d.misses[l] =
           IF l = <<p, m>> THEN (c.hits[l] + c.misses[l]) + 1 ELSE c.hits[l] + c.misses[l]
    <3> SUFFICES ASSUME NEW l \in Label
                 PROVE  d.hits[l] + d.misses[l] =
                           IF l = <<p, m>> THEN (c.hits[l] + c.misses[l]) + 1
                           ELSE c.hits[l] + c.misses[l]
      OBVIOUS
    <3>1. PICK x \in [Label -> Nat], y \in [Label -> Nat] : x = c.hits /\ y = c.misses
      BY <1>4
    <3>2. d.hits = Plus(x, <<p, m>>, hit) /\ d.misses = Plus(y, <<p, m>>, miss)
      BY <1>2, <1>3, <3>1 DEF Counted
    <3>3. /\ d.hits[l] = IF l = <<p, m>> THEN x[l] + hit ELSE x[l]
          /\ d.misses[l] = IF l = <<p, m>> THEN y[l] + miss ELSE y[l]
      BY <3>2 DEF Plus
    <3>4. PICK v \in Nat, w \in Nat : v = x[l] /\ w = y[l]
      OBVIOUS
    <3>5. hit \in Nat /\ hit + miss = 1
      BY <1>2, <1>3
    <3>6. (v + hit) + (w + miss) = (v + w) + 1
      BY <3>5
    <3> QED
      BY <3>1, <3>3, <3>4, <3>6
  <2>3. LookedUp(d) = [l \in Label |->
           IF l = <<p, m>> THEN LookedUp(c)[l] + 1 ELSE LookedUp(c)[l]]
    BY <2>2 DEF LookedUp
  <2>4. LookedUp(c) \in [Label -> Nat]
    BY <2>1 DEF LookedUp
  <2> QED
    BY <2>3, <2>4, ZenonT(30) DEF Plus
<1>6. /\ \A q \in Provider : OfProvider(LookedUp(c), q) \in [Model -> Nat]
      /\ OfProvider(LookedUp(d), p) = Plus(OfProvider(LookedUp(c), p), m, 1)
      /\ \A q \in Provider \ {p} : OfProvider(LookedUp(d), q) = OfProvider(LookedUp(c), q)
  <2>1. PICK x \in [Label -> Nat], n \in Nat : x = LookedUp(c) /\ n = 1
    BY <1>5
  <2>2. LookedUp(d) = Plus(x, <<p, m>>, n)
    BY <1>5, <2>1
  <2>3. /\ \A q \in Provider : OfProvider(x, q) \in [Model -> Nat]
        /\ OfProvider(Plus(x, <<p, m>>, n), p) = Plus(OfProvider(x, p), m, n)
        /\ \A q \in Provider \ {p} : OfProvider(Plus(x, <<p, m>>, n), q) = OfProvider(x, q)
    BY SeriesOfIncrement
  <2> QED
    BY <2>1, <2>2, <2>3
<1>7. /\ \A k \in Model : OfModel(LookedUp(c), k) \in [Provider -> Nat]
      /\ OfModel(LookedUp(d), m) = Plus(OfModel(LookedUp(c), m), p, 1)
      /\ \A k \in Model \ {m} : OfModel(LookedUp(d), k) = OfModel(LookedUp(c), k)
  <2>1. PICK x \in [Label -> Nat], n \in Nat : x = LookedUp(c) /\ n = 1
    BY <1>5
  <2>2. LookedUp(d) = Plus(x, <<p, m>>, n)
    BY <1>5, <2>1
  <2>3. /\ \A k \in Model : OfModel(x, k) \in [Provider -> Nat]
        /\ OfModel(Plus(x, <<p, m>>, n), m) = Plus(OfModel(x, m), p, n)
        /\ \A k \in Model \ {m} : OfModel(Plus(x, <<p, m>>, n), k) = OfModel(x, k)
    BY SeriesOfIncrement
  <2> QED
    BY <2>1, <2>2, <2>3
<1>8. /\ \A q \in Provider : OfProvider(c.misses, q) \in [Model -> Nat]
      /\ OfProvider(d.misses, p) = Plus(OfProvider(c.misses, p), m, miss)
      /\ \A q \in Provider \ {p} : OfProvider(d.misses, q) = OfProvider(c.misses, q)
  <2>1. PICK x \in [Label -> Nat] : x = c.misses
    BY <1>4
  <2>2. d.misses = Plus(x, <<p, m>>, miss)
    BY <1>2, <1>3, <2>1 DEF Counted
  <2> QED
    BY <2>1, <2>2, SeriesOfIncrement
<1>9. d.total = SumFunction(LookedUp(d))
  <2>1. SumFunction(LookedUp(d)) = SumFunction(LookedUp(c)) + 1
    <3>1. PICK x \in [Label -> Nat], l \in Label, n \in Nat :
             x = LookedUp(c) /\ l = <<p, m>> /\ n = 1
      BY <1>4, <1>5
    <3>2. SumFunction(Plus(x, l, n)) = SumFunction(x) + n
      BY SeriesFinite, SumOfIncrement
    <3> QED
      BY <1>5, <3>1, <3>2
  <2> QED
    BY <1>2, <2>1, ZenonT(30) DEF AddsUp, Counted
<1>10. d.total = SumFunction(d.similarity)
  <2>1. PICK b \in SimilarityBucket : b = BucketOf(s)
    BY BucketExists
  <2>2. SumFunction(Plus(c.similarity, b, 1)) = SumFunction(c.similarity) + 1
    <3>1. PICK x \in [SimilarityBucket -> Nat], n \in Nat : x = c.similarity /\ n = 1
      BY <1>4
    <3>2. SumFunction(Plus(x, b, n)) = SumFunction(x) + n
      BY SeriesFinite, SumOfIncrement
    <3> QED
      BY <3>1, <3>2
  <2> QED
    BY <1>2, <2>1, <2>2 DEF AddsUp, Counted
<1>11. d.total_hits = SumFunction(d.hits)
  BY <1>2, <1>4, SeriesFinite, SumOfIncrement DEF AddsUp, Counted
<1>12. ASSUME NEW q \in Provider
      PROVE  d.by_provider[q] = SumFunction(OfProvider(LookedUp(d), q))
  <2>1. CASE q # p
    <3>1. q \in Provider \ {p}
      BY <2>1
    <3>2. OfProvider(LookedUp(d), q) = OfProvider(LookedUp(c), q)
      BY <1>6, <3>1
    <3>3. d.by_provider[q] = c.by_provider[q]
      BY <1>2, <1>4, <2>1 DEF Counted, Plus
    <3> QED
      BY <3>2, <3>3 DEF AddsUp
  <2>2. CASE q = p
    <3>1. /\ OfProvider(LookedUp(c), p) \in [Model -> Nat]
          /\ OfProvider(LookedUp(d), p) = Plus(OfProvider(LookedUp(c), p), m, 1)
      BY <1>6
    <3>2. d.by_provider[p] = c.by_provider[p] + 1
      BY <1>2, <1>4 DEF Counted, Plus
    <3> QED
      BY <2>2, <3>1, <3>2, SeriesFinite, SumOfIncrement DEF AddsUp
  <2> QED
    BY <2>1, <2>2
<1>13. ASSUME NEW q \in Provider
       PROVE  d.provider_latency[q] + Plus(waiting, p, more)[q]
                <= SumFunction(OfProvider(d.misses, q))
  <2>1. d.provider_latency[q] = c.provider_latency[q]
    BY <1>2 DEF Counted
  <2>2. CASE q # p
    <3>1. OfProvider(d.misses, q) = OfProvider(c.misses, q)
      BY <1>8, <2>2
    <3>2. Plus(waiting, p, more)[q] = waiting[q]
      BY <2>2 DEF Plus
    <3> QED
      BY <2>1, <3>1, <3>2 DEF AddsUp
  <2>3. CASE q = p
    <3>1. /\ OfProvider(c.misses, p) \in [Model -> Nat]
          /\ OfProvider(d.misses, p) = Plus(OfProvider(c.misses, p), m, miss)
      BY <1>8
    <3>2. PICK n \in Nat, a \in Nat, b \in Nat :
             n = SumFunction(OfProvider(c.misses, p)) /\ a = c.provider_latency[p] /\ b = waiting[p]
      BY <1>4, <3>1, SeriesFinite, SumOfIncrement
    <3>3. SumFunction(OfProvider(d.misses, p)) = n + miss
      BY <1>3, <3>1, <3>2, SeriesFinite, SumOfIncrement
    <3>4. a + b <= n
      BY <3>2 DEF AddsUp
    <3>5. Plus(waiting, p, more)[p] = b + more
      BY <3>2 DEF Plus
    <3> QED
      BY <1>3, <2>1, <2>3, <3>2, <3>3, <3>4, <3>5
  <2> QED
    BY <2>2, <2>3
<1>14. ASSUME NEW k \in Model
       PROVE  d.by_model[k] = SumFunction(OfModel(LookedUp(d), k))
  <2>1. CASE k # m
    <3>1. k \in Model \ {m}
      BY <2>1
    <3>2. OfModel(LookedUp(d), k) = OfModel(LookedUp(c), k)
      BY <1>7, <3>1
    <3>3. d.by_model[k] = c.by_model[k]
      BY <1>2, <1>4, <2>1 DEF Counted, Plus
    <3> QED
      BY <3>2, <3>3 DEF AddsUp
  <2>2. CASE k = m
    <3>1. /\ OfModel(LookedUp(c), m) \in [Provider -> Nat]
          /\ OfModel(LookedUp(d), m) = Plus(OfModel(LookedUp(c), m), p, 1)
      BY <1>7
    <3>2. d.by_model[m] = c.by_model[m] + 1
      BY <1>2, <1>4 DEF Counted, Plus
    <3> QED
      BY <2>2, <3>1, <3>2, SeriesFinite, SumOfIncrement DEF AddsUp
  <2> QED
    BY <2>1, <2>2
<1>15. d.total = d.lookup_latency /\ d.hit_rate = Ratio(d.total_hits, d.total)
  BY <1>2 DEF AddsUp, Counted
<1> QED
  BY <1>1, <1>9, <1>10, <1>11, <1>12, <1>13, <1>14, <1>15 DEF AddsUp

-----------------------------------------------------------------------------
(* The inductive invariant *)

\* No replay is a false hit without being counted.
FalseHitsCounted == validation.false_hits <= validation.validations

\* The last answer of /analytics/threshold-test is the best of its candidates.
AnswerIsBest ==
    answer # None =>
        /\ answer.cases \in Seq(Case) /\ answer.thresholds \subseteq Int
        /\ \A u \in answer.thresholds : ~Better(answer.cases, u, answer.recommended)

\* The type invariant, with its sets by name.
TypeInv ==
    /\ EventsTyped /\ Len(events) <= NearMissCapacity
    /\ collectors \in Collectors
    /\ ValidationTypeOK
    /\ awaiting \in [Provider -> Nat] /\ replays \in Nat
    /\ answer # None => answer.recommended \in answer.thresholds \cap Int

LEMMA TypeParts == TypeOK <=> TypeInv
BY DEF TypeOK, TypeInv, EventsTyped, Event, Collectors

IInv == TypeInv /\ EventsMissed /\ FalseHitsCounted /\ AnswerIsBest

\* What a lookup is made of.
LEMMA LookupType ==
    ASSUME NEW l \in Lookups
    PROVE  /\ l.provider \in Provider /\ l.model \in Model
           /\ l.threshold \in 0..1000 /\ l.threshold \in Int
           /\ l.score # None => l.score \in Scores
           /\ l.prompt_tokens \in Nat /\ l.completion_tokens \in Nat
<1>1. l \in Lookup
  BY AnalyticsAssumption
<1> QED
  BY <1>1, SMTT(30) DEF Lookup, Scores

\* Recording keeps a suffix of the events and adds the new one.
LEMMA RecordKeeps ==
    ASSUME NEW S, events \in Seq(S), Len(events) <= NearMissCapacity, NEW e \in S, Record(e)
    PROVE  /\ events' \in Seq(S) /\ Len(events') <= NearMissCapacity
           /\ \A k \in DOMAIN events' :
                 events'[k] = e \/ \E j \in DOMAIN events : events'[k] = events[j]
<1>1. CASE NearMissCapacity = 0
  BY <1>1 DEF Record
<1>2. CASE NearMissCapacity # 0 /\ Len(events) < NearMissCapacity
  BY <1>2, NearMissAssumption DEF Record
<1>3. CASE NearMissCapacity # 0 /\ ~(Len(events) < NearMissCapacity)
  <2>1. events # <<>>
    BY <1>3, NearMissAssumption
  <2>2. /\ Tail(events) \in Seq(S) /\ Len(Tail(events)) = Len(events) - 1
        /\ \A j \in 1..Len(Tail(events)) : Tail(events)[j] = events[j + 1]
    BY <2>1
  <2>3. events' = Append(Tail(events), e)
    BY <1>3 DEF Record
  <2>4. events' \in Seq(S) /\ Len(events') <= NearMissCapacity
    BY <2>2, <2>3, NearMissAssumption
  <2>5. \A k \in DOMAIN events' :
           events'[k] = e \/ \E j \in DOMAIN events : events'[k] = events[j]
    BY <2>2, <2>3
  <2> QED
    BY <2>4, <2>5
<1> QED
  BY <1>1, <1>2, <1>3

\* The window grows by one event at most.
LEMMA RecordGrows ==
    ASSUME NEW S, events \in Seq(S), NEW e, Record(e)
    PROVE  Len(events') <= Len(events) + 1
<1>1. CASE NearMissCapacity = 0
  BY <1>1 DEF Record
<1>2. CASE NearMissCapacity # 0 /\ Len(events) < NearMissCapacity
  <2>1. events' = Append(events, e)
    BY <1>2 DEF Record
  <2>2. Append(events, e) \in Seq(S \cup {e})
    OBVIOUS
  <2> QED
    BY <2>1, <2>2
<1>3. CASE NearMissCapacity # 0 /\ ~(Len(events) < NearMissCapacity)
  <2>1. events' = Append(Tail(events), e)
    BY <1>3 DEF Record
  <2>2. events # <<>>
    BY <1>3, NearMissAssumption
  <2>3. Tail(events) \in Seq(S) /\ Len(Tail(events)) = Len(events) - 1
    BY <2>2
  <2> QED
    BY <2>1, <2>3
<1> QED
  BY <1>1, <1>2, <1>3

\* Nothing is better than what is recommended.
LEMMA RecommendedIsBest ==
    ASSUME NEW cases, NEW thresholds, thresholds # {}, NEW reply \in Evaluate(cases, thresholds)
    PROVE  /\ reply.cases = cases /\ reply.thresholds = thresholds
           /\ reply.recommended \in thresholds
           /\ \A u \in thresholds : ~Better(cases, u, reply.recommended)
BY DEF Evaluate, Recommended

LEMMA IInvInit == Init => IInv
<1> SUFFICES ASSUME Init PROVE IInv
  OBVIOUS
<1>1. collectors \in Collectors
  BY DEF Init, MonitoringInit, Collectors, Fraction
<1>2. validation = [validations |-> 0, drift |-> 0, false_hits |-> 0] /\ events = <<>>
      /\ awaiting = [p \in Provider |-> 0] /\ replays = 0 /\ answer = None
  BY DEF Init, ValidationInit, NearMissInit
<1>3. TypeInv
  BY <1>1, <1>2, NearMissAssumption DEF TypeInv, EventsTyped, ValidationTypeOK
<1> QED
  BY <1>2, <1>3 DEF IInv, EventsMissed, FalseHitsCounted, AnswerIsBest

\* What a step that records no near miss and posts no test has to show.
LEMMA Unaffected ==
    ASSUME IInv, events' = events, answer' = None \/ answer' = answer,
           collectors' \in Collectors, ValidationTypeOK', FalseHitsCounted',
           awaiting' \in [Provider -> Nat], replays' \in Nat
    PROVE  IInv'
<1>1. TypeInv'
  BY DEF IInv, TypeInv, EventsTyped
<1> QED
  BY <1>1 DEF IInv, EventsMissed, AnswerIsBest

LEMMA HitInv == ASSUME IInv, NEW l \in Lookups, Hit(l) PROVE IInv'
<1>1. collectors' \in Collectors
  <2> DEFINE c == CountLookup(collectors, "HIT", l.provider, l.model, ScoreOf(l))
  <2>1. c \in Collectors
    BY LookupType, CountLookupType DEF IInv, TypeInv
  <2>2. collectors' = CountSavings(c, l.model, l.prompt_tokens, l.completion_tokens)
    BY DEF Hit
  <2> HIDE DEF c
  <2> QED
    BY <2>1, <2>2, LookupType, CountSavingsType
<1>2. replays' \in Nat
  BY DEF Hit, IInv, TypeInv
<1> QED
  BY <1>1, <1>2, Unaffected DEF Hit, IInv, TypeInv, ValidationTypeOK, FalseHitsCounted

LEMMA MissInv == ASSUME IInv, NEW l \in Lookups, Miss(l) PROVE IInv'
<1>1. collectors' \in Collectors
  BY LookupType, CountLookupType DEF Miss, IInv, TypeInv
<1>2. awaiting' \in [Provider -> Nat]
  <2>1. [awaiting EXCEPT ![l.provider] = @ + 1] \in [Provider -> Nat]
    BY AddType DEF IInv, TypeInv
  <2> QED
    BY <2>1 DEF Miss, IInv, TypeInv
<1>3. CASE ~IsNearMiss(l)
  BY <1>1, <1>2, <1>3, Unaffected DEF Miss, IInv, TypeInv, ValidationTypeOK, FalseHitsCounted
<1>4. CASE IsNearMiss(l)
  <2>1. PICK e : e = [score |-> l.score, threshold |-> l.threshold]
    OBVIOUS
  <2>2. Record(e)
    BY <1>4, <2>1 DEF Miss
  <2>3. l.score \in Scores /\ l.threshold \in 0..1000
    BY <1>4, LookupType, SMTT(30) DEF IsNearMiss
  <2>4. e \in Event
    <3>1. PICK u \in Scores, t \in 0..1000 : u = l.score /\ t = l.threshold
      BY <2>3
    <3>2. e = [score |-> u, threshold |-> t]
      BY <2>1, <3>1
    <3> QED
      BY <3>2, SMTT(30) DEF Event, Scores
  <2>5. e.score < e.threshold
    <3>1. l.score \in (l.threshold - NearMissWindow)..(l.threshold - 1)
      BY <1>4 DEF IsNearMiss
    <3>2. PICK w \in Nat, low \in Int : w = NearMissWindow /\ low = l.threshold
      BY LookupType, AnalyticsAssumption
    <3> QED
      BY <2>1, <3>1, <3>2
  <2>6. events \in Seq(Event) /\ Len(events) <= NearMissCapacity
    BY DEF IInv, TypeInv, EventsTyped
  <2>7. /\ events' \in Seq(Event) /\ Len(events') <= NearMissCapacity
        /\ \A k \in DOMAIN events' :
              events'[k] = e \/ \E j \in DOMAIN events : events'[k] = events[j]
    BY <2>2, <2>4, <2>6, RecordKeeps
  <2>8. EventsMissed'
    BY <2>5, <2>7 DEF IInv, EventsMissed
  <2>9. TypeInv'
    BY <1>1, <1>2, <2>7 DEF Miss, IInv, TypeInv, EventsTyped, ValidationTypeOK
  <2> QED
    BY <2>8, <2>9 DEF Miss, IInv, FalseHitsCounted, AnswerIsBest
<1> QED
  BY <1>3, <1>4

LEMMA ProviderAnswersInv == ASSUME IInv, NEW p \in Provider, ProviderAnswers(p) PROVE IInv'
<1>1. collectors' \in Collectors
  BY CountLatencyType DEF ProviderAnswers, IInv, TypeInv
<1>2. awaiting' \in [Provider -> Nat]
  BY DEF ProviderAnswers, IInv, TypeInv
<1> QED
  BY <1>1, <1>2, Unaffected
  DEF ProviderAnswers, IInv, TypeInv, ValidationTypeOK, FalseHitsCounted

LEMMA ReplayInv == ASSUME IInv, NEW drifted \in BOOLEAN, Replay(drifted) PROVE IInv'
<1>1. ValidationTypeOK' /\ FalseHitsCounted'
  <2>1. validation \in [validations: Nat, drift: Nat, false_hits: Nat]
        /\ validation.false_hits <= validation.validations
    BY DEF IInv, TypeInv, ValidationTypeOK, FalseHitsCounted
  <2>2. /\ validation' \in [validations: Nat, drift: Nat, false_hits: Nat]
        /\ validation'.validations = validation.validations + 1
        /\ validation'.false_hits = validation.false_hits + (IF drifted THEN 1 ELSE 0)
    <3>1. /\ validation.validations + 1 \in Nat /\ validation.drift + 1 \in Nat
          /\ validation.false_hits + 1 \in Nat /\ validation.false_hits + 0 = validation.false_hits
      BY <2>1
    <3>2. CASE drifted
      BY <2>1, <3>1, <3>2 DEF Replay, Validate
    <3>3. CASE ~drifted
      BY <2>1, <3>1, <3>3 DEF Replay, Validate
    <3> QED
      BY <3>2, <3>3
  <2> QED
    BY <2>1, <2>2 DEF ValidationTypeOK, FalseHitsCounted
<1>2. collectors' \in Collectors
  <2>1. PICK v : v = validation'
    OBVIOUS
  <2>2. Accuracy(v) \in Fraction /\ DriftRate(v) \in Fraction /\ FalseHitRate(v) \in Fraction
    BY <1>1, <2>1, RatesType DEF ValidationTypeOK, FalseHitsCounted
  <2>3. collectors' = SetValidation(collectors, Accuracy(v), DriftRate(v), FalseHitRate(v))
    BY <2>1 DEF Replay
  <2>4. collectors \in Collectors
    BY DEF IInv, TypeInv
  <2> QED
    BY <2>2, <2>3, <2>4 DEF SetValidation, Collectors
<1>3. replays' \in Nat
  BY DEF Replay, IInv, TypeInv
<1> QED
  BY <1>1, <1>2, <1>3, Unaffected DEF Replay, IInv, TypeInv

LEMMA ScrapeInv == ASSUME IInv, Scrape PROVE IInv'
<1>1. collectors' \in Collectors
  <2>1. PICK size \in 0..MaxSize : collectors' = SetCacheSize(collectors, size)
    BY DEF Scrape
  <2>2. size \in Nat /\ collectors \in Collectors
    BY AnalyticsAssumption DEF IInv, TypeInv
  <2> QED
    BY <2>1, <2>2 DEF SetCacheSize, Collectors
<1> QED
  BY <1>1, Unaffected DEF Scrape, IInv, TypeInv, ValidationTypeOK, FalseHitsCounted

LEMMA ThresholdTestInv ==
    ASSUME IInv, NEW cases \in Samples, NEW chosen \in ThresholdChoices,
           ThresholdTest(cases, chosen)
    PROVE  IInv'
<1>1. PICK candidates : candidates = IF chosen = {} THEN DefaultThresholds ELSE chosen
  OBVIOUS
<1>2. answer' \in Evaluate(cases, candidates)
  BY <1>1 DEF ThresholdTest
<1>3. candidates # {} /\ candidates \subseteq Int
  <2>1. chosen \subseteq Int
    BY AnalyticsAssumption, Zenon
  <2>2. DefaultThresholds # {} /\ DefaultThresholds \subseteq Int
    BY DEF DefaultThresholds
  <2> QED
    BY <1>1, <2>1, <2>2
<1>4. /\ answer'.cases = cases /\ answer'.thresholds = candidates
      /\ answer'.recommended \in candidates
      /\ \A u \in candidates : ~Better(cases, u, answer'.recommended)
  BY <1>2, <1>3, RecommendedIsBest
<1>5. cases \in Seq(Case)
  BY AnalyticsAssumption
<1>6. /\ events' = events /\ collectors' = collectors /\ validation' = validation
      /\ awaiting' = awaiting /\ replays' = replays
  BY DEF ThresholdTest
<1>7. TypeInv'
  <2>1. answer'.recommended \in answer'.thresholds \cap Int
    BY <1>3, <1>4
  <2> QED
    BY <1>6, <2>1 DEF IInv, TypeInv, EventsTyped, ValidationTypeOK
<1>8. AnswerIsBest'
  BY <1>3, <1>4, <1>5 DEF AnswerIsBest
<1> QED
  BY <1>6, <1>7, <1>8 DEF IInv, EventsMissed, FalseHitsCounted

LEMMA IInvNext == IInv /\ [Next]_vars => IInv'
<1> SUFFICES ASSUME IInv, [Next]_vars PROVE IInv'
  OBVIOUS
<1>1. CASE ReplayFails
  BY <1>1, Unaffected
  DEF ReplayFails, IInv, TypeInv, ValidationTypeOK, FalseHitsCounted
<1>2. CASE UNCHANGED vars
  BY <1>2, Unaffected
  DEF vars, IInv, TypeInv, ValidationTypeOK, FalseHitsCounted
<1> QED
  BY <1>1, <1>2, HitInv, MissInv, ProviderAnswersInv, ReplayInv, ScrapeInv, ThresholdTestInv
  DEF Next

LEMMA Inductive == Spec => []IInv
BY IInvInit, IInvNext, PTL DEF Spec

-----------------------------------------------------------------------------
(* Scrapes and reports *)

\* The gauges show the rates of the replays counted so far.
Published ==
    validation.validations > 0 =>
        /\ collectors.accuracy = Accuracy(validation)
        /\ collectors.drift_rate = DriftRate(validation)
        /\ collectors.false_hit_rate = FalseHitRate(validation)

\* What the endpoints report of one process adds up.
Sums ==
    /\ AddsUp(collectors, awaiting)
    /\ Published
    /\ validation.validations + replays <= collectors.total_hits
    /\ Len(events) <= SumFunction(collectors.misses)

\* A counter or gauge that no sum reads changes none.
LEMMA SameCounts ==
    ASSUME NEW c, NEW d, NEW waiting, AddsUp(c, waiting),
           d.hits = c.hits, d.misses = c.misses, d.total = c.total,
           d.total_hits = c.total_hits, d.hit_rate = c.hit_rate,
           d.by_provider = c.by_provider, d.by_model = c.by_model,
           d.similarity = c.similarity, d.lookup_latency = c.lookup_latency,
           d.provider_latency = c.provider_latency
    PROVE  AddsUp(d, waiting)
<1>1. LookedUp(d) = LookedUp(c)
  BY DEF LookedUp
<1> QED
  BY <1>1 DEF AddsUp

\* Every lookup is a hit or a miss of its series.
LEMMA LookupCountsOnce ==
    ASSUME NEW c \in Collectors, NEW status, NEW p \in Provider, NEW m \in Model, NEW s,
           NEW d, d = CountLookup(c, status, p, m, s)
    PROVE  /\ SumFunction(c.misses) \in Nat /\ c.total_hits \in Nat
           /\ SumFunction(d.misses) =
                SumFunction(c.misses) + (IF status = "HIT" THEN 0 ELSE 1)
           /\ d.total_hits = c.total_hits + (IF status = "HIT" THEN 1 ELSE 0)
           /\ d.accuracy = c.accuracy /\ d.drift_rate = c.drift_rate
           /\ d.false_hit_rate = c.false_hit_rate
<1>1. PICK hit \in 0..1 : hit = (IF status = "HIT" THEN 1 ELSE 0) /\ Counted(c, d, hit, p, m, s)
  BY LookupCounted
<1>2. PICK x \in [Label -> Nat], l \in Label, n \in Nat :
         x = c.misses /\ l = <<p, m>> /\ n = 1 - hit
  <2>1. c.misses \in [Label -> Nat]
    BY DEF Collectors
  <2>2. <<p, m>> \in Label
    BY DEF Label
  <2>3. 1 - hit \in Nat
    OBVIOUS
  <2> QED
    BY <2>1, <2>2, <2>3
<1>3. SumFunction(x) \in Nat /\ SumFunction(Plus(x, l, n)) = SumFunction(x) + n
  BY SeriesFinite, SumOfIncrement
<1>4. d.misses = Plus(x, l, n)
  BY <1>1, <1>2 DEF Counted
<1>5. c.total_hits \in Nat
  BY DEF Collectors
<1> QED
  BY <1>1, <1>2, <1>3, <1>4, <1>5 DEF Counted

\* The similarity a lookup is counted with is in range.
LEMMA ScoreInRange ==
    ASSUME NEW l \in Lookups PROVE ScoreOf(l) \in Int /\ ScoreOf(l) <= 1001
<1>1. CASE l.score = None
  BY <1>1 DEF ScoreOf
<1>2. CASE l.score # None
  <2>1. l.score \in Scores
    BY <1>2, LookupType
  <2>2. PICK a \in Int, u \in Int : a = -1000 /\ u = 1000
    OBVIOUS
  <2>3. Scores = a..u
    BY <2>2 DEF Scores
  <2>4. PICK x \in a..u : x = l.score
    BY <2>1, <2>3
  <2>5. x \in Int /\ x <= u
    OBVIOUS
  <2>6. ScoreOf(l) = x
    BY <1>2, <2>4 DEF ScoreOf
  <2> QED
    BY <2>2, <2>5, <2>6
<1> QED
  BY <1>1, <1>2

LEMMA SumsInit == Init => Sums
<1> SUFFICES ASSUME Init PROVE Sums
  OBVIOUS
<1>1. /\ collectors.hits = [l \in Label |-> 0] /\ collectors.misses = [l \in Label |-> 0]
      /\ collectors.total = 0 /\ collectors.total_hits = 0 /\ collectors.hit_rate = <<0, 1>>
      /\ collectors.by_provider = [p \in Provider |-> 0]
      /\ collectors.by_model = [m \in Model |-> 0]
      /\ collectors.similarity = [b \in SimilarityBucket |-> 0]
      /\ collectors.lookup_latency = 0
      /\ collectors.provider_latency = [p \in Provider |-> 0]
  BY DEF Init, MonitoringInit
<1>2. /\ validation.validations = 0 /\ replays = 0 /\ events = <<>>
      /\ awaiting = [p \in Provider |-> 0]
  BY DEF Init, ValidationInit, NearMissInit
<1>3. LookedUp(collectors) = [l \in Label |-> 0]
  BY <1>1 DEF LookedUp
<1>4. \A p \in Provider :
         /\ OfProvider(LookedUp(collectors), p) = [m \in Model |-> 0]
         /\ OfProvider(collectors.misses, p) = [m \in Model |-> 0]
  BY <1>1, <1>3 DEF OfProvider, Label
<1>5. \A m \in Model : OfModel(LookedUp(collectors), m) = [p \in Provider |-> 0]
  BY <1>3 DEF OfModel, Label
<1>6. /\ SumFunction([l \in Label |-> 0]) = 0 /\ SumFunction([m \in Model |-> 0]) = 0
      /\ SumFunction([p \in Provider |-> 0]) = 0
      /\ SumFunction([b \in SimilarityBucket |-> 0]) = 0
  BY SeriesFinite, SumOfZeros
<1>7. AddsUp(collectors, awaiting)
  BY <1>1, <1>2, <1>3, <1>4, <1>5, <1>6 DEF AddsUp, Ratio
<1> QED
  BY <1>1, <1>2, <1>6, <1>7 DEF Sums, Published

LEMMA HitSums == ASSUME IInv, Sums, NEW l \in Lookups, Hit(l) PROVE Sums'
<1>1. PICK c : c = CountLookup(collectors, "HIT", l.provider, l.model, ScoreOf(l))
  OBVIOUS
<1>2. l.provider \in Provider /\ l.model \in Model /\ ScoreOf(l) \in Int /\ ScoreOf(l) <= 1001
  BY LookupType, ScoreInRange
<1>3. collectors \in Collectors /\ awaiting \in [Provider -> Nat] /\ replays \in Nat
  BY DEF IInv, TypeInv
<1>4. AddsUp(c, awaiting)
  <2>1. Plus(awaiting, l.provider, 0) = awaiting
    BY <1>2, <1>3 DEF Plus
  <2>2. AddsUp(c, Plus(awaiting, l.provider, 0))
    BY <1>1, <1>2, <1>3, LookupAddsUp DEF Sums
  <2> QED
    BY <2>1, <2>2
<1>5. /\ SumFunction(c.misses) = SumFunction(collectors.misses)
      /\ SumFunction(c.misses) \in Nat /\ collectors.total_hits \in Nat
      /\ c.total_hits = collectors.total_hits + 1
      /\ c.accuracy = collectors.accuracy /\ c.drift_rate = collectors.drift_rate
      /\ c.false_hit_rate = collectors.false_hit_rate
  BY <1>1, <1>2, <1>3, LookupCountsOnce
<1>6. c \in Collectors
  BY <1>1, <1>2, <1>3, CountLookupType
<1>7. /\ collectors'.hits = c.hits /\ collectors'.misses = c.misses /\ collectors'.total = c.total
      /\ collectors'.total_hits = c.total_hits /\ collectors'.hit_rate = c.hit_rate
      /\ collectors'.by_provider = c.by_provider /\ collectors'.by_model = c.by_model
      /\ collectors'.similarity = c.similarity
      /\ collectors'.lookup_latency = c.lookup_latency
      /\ collectors'.provider_latency = c.provider_latency
      /\ collectors'.accuracy = c.accuracy /\ collectors'.drift_rate = c.drift_rate
      /\ collectors'.false_hit_rate = c.false_hit_rate
  <2>1. collectors' = CountSavings(c, l.model, l.prompt_tokens, l.completion_tokens)
    BY <1>1 DEF Hit
  <2> QED
    BY <1>6, <2>1 DEF CountSavings, Collectors
<1>8. AddsUp(collectors', awaiting')
  <2>1. PICK d : d = collectors'
    OBVIOUS
  <2>2. AddsUp(d, awaiting)
    BY <1>4, <1>7, <2>1, SameCounts
  <2>3. awaiting' = awaiting
    BY DEF Hit
  <2> QED
    BY <2>1, <2>2, <2>3
<1>9. /\ validation' = validation /\ events' = events
      /\ replays' \in {replays, replays + 1}
  BY DEF Hit
<1>10. validation.validations \in Nat
  BY DEF IInv, TypeInv, ValidationTypeOK
<1>11. validation'.validations + replays' <= collectors'.total_hits
  BY <1>3, <1>5, <1>7, <1>9, <1>10, SMTT(30) DEF Sums
<1> QED
  BY <1>5, <1>7, <1>8, <1>9, <1>11 DEF Sums, Published

LEMMA MissSums == ASSUME IInv, Sums, NEW l \in Lookups, Miss(l) PROVE Sums'
<1>1. PICK c : c = collectors'
  OBVIOUS
<1>2. c = CountLookup(collectors, "MISS", l.provider, l.model, ScoreOf(l))
  BY <1>1 DEF Miss
<1>3. l.provider \in Provider /\ l.model \in Model /\ ScoreOf(l) \in Int /\ ScoreOf(l) <= 1001
  BY LookupType, ScoreInRange
<1>4. collectors \in Collectors /\ awaiting \in [Provider -> Nat]
  BY DEF IInv, TypeInv
<1>5. PICK more \in 0..1 : awaiting' = Plus(awaiting, l.provider, more)
  <2>1. CASE l.stream
    <3>1. Plus(awaiting, l.provider, 0) = awaiting
      BY <1>3, <1>4 DEF Plus
    <3>2. awaiting' = Plus(awaiting, l.provider, 0) /\ 0 \in 0..1
      BY <2>1, <3>1 DEF Miss
    <3> QED
      BY <3>2
  <2>2. CASE ~l.stream
    <3>1. awaiting' = Plus(awaiting, l.provider, 1) /\ 1 \in 0..1
      BY <2>2 DEF Miss, Plus
    <3> QED
      BY <3>1
  <2> QED
    BY <2>1, <2>2
<1>6. AddsUp(collectors', awaiting')
  <2>1. AddsUp(c, Plus(awaiting, l.provider, more))
    BY <1>2, <1>3, <1>4, LookupAddsUp DEF Sums
  <2> QED
    BY <1>1, <1>5, <2>1
<1>7. /\ SumFunction(c.misses) = SumFunction(collectors.misses) + 1
      /\ SumFunction(collectors.misses) \in Nat
      /\ c.total_hits = collectors.total_hits + 0 /\ collectors.total_hits \in Nat
      /\ c.accuracy = collectors.accuracy /\ c.drift_rate = collectors.drift_rate
      /\ c.false_hit_rate = collectors.false_hit_rate
  BY <1>2, <1>3, <1>4, LookupCountsOnce
<1>8. Len(events) \in Nat /\ Len(events') <= Len(events) + 1
  <2>1. events \in Seq(Event) /\ Len(events) \in Nat
    BY DEF IInv, TypeInv, EventsTyped
  <2>2. CASE ~IsNearMiss(l)
    BY <2>1, <2>2 DEF Miss
  <2>3. CASE IsNearMiss(l)
    BY <2>1, <2>3, RecordGrows DEF Miss
  <2> QED
    BY <2>1, <2>2, <2>3
<1>9. validation' = validation /\ replays' = replays
  BY DEF Miss
<1>10. Len(events') <= SumFunction(collectors'.misses)
  <2>1. PICK n \in Nat, k \in Nat : n = SumFunction(collectors.misses) /\ k = Len(events)
    BY <1>7, <1>8
  <2>2. Len(events') \in Nat
    BY MissInv DEF IInv, TypeInv, EventsTyped
  <2>3. k <= n /\ Len(events') <= k + 1
    BY <1>8, <2>1 DEF Sums
  <2> QED
    BY <1>1, <1>7, <2>1, <2>2, <2>3
<1> QED
  BY <1>1, <1>6, <1>7, <1>9, <1>10 DEF Sums, Published

LEMMA ProviderAnswersSums ==
    ASSUME IInv, Sums, NEW p \in Provider, ProviderAnswers(p) PROVE Sums'
<1>1. PICK c, d, w : c = collectors /\ d = collectors' /\ w = awaiting'
  OBVIOUS
<1>2. /\ c \in Collectors /\ c.provider_latency \in [Provider -> Nat]
      /\ awaiting \in [Provider -> Nat]
  BY <1>1 DEF IInv, TypeInv, Collectors
<1>3. /\ d.hits = c.hits /\ d.misses = c.misses /\ d.total = c.total
      /\ d.total_hits = c.total_hits /\ d.hit_rate = c.hit_rate
      /\ d.by_provider = c.by_provider /\ d.by_model = c.by_model
      /\ d.similarity = c.similarity /\ d.lookup_latency = c.lookup_latency
      /\ d.accuracy = c.accuracy /\ d.drift_rate = c.drift_rate
      /\ d.false_hit_rate = c.false_hit_rate
      /\ \/ d.provider_latency = c.provider_latency
         \/ d.provider_latency = Plus(c.provider_latency, p, 1)
  BY <1>1, <1>2 DEF ProviderAnswers, CountProviderLatency, Collectors, Plus
<1>4. awaiting[p] > 0 /\ w = [awaiting EXCEPT ![p] = @ - 1]
  BY <1>1 DEF ProviderAnswers
<1>5. ASSUME NEW q \in Provider
      PROVE  d.provider_latency[q] + w[q] <= c.provider_latency[q] + awaiting[q]
  <2>1. d.provider_latency[q] \in {c.provider_latency[q], c.provider_latency[q] + (IF q = p THEN 1 ELSE 0)}
    BY <1>2, <1>3 DEF Plus
  <2>2. w[q] = awaiting[q] - (IF q = p THEN 1 ELSE 0)
    BY <1>2, <1>4
  <2> QED
    BY <1>2, <2>1, <2>2
<1>6. LookedUp(d) = LookedUp(c)
  BY <1>3 DEF LookedUp
<1>7. AddsUp(d, w)
  <2>1. ASSUME NEW q \in Provider
        PROVE  d.provider_latency[q] + w[q] <= SumFunction(OfProvider(d.misses, q))
    <3>1. PICK n \in Nat : n = SumFunction(OfProvider(c.misses, q))
      <4>1. c.misses \in [Label -> Nat]
        BY <1>2 DEF Collectors
      <4>2. OfProvider(c.misses, q) \in [Model -> Nat]
        BY <4>1 DEF OfProvider, Label
      <4>3. PICK f \in [Model -> Nat] : f = OfProvider(c.misses, q)
        BY <4>2
      <4> QED
        BY <4>3, SeriesFinite, SumIsCount
    <3>2. c.provider_latency[q] + awaiting[q] <= n
      BY <1>1, <3>1 DEF Sums, AddsUp
    <3>3. d.provider_latency[q] \in Nat /\ w[q] \in Int
      BY <1>2, <1>3, <1>4 DEF Plus
    <3>4. c.provider_latency[q] \in Nat /\ awaiting[q] \in Nat
      BY <1>2
    <3> QED
      BY <1>3, <1>5, <3>1, <3>2, <3>3, <3>4
  <2>2. /\ \A q \in Provider : d.by_provider[q] = SumFunction(OfProvider(LookedUp(d), q))
        /\ \A k \in Model : d.by_model[k] = SumFunction(OfModel(LookedUp(d), k))
    BY <1>1, <1>3, <1>6 DEF Sums, AddsUp
  <2>3. /\ d.total = SumFunction(LookedUp(d)) /\ d.total = SumFunction(d.similarity)
        /\ d.total = d.lookup_latency /\ d.total_hits = SumFunction(d.hits)
        /\ d.hit_rate = Ratio(d.total_hits, d.total)
    BY <1>1, <1>3, <1>6 DEF Sums, AddsUp
  <2> QED
    BY <2>1, <2>2, <2>3 DEF AddsUp
<1>8. events' = events /\ validation' = validation /\ replays' = replays
  BY DEF ProviderAnswers
<1> QED
  BY <1>1, <1>3, <1>7, <1>8 DEF Sums, Published

LEMMA ReplaySums == ASSUME IInv, Sums, NEW drifted \in BOOLEAN, Replay(drifted) PROVE Sums'
<1>1. PICK c, d, v : c = collectors /\ d = collectors' /\ v = validation'
  OBVIOUS
<1>2. c \in Collectors /\ replays \in Nat /\ validation \in [validations: Nat, drift: Nat, false_hits: Nat]
  BY <1>1 DEF IInv, TypeInv, ValidationTypeOK
<1>3. d = SetValidation(c, Accuracy(v), DriftRate(v), FalseHitRate(v))
  BY <1>1 DEF Replay
<1>4. /\ d.hits = c.hits /\ d.misses = c.misses /\ d.total = c.total
      /\ d.total_hits = c.total_hits /\ d.hit_rate = c.hit_rate
      /\ d.by_provider = c.by_provider /\ d.by_model = c.by_model
      /\ d.similarity = c.similarity /\ d.lookup_latency = c.lookup_latency
      /\ d.provider_latency = c.provider_latency
      /\ d.accuracy = Accuracy(v) /\ d.drift_rate = DriftRate(v)
      /\ d.false_hit_rate = FalseHitRate(v)
  BY <1>2, <1>3 DEF SetValidation, Collectors
<1>5. AddsUp(d, awaiting)
  BY <1>1, <1>4, SameCounts DEF Sums
<1>6. v.validations = validation.validations + 1 /\ replays' = replays - 1
  <2>1. replays' = replays - 1 /\ Validate(drifted)
    BY DEF Replay
  <2>2. CASE drifted
    BY <1>1, <1>2, <2>1, <2>2 DEF Validate
  <2>3. CASE ~drifted
    BY <1>1, <1>2, <2>1, <2>3 DEF Validate
  <2> QED
    BY <2>1, <2>2, <2>3
<1>7. v.validations + replays' <= d.total_hits
  BY <1>1, <1>2, <1>4, <1>6 DEF Sums
<1>8. events' = events /\ awaiting' = awaiting
  BY DEF Replay
<1> QED
  BY <1>1, <1>4, <1>5, <1>7, <1>8 DEF Sums, Published

LEMMA ScrapeSums == ASSUME IInv, Sums, Scrape PROVE Sums'
<1>1. PICK c, d : c = collectors /\ d = collectors'
  OBVIOUS
<1>2. c \in Collectors
  BY <1>1 DEF IInv, TypeInv
<1>3. PICK size : d = SetCacheSize(c, size)
  BY <1>1 DEF Scrape
<1>4. /\ d.hits = c.hits /\ d.misses = c.misses /\ d.total = c.total
      /\ d.total_hits = c.total_hits /\ d.hit_rate = c.hit_rate
      /\ d.by_provider = c.by_provider /\ d.by_model = c.by_model
      /\ d.similarity = c.similarity /\ d.lookup_latency = c.lookup_latency
      /\ d.provider_latency = c.provider_latency
      /\ d.accuracy = c.accuracy /\ d.drift_rate = c.drift_rate
      /\ d.false_hit_rate = c.false_hit_rate
  BY <1>2, <1>3 DEF SetCacheSize, Collectors
<1>5. AddsUp(d, awaiting)
  BY <1>1, <1>4, SameCounts DEF Sums
<1>6. events' = events /\ awaiting' = awaiting /\ validation' = validation /\ replays' = replays
  BY DEF Scrape
<1> QED
  BY <1>1, <1>4, <1>5, <1>6 DEF Sums, Published

LEMMA SumsNext == IInv /\ Sums /\ [Next]_vars => Sums'
<1> SUFFICES ASSUME IInv, Sums, [Next]_vars PROVE Sums'
  OBVIOUS
<1>1. CASE ReplayFails
  <2>1. /\ events' = events /\ collectors' = collectors /\ validation' = validation
        /\ awaiting' = awaiting /\ replays' = replays - 1
    BY <1>1 DEF ReplayFails
  <2>2. replays \in Nat /\ validation.validations \in Nat /\ collectors.total_hits \in Nat
    BY DEF IInv, TypeInv, ValidationTypeOK, Collectors
  <2>3. validation.validations + replays' <= collectors.total_hits
    BY <2>1, <2>2 DEF Sums
  <2> QED
    BY <2>1, <2>3 DEF Sums, Published
<1>2. ASSUME NEW cases \in Samples, NEW chosen \in ThresholdChoices, ThresholdTest(cases, chosen)
      PROVE  Sums'
  BY <1>2 DEF ThresholdTest, Sums, Published
<1>3. CASE UNCHANGED vars
  BY <1>3 DEF vars, Sums, Published
<1> QED
  BY <1>1, <1>2, <1>3, HitSums, MissSums, ProviderAnswersSums, ReplaySums, ScrapeSums DEF Next

LEMMA SumsInductive == Spec => []Sums
BY SumsInit, SumsNext, Inductive, PTL DEF Spec

-----------------------------------------------------------------------------
\* Nothing the collectors, the tracker or the validator record leaves its type,
\* and /analytics/threshold-test recommends one of the candidates it was given.
THEOREM AnalyticsTypeCorrect == Spec => []TypeOK
<1>1. IInv => TypeOK
  BY TypeParts DEF IInv
<1> QED
  BY <1>1, Inductive, PTL

\* Three quarters of the near misses in the window score at least what
\* /analytics/near-misses recommends, for every window, capacity and min_samples.
THEOREM RecommendationRecoversMost == Spec => []RecoversMost
<1>1. IInv => RecoversMost
  BY MostRecovered DEF IInv, TypeInv
<1> QED
  BY <1>1, Inductive, PTL

\* For every labelled sample and all candidates, none finds as many expected
\* matches as the recommended threshold with fewer false hits.
THEOREM RecommendationIsSafest == Spec => []NoSaferCandidate
<1>1. IInv => NoSaferCandidate
  <2> SUFFICES ASSUME IInv, answer # None, NEW t \in answer.thresholds,
                      Confusion(answer.cases, t).tp
                        >= Confusion(answer.cases, answer.recommended).tp,
                      Confusion(answer.cases, t).fp
                        < Confusion(answer.cases, answer.recommended).fp
               PROVE  FALSE
    BY DEF NoSaferCandidate
  <2>1. /\ answer.cases \in Seq(Case) /\ answer.recommended \in Int /\ t \in Int
        /\ ~Better(answer.cases, t, answer.recommended)
    BY DEF IInv, TypeInv, AnswerIsBest
  <2> QED
    BY <2>1, SaferIsBetter
<1> QED
  BY <1>1, Inductive, PTL

\* However lookups, answers, replays and scrapes interleave, every lookup of a
\* scrape is under its provider, its model and its bucket, a hit or a miss and not
\* both, and no provider was timed more often than it missed.
THEOREM ScrapesAddUp == Spec => []ScrapeAddsUp
<1>1. Sums => ScrapeAddsUp
  <2> SUFFICES ASSUME Sums PROVE ScrapeAddsUp
    OBVIOUS
  <2>1. LookedUp(collectors) = [l \in Label |-> collectors.hits[l] + collectors.misses[l]]
    BY DEF LookedUp
  <2>2. \A p \in Provider : OfProvider(LookedUp(collectors), p) =
           [m \in Model |-> collectors.hits[<<p, m>>] + collectors.misses[<<p, m>>]]
    BY DEF LookedUp, OfProvider, Label
  <2>3. \A m \in Model : OfModel(LookedUp(collectors), m) =
           [p \in Provider |-> collectors.hits[<<p, m>>] + collectors.misses[<<p, m>>]]
    BY DEF LookedUp, OfModel, Label
  <2>4. \A p \in Provider : OfProvider(collectors.misses, p) =
           [m \in Model |-> collectors.misses[<<p, m>>]]
    BY DEF OfProvider
  <2>5. \A p \in Provider :
          /\ collectors.by_provider[p] = SumFunction([m \in Model |->
               collectors.hits[<<p, m>>] + collectors.misses[<<p, m>>]])
          /\ collectors.provider_latency[p] + awaiting[p]
               <= SumFunction([m \in Model |-> collectors.misses[<<p, m>>]])
    BY <2>2, <2>4 DEF Sums, AddsUp
  <2>6. \A m \in Model : collectors.by_model[m] = SumFunction([p \in Provider |->
               collectors.hits[<<p, m>>] + collectors.misses[<<p, m>>]])
    BY <2>3 DEF Sums, AddsUp
  <2>7. /\ collectors.total = SumFunction([l \in Label |-> collectors.hits[l] + collectors.misses[l]])
        /\ collectors.total = SumFunction(collectors.similarity)
        /\ collectors.total = collectors.lookup_latency
        /\ collectors.hit_rate = Ratio(SumFunction(collectors.hits), collectors.total)
    BY <2>1 DEF Sums, AddsUp
  <2> QED
    BY <2>5, <2>6, <2>7 DEF ScrapeAddsUp
<1> QED
  BY <1>1, SumsInductive, PTL

\* /metrics, /analytics/validation and /analytics/near-misses agree on one process
\* at any moment: the gauges are the reported rates, and there are no more replays
\* than hits and no more near misses than misses.
THEOREM EndpointsAgree == Spec => []ReportsAgree
<1>1. Sums => ReportsAgree
  BY DEF Sums, AddsUp, Published, ReportsAgree, Report
<1> QED
  BY <1>1, SumsInductive, PTL
=============================================================================
