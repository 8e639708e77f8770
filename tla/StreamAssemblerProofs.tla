----------------------- MODULE StreamAssemblerProofs -----------------------
(***************************************************************************)
(* Theorems about StreamAssembler.  Folds and flattened sequences come     *)
(* first, then one event and the bytes of a stream, then what a push makes *)
(* of a buffer wherever it begins and ends.                                *)
(***************************************************************************)
EXTENDS StreamAssembler, SequenceTheorems, WellFoundedInduction, TLAPS
-----------------------------------------------------------------------------
(* Folds *)

\* Counting.
LEMMA Counting ==
    ASSUME NEW T, 0 \in T, \A k \in Nat : k \in T => k + 1 \in T
    PROVE  Nat \subseteq T
<1> DEFINE bad == Nat \ T
<1> SUFFICES ASSUME bad # {} PROVE FALSE
  OBVIOUS
<1>1. PICK k \in bad : \A y \in bad : <<y, k>> \notin OpToRel(<, Nat)
  <2>1. bad \subseteq Nat
    OBVIOUS
  <2> HIDE DEF bad
  <2> QED
    BY <2>1, NatLessThanWellFounded, WFMin
<1>2. PICK j \in Nat : j < k /\ k = j + 1
  <2>1. k \in Nat /\ k # 0
    OBVIOUS
  <2>2. k - 1 \in Nat /\ k - 1 < k /\ k = (k - 1) + 1
    BY <2>1
  <2> QED
    BY <2>2
<1>3. <<j, k>> \in OpToRel(<, Nat)
  BY <1>2 DEF OpToRel
<1>4. j \in T
  BY <1>1, <1>3
<1> QED
  BY <1>2, <1>4

\* Counting up to n.
LEMMA CountingTo ==
    ASSUME NEW n \in Nat, NEW T, 0 \in T, \A k \in 0..n : k < n /\ k \in T => k + 1 \in T
    PROVE  0..n \subseteq T
<1> DEFINE U == {k \in Nat : k <= n => k \in T}
<1>1. 0 \in U /\ \A k \in Nat : k \in U => k + 1 \in U
  OBVIOUS
<1>2. Nat \subseteq U
  <2> HIDE DEF U
  <2> QED
    BY <1>1, Counting
<1> QED
  BY <1>2

\* The greatest index of a set of indices that reaches up to n.
LEMMA MaxIs ==
    ASSUME NEW S \in SUBSET Int, NEW n \in S, \A y \in S : y <= n
    PROVE  Max(S) = n
<1>1. Max(S) \in S /\ \A y \in S : y <= Max(S)
  BY DEF Max
<1>2. PICK m \in S : m = Max(S) /\ n <= m
  BY <1>1
<1>3. m \in Int /\ n \in Int /\ m <= n /\ n <= m
  BY <1>2
<1> QED
  BY <1>2, <1>3

\* Likewise the least.
LEMMA MinIs ==
    ASSUME NEW S \in SUBSET Int, NEW n \in S, \A y \in S : n <= y
    PROVE  Min(S) = n
<1>1. Min(S) \in S /\ \A y \in S : Min(S) <= y
  BY DEF Min
<1>2. PICK m \in S : m = Min(S) /\ m <= n
  BY <1>1
<1>3. m \in Int /\ n \in Int /\ m <= n /\ n <= m
  BY <1>2
<1> QED
  BY <1>2, <1>3

\* A set of numbers with a bound has a greatest one.
LEMMA Highest ==
    ASSUME NEW n \in Nat, NEW S \in SUBSET (0..n), S # {}
    PROVE  \E m \in S : \A y \in S : y <= m
<1> DEFINE T == {n - k : k \in S}
<1>1. \A y \in S : y \in 0..n /\ n - y \in Nat
  OBVIOUS
<1>2. PICK k \in T : \A j \in T : <<j, k>> \notin OpToRel(<, Nat)
  <2>1. T \subseteq Nat /\ T # {}
    BY <1>1
  <2> HIDE DEF T
  <2> QED
    BY <2>1, NatLessThanWellFounded, WFMin
<1>3. PICK m \in S : k = n - m
  OBVIOUS
<1>4. ASSUME NEW y \in S PROVE y <= m
  <2>1. PICK j \in T : j = n - y
    OBVIOUS
  <2>2. j \in Nat /\ k \in Nat /\ <<j, k>> \notin OpToRel(<, Nat)
    <3>1. T \subseteq Nat
      BY <1>1
    <3> HIDE DEF T
    <3> QED
      BY <1>2, <3>1
  <2>3. ~(j < k)
    BY <2>2 DEF OpToRel
  <2> QED
    BY <1>3, <2>1, <2>3
<1> QED
  BY <1>4

\* The greatest and the least index of a set of indices are in its range.
LEMMA MaxIn ==
    ASSUME NEW n \in Nat, NEW S \in SUBSET (1..n), S # {} PROVE Max(S) \in 1..n
<1>1. S \in SUBSET (0..n) /\ S \in SUBSET Int
  OBVIOUS
<1>2. PICK m \in S : \A y \in S : y <= m
  BY <1>1, Highest
<1>3. Max(S) = m
  BY <1>1, <1>2, MaxIs
<1> QED
  BY <1>3

\* See MaxIn.
LEMMA MinIn ==
    ASSUME NEW n \in Nat, NEW S \in SUBSET (1..n), S # {} PROVE Min(S) \in 1..n
<1>1. PICK m \in S : \A y \in S : <<y, m>> \notin OpToRel(<, Nat)
  <2>1. S \subseteq Nat
    OBVIOUS
  <2> QED
    BY <2>1, NatLessThanWellFounded, WFMin
<1>2. ASSUME NEW y \in S PROVE m <= y
  <2>1. y \in Nat /\ m \in Nat /\ <<y, m>> \notin OpToRel(<, Nat)
    <3>1. S \subseteq Nat
      OBVIOUS
    <3> QED
      BY <1>1, <3>1
  <2>2. ~(y < m)
    BY <2>1 DEF OpToRel
  <2>3. PICK a \in Nat, b \in Nat : a = y /\ b = m
    BY <2>1
  <2>4. b <= a
    BY <2>2, <2>3
  <2> QED
    BY <2>3, <2>4
<1>3. S \in SUBSET Int /\ m \in 1..n
  OBVIOUS
<1>4. Min(S) = m
  BY <1>2, <1>3, MinIs
<1> QED
  BY <1>3, <1>4

\* What a fold computes for the sets of indices on its way: step[k] is applied
\* to the result for the indices below k.
Folding(g, n, base, step) ==
    \A s \in SUBSET (1..n) :
        g[s] = IF s = {} THEN base ELSE step[Max(s)][g[s \ {Max(s)}]]

\* A fold exists, and it stays in the set its steps stay in.
LEMMA FoldExists ==
    ASSUME NEW S, NEW base \in S, NEW n \in Nat, NEW step \in [1..n -> [S -> S]]
    PROVE  \E g \in [SUBSET (1..n) -> S] : Folding(g, n, base, step)
<1> DEFINE Folds(k) == \E g \in [SUBSET (1..k) -> S] : Folding(g, k, base, step)
           T == {k \in Nat : k <= n => Folds(k)}
<1>1. 0 \in T
  <2> DEFINE g == [s \in SUBSET (1..0) |-> base]
  <2>1. 1..0 = {}
    OBVIOUS
  <2>2. g \in [SUBSET (1..0) -> S] /\ Folding(g, 0, base, step)
    BY <2>1 DEF Folding
  <2> HIDE DEF g
  <2>3. Folds(0)
    BY <2>2
  <2> HIDE DEF Folds
  <2> QED
    BY <2>3
<1>2. ASSUME NEW k \in Nat, k \in T PROVE k + 1 \in T
  <2>1. PICK m \in Nat : m = k + 1
    OBVIOUS
  <2> SUFFICES ASSUME m <= n PROVE Folds(m)
    <3> HIDE DEF Folds
    <3> QED
      BY <2>1
  <2>2. PICK g \in [SUBSET (1..k) -> S] : Folding(g, k, base, step)
    <3>1. Folds(k)
      <4> HIDE DEF Folds
      <4> QED
        BY <1>2, <2>1
    <3> QED
      BY <3>1
  <2> DEFINE h == [s \in SUBSET (1..m) |->
                      IF m \in s THEN step[m][g[s \ {m}]] ELSE g[s]]
  <2>3. ASSUME NEW s \in SUBSET (1..m), m \in s
        PROVE  /\ Max(s) = m /\ s \ {m} \in SUBSET (1..k)
               /\ h[s] \in S /\ h[s] = step[m][h[s \ {m}]]
    <3>1. s \in SUBSET Int /\ m \in Int /\ \A y \in s : y <= m
      BY <2>1
    <3>2. Max(s) = m
      BY <2>3, <3>1, MaxIs
    <3>3. PICK r \in SUBSET (1..k) : r = s \ {m} /\ m \notin r /\ r \in SUBSET (1..m)
      <4>1. \A y \in s \ {m} : y \in 1..k
        BY <2>1
      <4>2. s \ {m} \in SUBSET (1..k) /\ s \ {m} \in SUBSET (1..m) /\ m \notin s \ {m}
        BY <4>1
      <4> QED
        BY <4>2
    <3>4. h[r] = g[r] /\ g[r] \in S
      BY <3>3
    <3>5. h[s] = step[m][g[r]] /\ step[m] \in [S -> S]
      BY <2>1, <2>3, <3>3
    <3> QED
      BY <3>2, <3>3, <3>4, <3>5
  <2>4. ASSUME NEW s \in SUBSET (1..m), m \notin s
        PROVE  h[s] \in S /\ h[s] = IF s = {} THEN base ELSE step[Max(s)][h[s \ {Max(s)}]]
    <3>1. s \in SUBSET (1..k) /\ h[s] = g[s] /\ g[s] \in S
      BY <2>1, <2>4
    <3>2. PICK r : r = s \ {Max(s)}
      OBVIOUS
    <3>3. r \in SUBSET (1..k) /\ r \in SUBSET (1..m) /\ m \notin r /\ h[r] = g[r]
      BY <2>4, <3>1, <3>2
    <3>4. g[s] = IF s = {} THEN base ELSE step[Max(s)][g[r]]
      BY <2>2, <3>1, <3>2 DEF Folding
    <3> QED
      BY <3>1, <3>2, <3>3, <3>4
  <2>5. h \in [SUBSET (1..m) -> S] /\ Folding(h, m, base, step)
    <3>1. \A s \in SUBSET (1..m) : h[s] \in S
      BY <2>3, <2>4
    <3>2. \A s \in SUBSET (1..m) :
             h[s] = IF s = {} THEN base ELSE step[Max(s)][h[s \ {Max(s)}]]
      <4> HIDE DEF h
      <4> QED
        BY <2>3, <2>4
    <3>3. h \in [SUBSET (1..m) -> S]
      BY <3>1
    <3> HIDE DEF h
    <3> QED
      BY <3>2, <3>3 DEF Folding
  <2> HIDE DEF h
  <2> QED
    BY <2>5
<1>3. Nat \subseteq T
  <2> HIDE DEF T
  <2> QED
    BY <1>1, <1>2, Counting
<1>4. Folds(n)
  <2> HIDE DEF Folds
  <2> QED
    BY <1>3
<1> QED
  BY <1>4

\* The same as an equation between functions, as FoldLeft has it.
Solves(g, n, base, step) ==
    g = [t \in SUBSET (1..n) |-> IF t = {} THEN base ELSE step[Max(t)][g[t \ {Max(t)}]]]

\* The same, with the equation a fold's CHOOSE looks for.
LEMMA FoldSolves ==
    ASSUME NEW S, NEW base \in S, NEW n \in Nat, NEW step \in [1..n -> [S -> S]]
    PROVE  \E g \in [SUBSET (1..n) -> S] : Solves(g, n, base, step)
<1>1. PICK g \in [SUBSET (1..n) -> S] : Folding(g, n, base, step)
  BY FoldExists
<1>2. g = [t \in SUBSET (1..n) |-> g[t]]
  OBVIOUS
<1> QED
  BY <1>1, <1>2 DEF Folding, Solves

\* The sets of indices a fold goes through.
LEMMA UpTo ==
    ASSUME NEW n \in Nat, NEW k \in 1..n
    PROVE  /\ 1..k \in SUBSET (1..n) /\ 1..k # {} /\ Max(1..k) = k
           /\ (1..k) \ {k} = 1..(k - 1)
<1>1. 1..k \in SUBSET Int /\ k \in 1..k /\ \A y \in 1..k : y <= k
  OBVIOUS
<1>2. Max(1..k) = k
  BY <1>1, MaxIs
<1> QED
  BY <1>1, <1>2

\* Seen from the first index to the last a fold is a run, which stays in the set
\* its steps stay in.
Reached(g, n) == [k \in 0..n |-> g[1..k]]

\* A run whose steps stay in S is in S.
LEMMA RunStays ==
    ASSUME NEW S, NEW n \in Nat, NEW g, g[{}] \in S,
           \A k \in 1..n : g[1..(k - 1)] \in S => g[1..k] \in S
    PROVE  Reached(g, n) \in [0..n -> S]
<1> DEFINE T == {k \in 0..n : g[1..k] \in S}
<1>1. 1..0 = {} /\ 0 \in 0..n
  OBVIOUS
<1>2. 0 \in T
  BY <1>1
<1>3. ASSUME NEW k \in 0..n, k < n, k \in T PROVE k + 1 \in T
  <2>1. PICK m \in 1..n : m = k + 1 /\ k = m - 1
    BY <1>3
  <2>2. g[1..m] \in S /\ m \in 0..n
    BY <1>3, <2>1
  <2> QED
    BY <2>1, <2>2
<1>4. 0..n \subseteq T
  <2> HIDE DEF T
  <2> QED
    BY <1>2, <1>3, CountingTo
<1> QED
  BY <1>4 DEF Reached
-----------------------------------------------------------------------------
(* What has been parsed *)

\* One choice, one line and one event of a stream leave what has been parsed a
\* parsed answer.
LEMMA MergeType ==
    ASSUME NEW p \in Parsed, NEW c \in Choice PROVE Merge(p, c) \in Parsed
<1>1. /\ p.content \in Seq(Text) /\ c.content \in Seq(Text) /\ p.completed \in BOOLEAN
      /\ p.finish \in FinishReason \cup {None} /\ c.finish \in FinishReason \cup {None}
  BY DEF Parsed, Choice
<1>2. p.content \o c.content \in Seq(Text)
  BY <1>1
<1>3. PICK t \in Seq(Text), f \in FinishReason \cup {None} :
         t = p.content \o c.content /\ f = IF c.finish = None THEN p.finish ELSE c.finish
  BY <1>1, <1>2
<1>4. Merge(p, c) = [p EXCEPT !.content = t, !.finish = f]
  BY <1>3 DEF Merge
<1>5. [p EXCEPT !.content = t, !.finish = f] \in Parsed
  BY DEF Parsed
<1> QED
  BY <1>4, <1>5

\* The choices of a chunk are merged one after the other.
LEMMA MergeFold ==
    ASSUME NEW p \in Parsed, NEW s \in Seq(Choice)
    PROVE  \E x \in [0..Len(s) -> Parsed] :
              /\ x[0] = p /\ \A k \in 1..Len(s) : x[k] = Merge(x[k - 1], s[k])
              /\ FoldLeft(Merge, p, s) = x[Len(s)]
<1>1. PICK n \in Nat : n = Len(s) /\ DOMAIN s = 1..n /\ \A k \in 1..n : s[k] \in Choice
  OBVIOUS
<1> DEFINE Folded(g) == g = [t \in SUBSET (1..n) |->
                                IF t = {} THEN p ELSE Merge(g[t \ {Max(t)}], s[Max(t)])]
<1>2. \E g : Folded(g)
  <2> DEFINE step == [k \in 1..n |-> [q \in Parsed |-> Merge(q, s[k])]]
  <2>1. step \in [1..n -> [Parsed -> Parsed]]
    BY <1>1, MergeType
  <2>2. PICK g \in [SUBSET (1..n) -> Parsed] : Solves(g, n, p, step)
    <3> HIDE DEF step
    <3> QED
      BY <2>1, FoldSolves
  <2>3. \A t \in SUBSET (1..n) :
           t # {} => step[Max(t)][g[t \ {Max(t)}]] = Merge(g[t \ {Max(t)}], s[Max(t)])
    BY MaxIn
  <2>4. Folded(g)
    <3> HIDE DEF step
    <3> QED
      BY <2>2, <2>3 DEF Solves
  <2> HIDE DEF Folded
  <2> QED
    BY <2>4
<1>3. PICK g : Folded(g) /\ FoldLeft(Merge, p, s) = g[1..n]
  BY <1>1, <1>2, ZenonT(30) DEF FoldLeft, MapThenFoldSet
<1>4. g[{}] = p /\ \A k \in 1..n : g[1..k] = Merge(g[1..(k - 1)], s[k])
  BY <1>3, UpTo, ZenonT(90)
<1>5. Reached(g, n) \in [0..n -> Parsed]
  <2>1. \A k \in 1..n : g[1..(k - 1)] \in Parsed => g[1..k] \in Parsed
    BY <1>1, <1>4, MergeType
  <2> QED
    BY <1>4, <2>1, RunStays
<1>6. \A k \in 0..n : Reached(g, n)[k] = g[1..k]
  BY DEF Reached
<1>7. 1..0 = {} /\ \A k \in 1..n : k \in 0..n /\ k - 1 \in 0..n
  OBVIOUS
<1>8. PICK x : x = Reached(g, n)
  OBVIOUS
<1>9. x[0] = p /\ x[n] = g[1..n]
  BY <1>4, <1>6, <1>7, <1>8
<1>10. \A k \in 1..n : x[k] = Merge(x[k - 1], s[k])
  BY <1>4, <1>6, <1>7, <1>8
<1> QED
  BY <1>1, <1>3, <1>5, <1>8, <1>9, <1>10

\* A payload, a line: see MergeType.
LEMMA TakeType ==
    ASSUME NEW p \in Parsed, NEW b \in Byte PROVE Take(p, b) \in Parsed
<1>1. b.choices \in Seq(Choice)
  BY DEF Byte
<1>2. FoldLeft(Merge, p, b.choices) \in Parsed
  <2>1. PICK s \in Seq(Choice) : s = b.choices
    BY <1>1
  <2>2. PICK x \in [0..Len(s) -> Parsed] : FoldLeft(Merge, p, s) = x[Len(s)]
    BY MergeFold, ZenonT(30)
  <2> QED
    BY <2>1, <2>2
<1>3. [p EXCEPT !.completed = TRUE] \in Parsed /\ [p EXCEPT !.raised = TRUE] \in Parsed
  BY DEF Parsed
<1> QED
  BY <1>2, <1>3 DEF Take

\* See MergeType.
LEMMA TakeLineType ==
    ASSUME NEW p \in Parsed, NEW l \in Line PROVE TakeLine(p, l) \in Parsed
BY TakeType DEF TakeLine, Line, Byte

\* The lines of an event are taken one after the other.
LEMMA TakeLineFold ==
    ASSUME NEW p \in Parsed, NEW s \in Seq(Line)
    PROVE  \E x \in [0..Len(s) -> Parsed] :
              /\ x[0] = p /\ \A k \in 1..Len(s) : x[k] = TakeLine(x[k - 1], s[k])
              /\ FoldLeft(TakeLine, p, s) = x[Len(s)]
<1>1. PICK n \in Nat : n = Len(s) /\ DOMAIN s = 1..n /\ \A k \in 1..n : s[k] \in Line
  OBVIOUS
<1> DEFINE Folded(g) == g = [t \in SUBSET (1..n) |->
                                IF t = {} THEN p ELSE TakeLine(g[t \ {Max(t)}], s[Max(t)])]
<1>2. \E g : Folded(g)
  <2> DEFINE step == [k \in 1..n |-> [q \in Parsed |-> TakeLine(q, s[k])]]
  <2>1. step \in [1..n -> [Parsed -> Parsed]]
    BY <1>1, TakeLineType
  <2>2. PICK g \in [SUBSET (1..n) -> Parsed] : Solves(g, n, p, step)
    <3> HIDE DEF step
    <3> QED
      BY <2>1, FoldSolves
  <2>3. \A t \in SUBSET (1..n) :
           t # {} => step[Max(t)][g[t \ {Max(t)}]] = TakeLine(g[t \ {Max(t)}], s[Max(t)])
    BY MaxIn
  <2>4. Folded(g)
    <3> HIDE DEF step
    <3> QED
      BY <2>2, <2>3 DEF Solves
  <2> HIDE DEF Folded
  <2> QED
    BY <2>4
<1>3. PICK g : Folded(g) /\ FoldLeft(TakeLine, p, s) = g[1..n]
  BY <1>1, <1>2 DEF FoldLeft, MapThenFoldSet
<1>4. g[{}] = p /\ \A k \in 1..n : g[1..k] = TakeLine(g[1..(k - 1)], s[k])
  BY <1>3, UpTo
<1>5. Reached(g, n) \in [0..n -> Parsed]
  <2>1. \A k \in 1..n : g[1..(k - 1)] \in Parsed => g[1..k] \in Parsed
    BY <1>1, <1>4, TakeLineType
  <2> QED
    BY <1>4, <2>1, RunStays
<1>6. \A k \in 0..n : Reached(g, n)[k] = g[1..k]
  BY DEF Reached
<1>7. 1..0 = {} /\ \A k \in 1..n : k \in 0..n /\ k - 1 \in 0..n
  OBVIOUS
<1>8. PICK x : x = Reached(g, n)
  OBVIOUS
<1>9. x[0] = p /\ x[n] = g[1..n]
  BY <1>4, <1>6, <1>7, <1>8
<1>10. \A k \in 1..n : x[k] = TakeLine(x[k - 1], s[k])
  BY <1>4, <1>6, <1>7, <1>8
<1> QED
  BY <1>1, <1>3, <1>5, <1>8, <1>9, <1>10

\* See MergeType.
LEMMA TakeEventType ==
    ASSUME NEW p \in Parsed, NEW e \in Event PROVE TakeEvent(p, e) \in Parsed
<1>1. PICK s \in Seq(Line) : s = e
  BY DEF Event
<1>2. PICK x \in [0..Len(s) -> Parsed] : FoldLeft(TakeLine, p, s) = x[Len(s)]
  BY TakeLineFold
<1> QED
  BY <1>1, <1>2 DEF TakeEvent

\* The events of a stream are taken one after the other.
LEMMA TakeEventFold ==
    ASSUME NEW p \in Parsed, NEW s \in Seq(Event)
    PROVE  \E x \in [0..Len(s) -> Parsed] :
              /\ x[0] = p /\ \A k \in 1..Len(s) : x[k] = TakeEvent(x[k - 1], s[k])
              /\ FoldLeft(TakeEvent, p, s) = x[Len(s)]
<1>1. PICK n \in Nat : n = Len(s) /\ DOMAIN s = 1..n /\ \A k \in 1..n : s[k] \in Event
  OBVIOUS
<1> DEFINE Folded(g) == g = [t \in SUBSET (1..n) |->
                                IF t = {} THEN p ELSE TakeEvent(g[t \ {Max(t)}], s[Max(t)])]
<1>2. \E g : Folded(g)
  <2> DEFINE step == [k \in 1..n |-> [q \in Parsed |-> TakeEvent(q, s[k])]]
  <2>1. step \in [1..n -> [Parsed -> Parsed]]
    BY <1>1, TakeEventType
  <2>2. PICK g \in [SUBSET (1..n) -> Parsed] : Solves(g, n, p, step)
    <3> HIDE DEF step
    <3> QED
      BY <2>1, FoldSolves
  <2>3. \A t \in SUBSET (1..n) :
           t # {} => step[Max(t)][g[t \ {Max(t)}]] = TakeEvent(g[t \ {Max(t)}], s[Max(t)])
    BY MaxIn
  <2>4. Folded(g)
    <3> HIDE DEF step
    <3> QED
      BY <2>2, <2>3 DEF Solves
  <2> HIDE DEF Folded
  <2> QED
    BY <2>4
<1>3. PICK g : Folded(g) /\ FoldLeft(TakeEvent, p, s) = g[1..n]
  BY <1>1, <1>2 DEF FoldLeft, MapThenFoldSet
<1>4. g[{}] = p /\ \A k \in 1..n : g[1..k] = TakeEvent(g[1..(k - 1)], s[k])
  BY <1>3, UpTo
<1>5. Reached(g, n) \in [0..n -> Parsed]
  <2>1. \A k \in 1..n : g[1..(k - 1)] \in Parsed => g[1..k] \in Parsed
    BY <1>1, <1>4, TakeEventType
  <2> QED
    BY <1>4, <2>1, RunStays
<1>6. \A k \in 0..n : Reached(g, n)[k] = g[1..k]
  BY DEF Reached
<1>7. 1..0 = {} /\ \A k \in 1..n : k \in 0..n /\ k - 1 \in 0..n
  OBVIOUS
<1>8. PICK x : x = Reached(g, n)
  OBVIOUS
<1>9. x[0] = p /\ x[n] = g[1..n]
  BY <1>4, <1>6, <1>7, <1>8
<1>10. \A k \in 1..n : x[k] = TakeEvent(x[k - 1], s[k])
  BY <1>4, <1>6, <1>7, <1>8
<1> QED
  BY <1>1, <1>3, <1>5, <1>8, <1>9, <1>10

\* The turn of ConsumeEvent that looks at byte k.
TakeAt(event, p, k) ==
    IF k > 1 /\ event[k - 1].kind = "data" THEN Take(p, event[k]) ELSE p

\* See MergeType.
LEMMA TakeAtType ==
    ASSUME NEW s \in Seq(Byte), NEW k \in 1..Len(s), NEW p \in Parsed
    PROVE  TakeAt(s, p, k) \in Parsed
<1>1. s[k] \in Byte
  OBVIOUS
<1> QED
  BY <1>1, TakeType DEF TakeAt

\* An event's bytes are gone through one after the other.
LEMMA ConsumeEventFold ==
    ASSUME NEW p \in Parsed, NEW s \in Seq(Byte)
    PROVE  \E x \in [0..Len(s) -> Parsed] :
              /\ x[0] = p /\ \A k \in 1..Len(s) : x[k] = TakeAt(s, x[k - 1], k)
              /\ ConsumeEvent(p, s) = x[Len(s)]
<1>1. PICK n \in Nat : n = Len(s) /\ DOMAIN s = 1..n /\ \A k \in 1..n : s[k] \in Byte
  OBVIOUS
<1> DEFINE index == [k \in DOMAIN s |-> k]
           Folded(g) == g = [t \in SUBSET DOMAIN index |->
                                IF t = {} THEN p
                                ELSE TakeAt(s, g[t \ {Max(t)}], index[Max(t)])]
<1>2. \E g : Folded(g)
  <2> DEFINE step == [k \in 1..n |-> [q \in Parsed |-> TakeAt(s, q, k)]]
  <2>1. step \in [1..n -> [Parsed -> Parsed]]
    BY <1>1, TakeAtType
  <2>2. PICK g \in [SUBSET (1..n) -> Parsed] : Solves(g, n, p, step)
    <3> HIDE DEF step
    <3> QED
      BY <2>1, FoldSolves
  <2>3. \A t \in SUBSET (1..n) :
           t # {} => step[Max(t)][g[t \ {Max(t)}]]
                      = TakeAt(s, g[t \ {Max(t)}], index[Max(t)])
    BY <1>1, MaxIn
  <2>4. Folded(g)
    <3> HIDE DEF step
    <3> QED
      BY <1>1, <2>2, <2>3 DEF Solves
  <2> HIDE DEF Folded
  <2> QED
    BY <2>4
<1>3. PICK g : Folded(g) /\ ConsumeEvent(p, s) = g[DOMAIN index]
  BY <1>2 DEF ConsumeEvent, FoldLeftDomain, FoldLeft, MapThenFoldSet, TakeAt
<1>4. g[{}] = p /\ \A k \in 1..n : g[1..k] = TakeAt(s, g[1..(k - 1)], k)
  <2>1. DOMAIN index = 1..n /\ \A k \in 1..n : index[k] = k
    BY <1>1
  <2> HIDE DEF index
  <2>2. g = [t \in SUBSET (1..n) |-> IF t = {} THEN p
                                     ELSE TakeAt(s, g[t \ {Max(t)}], index[Max(t)])]
    BY <1>3, <2>1
  <2>3. g[{}] = p
    BY <2>2
  <2>4. ASSUME NEW k \in 1..n PROVE g[1..k] = TakeAt(s, g[1..(k - 1)], k)
    <3>1. PICK t \in SUBSET (1..n) : t = 1..k /\ t # {} /\ Max(t) = k /\ t \ {k} = 1..(k - 1)
      BY UpTo
    <3>2. g[t] = TakeAt(s, g[t \ {Max(t)}], index[Max(t)])
      BY <2>2, <3>1
    <3> QED
      BY <2>1, <3>1, <3>2
  <2> QED
    BY <2>3, <2>4
<1>5. Reached(g, n) \in [0..n -> Parsed]
  <2>1. \A k \in 1..n : g[1..(k - 1)] \in Parsed => g[1..k] \in Parsed
    BY <1>1, <1>4, TakeAtType
  <2> QED
    BY <1>4, <2>1, RunStays
<1>6. \A k \in 0..n : Reached(g, n)[k] = g[1..k]
  BY DEF Reached
<1>7. 1..0 = {} /\ \A k \in 1..n : k \in 0..n /\ k - 1 \in 0..n
  OBVIOUS
<1>8. PICK x : x = Reached(g, n)
  OBVIOUS
<1>9. x[0] = p /\ x[n] = g[1..n]
  BY <1>4, <1>6, <1>7, <1>8
<1>10. \A k \in 1..n : x[k] = TakeAt(s, x[k - 1], k)
  BY <1>4, <1>6, <1>7, <1>8
<1> QED
  BY <1>1, <1>3, <1>5, <1>8, <1>9, <1>10

-----------------------------------------------------------------------------
(* Flattened sequences *)

\* The prefixes of a flattened sequence, one piece after the other.
LEMMA Flattening ==
    ASSUME NEW T, NEW q \in Seq(Seq(T))
    PROVE  \E x \in [0..Len(q) -> Seq(T)] :
              /\ x[0] = <<>> /\ \A k \in 1..Len(q) : x[k] = x[k - 1] \o q[k]
              /\ \A k \in 0..Len(q) : FlattenSeq(SubSeq(q, 1, k)) = x[k]
              /\ FlattenSeq(q) = x[Len(q)]
<1>1. PICK n \in Nat : n = Len(q) /\ DOMAIN q = 1..n /\ \A k \in 1..n : q[k] \in Seq(T)
  OBVIOUS
<1> DEFINE S == Seq(T)
           step == [k \in 1..n |-> [t \in S |-> t \o q[k]]]
<1>2. step \in [1..n -> [S -> S]] /\ <<>> \in S
  BY <1>1
<1>3. PICK g \in [SUBSET (1..n) -> S] : Folding(g, n, <<>>, step)
  <2> HIDE DEF S, step
  <2> QED
    BY <1>2, FoldExists
<1>4. PICK x \in [0..n -> S] : x = Reached(g, n)
  <2>1. \A k \in 0..n : 1..k \in SUBSET (1..n)
    OBVIOUS
  <2>2. \A k \in 0..n : g[1..k] \in S
    <3> HIDE DEF S
    <3> QED
      BY <2>1
  <2>3. Reached(g, n) \in [0..n -> S]
    BY <2>2 DEF Reached
  <2> QED
    BY <2>3
<1>5. x[0] = <<>>
  <2>1. {} \in SUBSET (1..n) /\ 1..0 = {} /\ 0 \in 0..n
    OBVIOUS
  <2> HIDE DEF S, step
  <2>2. g[{}] = <<>>
    BY <1>3, <2>1 DEF Folding
  <2> QED
    BY <1>4, <2>1, <2>2 DEF Reached
<1>6. ASSUME NEW k \in 1..n PROVE x[k] = x[k - 1] \o q[k]
  <2>1. PICK j \in 0..n : j = k - 1
    OBVIOUS
  <2>2. g[1..k] = step[k][g[1..j]]
    <3> HIDE DEF step, S
    <3> QED
      BY <1>3, <2>1, UpTo, ZenonT(90) DEF Folding
  <2>3. x[k] = g[1..k] /\ x[j] = g[1..j] /\ x[j] \in S
    BY <1>4 DEF Reached
  <2>4. step[k][x[j]] = x[j] \o q[k]
    BY <2>3
  <2> QED
    BY <2>1, <2>2, <2>3, <2>4
<1> HIDE DEF step
<1>7. ASSUME NEW m \in 1..n, NEW r \in Seq(Seq(T)), Len(r) = m,
             \A k \in 1..m : r[k] = q[k]
      PROVE  FlattenSeq(r) = x[m]
  <2> DEFINE Flat(f) == f = [i \in 1..Len(r) |-> IF i = 1 THEN r[i] ELSE f[i - 1] \o r[i]]
  <2>1. Flat([i \in 1..m |-> x[i]])
    <3>1. x[1] = r[1]
      <4>1. 1 \in 1..n /\ 1 - 1 = 0 /\ q[1] \in Seq(T) /\ r[1] = q[1]
        BY <1>1, <1>7
      <4>2. x[1] = <<>> \o q[1]
        BY <1>5, <1>6, <4>1
      <4> QED
        BY <4>1, <4>2
    <3>2. ASSUME NEW i \in 1..m, i # 1
          PROVE  i - 1 \in 1..m /\ x[i] = x[i - 1] \o r[i]
      <4>1. i \in 1..n /\ i - 1 \in 1..m /\ r[i] = q[i]
        BY <1>7, <3>2, SMTT(30)
      <4> QED
        BY <1>6, <4>1
    <3> QED
      BY <1>7, <3>1, <3>2
  <2>2. \E f : Flat(f)
    <3> HIDE DEF Flat
    <3> QED
      BY <2>1
  <2>3. PICK f : Flat(f) /\ FlattenSeq(r) = f[m]
    <3>1. FlattenSeq(r) = (CHOOSE f : Flat(f))[Len(r)]
      <4>1. Len(r) # 0
        BY <1>7
      <4> QED
        BY <4>1, Zenon DEF FlattenSeq
    <3> HIDE DEF Flat
    <3> QED
      BY <1>7, <2>2, <3>1
  <2> DEFINE U == {k \in 0..m : k = 0 \/ f[k] = x[k]}
  <2>4. ASSUME NEW k \in 0..m, k < m, k \in U PROVE k + 1 \in U
    <3>1. PICK i \in 1..m : i = k + 1 /\ i - 1 = k
      BY <2>4
    <3>2. CASE i = 1
      <4>1. f[i] = r[i] /\ x[i] = r[i]
        BY <1>7, <2>1, <2>3, <3>2
      <4> QED
        BY <3>1, <4>1
    <3>3. CASE i # 1
      <4>1. f[i] = f[k] \o r[i]
        <5>1. f[i] = f[i - 1] \o r[i]
          BY <1>7, <2>3, <3>3
        <5> QED
          BY <3>1, <5>1
      <4>2. f[k] = x[k]
        BY <2>4, <3>1, <3>3
      <4>3. x[i] = x[k] \o r[i]
        <5>1. i \in 1..n /\ r[i] = q[i]
          BY <1>7
        <5>2. x[i] = x[i - 1] \o q[i]
          BY <1>6, <5>1
        <5> QED
          BY <3>1, <5>1, <5>2
      <4> QED
        <5>1. f[i] = x[i] /\ i \in 0..m
          BY <4>1, <4>2, <4>3
        <5> QED
          BY <3>1, <5>1
    <3> QED
      BY <3>2, <3>3
  <2>5. 0..m \subseteq U
    <3>1. 0 \in U /\ m \in Nat
      OBVIOUS
    <3> HIDE DEF U
    <3> QED
      BY <2>4, <3>1, CountingTo
  <2>6. f[m] = x[m]
    <3>1. m \in 0..m /\ m # 0
      OBVIOUS
    <3> QED
      BY <2>5, <3>1
  <2> QED
    BY <2>3, <2>6
<1>8. ASSUME NEW k \in 0..n PROVE FlattenSeq(SubSeq(q, 1, k)) = x[k]
  <2>1. PICK r \in Seq(Seq(T)) : r = SubSeq(q, 1, k) /\ Len(r) = k
                                 /\ \A i \in 1..k : r[i] = q[i]
    <3>1. \A i \in 1..k : q[i] \in Seq(T) /\ 1 + i - 1 = i
      BY <1>1
    <3>2. PICK U : U = Seq(T)
      OBVIOUS
    <3>3. /\ SubSeq(q, 1, k) \in Seq(U)
          /\ Len(SubSeq(q, 1, k)) = IF 1 <= k THEN k - 1 + 1 ELSE 0
          /\ \A i \in 1..(k - 1 + 1) : SubSeq(q, 1, k)[i] = q[1 + i - 1]
      BY <3>1, <3>2, SubSeqProperties
    <3>4. PICK r : r = SubSeq(q, 1, k)
      OBVIOUS
    <3>5. r \in Seq(U) /\ Len(r) = k /\ \A i \in 1..k : r[i] = q[i]
      BY <3>1, <3>3, <3>4
    <3> QED
      BY <3>2, <3>4, <3>5
  <2>2. CASE k = 0
    <3>1. r = <<>>
      BY <2>1, <2>2
    <3> QED
      BY <1>5, <2>1, <2>2, <3>1 DEF FlattenSeq
  <2>3. CASE k # 0
    <3>1. k \in 1..n
      BY <2>3
    <3>2. FlattenSeq(r) = x[k]
      BY <1>7, <2>1, <3>1
    <3> QED
      BY <2>1, <3>2
  <2> QED
    BY <2>2, <2>3
<1>9. FlattenSeq(q) = x[n]
  <2>1. SubSeq(q, 1, n) = q
    BY <1>1
  <2>2. FlattenSeq(SubSeq(q, 1, n)) = x[n]
    BY <1>8
  <2> QED
    BY <2>1, <2>2
<1> QED
  BY <1>1, <1>5, <1>6, <1>8, <1>9

\* Where the pieces of a flattened sequence lie: piece k ends at byte l[k].
Layout(l, q) ==
    /\ l \in [0..Len(q) -> Nat] /\ l[0] = 0
    /\ \A k \in 1..Len(q) : l[k] = l[k - 1] + Len(q[k])
    /\ Len(FlattenSeq(q)) = l[Len(q)]
    /\ \A k \in 0..Len(q) : Len(FlattenSeq(SubSeq(q, 1, k))) = l[k]
    /\ \A k \in 1..Len(q) : \A i \in 1..Len(q[k]) : FlattenSeq(q)[l[k - 1] + i] = q[k][i]

\* Where the pieces of a flattened sequence lie in it.
LEMMA Pieces ==
    ASSUME NEW T, NEW q \in Seq(Seq(T))
    PROVE  FlattenSeq(q) \in Seq(T) /\ \E l : Layout(l, q)
<1>1. PICK n \in Nat : n = Len(q) /\ DOMAIN q = 1..n /\ \A k \in 1..n : q[k] \in Seq(T)
  OBVIOUS
<1>2. PICK x \in [0..n -> Seq(T)] :
         /\ x[0] = <<>> /\ \A k \in 1..n : x[k] = x[k - 1] \o q[k]
         /\ \A k \in 0..n : FlattenSeq(SubSeq(q, 1, k)) = x[k]
         /\ FlattenSeq(q) = x[n]
  BY <1>1, Flattening
<1> DEFINE l == [k \in 0..n |-> Len(x[k])]
<1>3. l \in [0..n -> Nat] /\ \A k \in 0..n : l[k] = Len(x[k])
  OBVIOUS
<1>4. ASSUME NEW k \in 1..n
      PROVE  /\ l[k] = l[k - 1] + Len(q[k]) /\ l[k - 1] \in Nat
             /\ \A i \in 1..l[k - 1] : x[k][i] = x[k - 1][i]
             /\ \A i \in 1..Len(q[k]) : x[k][l[k - 1] + i] = q[k][i]
  <2>1. PICK j \in 0..n : j = k - 1
    OBVIOUS
  <2>2. PICK s \in Seq(T), t \in Seq(T) : s = x[j] /\ t = q[k] /\ x[k] = s \o t
    BY <1>1, <1>2, <2>1
  <2>3. l[j] = Len(s) /\ l[k] = Len(s \o t)
    <3>1. j \in 0..n /\ k \in 0..n
      OBVIOUS
    <3> HIDE DEF l
    <3> QED
      BY <1>3, <2>2, <3>1
  <2>4. /\ Len(s \o t) = Len(s) + Len(t)
        /\ \A i \in 1..Len(s) : (s \o t)[i] = s[i]
        /\ \A i \in 1..Len(t) : (s \o t)[Len(s) + i] = t[i]
    OBVIOUS
  <2> HIDE DEF l
  <2> QED
    BY <2>1, <2>2, <2>3, <2>4, SMTT(30)
<1> HIDE DEF l
<1>5. ASSUME NEW k \in 1..n, NEW i \in 1..Len(q[k]) PROVE x[n][l[k - 1] + i] = q[k][i]
  <2>1. PICK p \in Nat : p = l[k - 1] + i /\ p <= l[k] /\ p >= 1
    <3>1. PICK a \in Nat, b \in Nat : a = l[k - 1] /\ b = Len(q[k]) /\ l[k] = a + b
      <4>1. l[k - 1] \in Nat /\ l[k] = l[k - 1] + Len(q[k])
        BY <1>4
      <4>2. Len(q[k]) \in Nat
        BY <1>1
      <4> QED
        BY <4>1, <4>2
    <3>2. i \in 1..b
      BY <3>1
    <3>3. a + i \in Nat /\ a + i <= a + b /\ a + i >= 1
      BY <3>2
    <3> QED
      BY <3>1, <3>3
  <2>2. PICK d \in Nat : d = n - k /\ k + d = n
    OBVIOUS
  <2> DEFINE V == {m \in 0..d : p <= l[k + m] /\ x[k + m][p] = q[k][i]}
  <2>3. 0 \in V
    BY <1>4, <2>1, SMTT(30)
  <2>4. ASSUME NEW m \in 0..d, m < d, m \in V PROVE m + 1 \in V
    <3>1. PICK h \in 1..n : h = k + m + 1 /\ h - 1 = k + m /\ k + (m + 1) = h
      BY <2>2, <2>4
    <3>2. p <= l[h - 1] /\ x[h - 1][p] = q[k][i]
      BY <2>4, <3>1
    <3>3. x[h][p] = x[h - 1][p] /\ l[h] = l[h - 1] + Len(q[h]) /\ l[h - 1] \in Nat
      <4>1. l[h] = l[h - 1] + Len(q[h]) /\ l[h - 1] \in Nat
        BY <1>4
      <4>2. p \in 1..l[h - 1]
        <5>1. PICK a \in Nat : a = l[h - 1]
          BY <4>1
        <5>2. p <= a /\ p >= 1
          BY <2>1, <3>2, <5>1
        <5> QED
          BY <5>1, <5>2
      <4>3. x[h][p] = x[h - 1][p]
        BY <1>4, <4>2
      <4> QED
        BY <4>1, <4>3
    <3>4. PICK a \in Nat, b \in Nat : a = l[h - 1] /\ b = Len(q[h]) /\ l[h] = a + b
      BY <1>1, <3>3, SMTT(30)
    <3>5. p <= l[h]
      <4>1. p <= a
        BY <3>2, <3>4, Zenon
      <4>2. p <= a + b
        BY <4>1
      <4> QED
        BY <3>4, <4>2, Zenon
    <3>6. x[h][p] = q[k][i]
      BY <3>2, <3>3
    <3>7. m + 1 \in 0..d
      BY <2>4, SMTT(90)
    <3> QED
      BY <3>1, <3>5, <3>6, <3>7
  <2>5. 0..d \subseteq V
    <3> HIDE DEF V
    <3> QED
      BY <2>3, <2>4, CountingTo
  <2>6. d \in V
    <3> HIDE DEF V
    <3> QED
      BY <2>5
  <2> QED
    BY <2>1, <2>2, <2>6
<1>6. l[0] = 0
  BY <1>2, <1>3
<1>7. FlattenSeq(q) \in Seq(T) /\ Len(FlattenSeq(q)) = l[n]
  BY <1>2, <1>3
<1>8. \A k \in 0..n : Len(FlattenSeq(SubSeq(q, 1, k))) = l[k]
  BY <1>2, <1>3
<1>9. /\ \A k \in 1..n : l[k] = l[k - 1] + Len(q[k])
      /\ \A k \in 1..n : \A i \in 1..Len(q[k]) : FlattenSeq(q)[l[k - 1] + i] = q[k][i]
  BY <1>2, <1>4, <1>5
<1>10. Layout(l, q)
  BY <1>1, <1>3, <1>6, <1>7, <1>8, <1>9 DEF Layout
<1> QED
  BY <1>7, <1>10

\* Concatenation is associative.
Associates(a, b, c) == (a \o b) \o c = a \o (b \o c)

LEMMA Associative ==
    ASSUME NEW T, NEW a \in Seq(T), NEW b \in Seq(T), NEW c \in Seq(T)
    PROVE  Associates(a, b, c)
<1>1. /\ a \o b \in Seq(T) /\ b \o c \in Seq(T)
      /\ (a \o b) \o c \in Seq(T) /\ a \o (b \o c) \in Seq(T)
  OBVIOUS
<1>2. Len((a \o b) \o c) = Len(a \o (b \o c))
  BY <1>1
<1>3. \A i \in 1..Len((a \o b) \o c) : ((a \o b) \o c)[i] = (a \o (b \o c))[i]
  BY <1>1, SMTT(30)
<1> QED
  BY <1>1, <1>2, <1>3, SeqEqual DEF Associates

\* A run that appends a piece at each step appends the flattened sequence.
Appends(y, q) == \A k \in 1..Len(q) : y[k] = y[k - 1] \o q[k]

LEMMA Appending ==
    ASSUME NEW T, NEW q \in Seq(Seq(T)), NEW y, y[0] \in Seq(T), Appends(y, q)
    PROVE  y[Len(q)] = y[0] \o FlattenSeq(q) /\ FlattenSeq(q) \in Seq(T)
<1>1. PICK n \in Nat : n = Len(q) /\ DOMAIN q = 1..n /\ \A k \in 1..n : q[k] \in Seq(T)
  OBVIOUS
<1>2. PICK x \in [0..n -> Seq(T)] :
         /\ x[0] = <<>> /\ \A k \in 1..n : x[k] = x[k - 1] \o q[k]
         /\ FlattenSeq(q) = x[n]
  BY <1>1, Flattening
<1> DEFINE V == {k \in 0..n : y[k] = y[0] \o x[k]}
<1>3. 0 \in V
  BY <1>2, SMTT(30)
<1>4. ASSUME NEW k \in 0..n, k < n, k \in V PROVE k + 1 \in V
  <2>1. PICK m \in 1..n : m = k + 1 /\ k = m - 1
    BY <1>4
  <2>2. x[m] = x[k] \o q[m] /\ y[m] = y[k] \o q[m] /\ y[k] = y[0] \o x[k]
    BY <1>1, <1>2, <1>4, <2>1 DEF Appends
  <2>3. x[k] \in Seq(T) /\ q[m] \in Seq(T)
    BY <1>1, <1>2
  <2>4. (y[0] \o x[k]) \o q[m] = y[0] \o (x[k] \o q[m])
    <3>1. PICK a \in Seq(T), b \in Seq(T), c \in Seq(T) : a = y[0] /\ b = x[k] /\ c = q[m]
      BY <2>3
    <3>2. Associates(a, b, c)
      BY Associative
    <3> QED
      BY <3>1, <3>2 DEF Associates
  <2>5. y[m] = y[0] \o x[m] /\ m \in 0..n
    BY <2>2, <2>4
  <2> QED
    BY <2>1, <2>5
<1>5. 0..n \subseteq V
  <2> HIDE DEF V
  <2> QED
    BY <1>3, <1>4, CountingTo
<1>6. n \in V
  BY <1>5, SMTT(30)
<1> QED
  BY <1>1, <1>2, <1>6, SMTT(30)
-----------------------------------------------------------------------------
(* One event *)

\* The bytes of an event: the start, the rest and the end of each line, and an
\* empty line.
Shape(e, n, b) ==
    /\ n = Len(e) /\ n > 0 /\ b = EventBytes(e) /\ Len(b) = 3 * n + 1
    /\ \A j \in 1..n :
          /\ b[3 * j - 2] = Plain(IF e[j].kind = "other" THEN "colon" ELSE "data")
          /\ b[3 * j - 1] = e[j] /\ e[j] \in Line
          /\ b[3 * j] = Plain("break")
    /\ b[3 * n + 1] = Plain("break")

\* Every event has that shape.
LEMMA EventShape ==
    ASSUME NEW e \in Event
    PROVE  \E n \in Nat, b \in Seq(Byte) : Shape(e, n, b)
<1>1. PICK n \in Nat : n = Len(e) /\ n > 0 /\ DOMAIN e = 1..n /\ \A j \in 1..n : e[j] \in Line
  BY DEF Event
<1> DEFINE q == [k \in DOMAIN e |-> LineBytes(e[k])]
<1>2. \A j \in 1..n : /\ LineBytes(e[j]) \in Seq(Byte) /\ Len(LineBytes(e[j])) = 3
                       /\ LineBytes(e[j])[1]
                             = Plain(IF e[j].kind = "other" THEN "colon" ELSE "data")
                       /\ LineBytes(e[j])[2] = e[j] /\ LineBytes(e[j])[3] = Plain("break")
  <2>1. \A kind \in {"colon", "data", "break"} : Plain(kind) \in Byte
    BY DEF Plain, Byte
  <2>2. \A j \in 1..n : e[j] \in Byte
    BY <1>1 DEF Line, Byte
  <2> QED
    BY <2>1, <2>2 DEF LineBytes
<1>3. q \in Seq(Seq(Byte)) /\ Len(q) = n /\ \A j \in 1..n : q[j] = LineBytes(e[j])
  BY <1>1, <1>2
<1>4. PICK l : Layout(l, q)
  <2> HIDE DEF q
  <2> QED
    BY <1>3, Pieces
<1> DEFINE V == {k \in 0..n : l[k] = 3 * k}
<1>5. ASSUME NEW k \in 0..n, k < n, k \in V PROVE k + 1 \in V
  <2>1. PICK m \in 1..n : m = k + 1 /\ k = m - 1
    BY <1>5
  <2>2. l[m] = l[m - 1] + Len(q[m])
    <3> HIDE DEF q
    <3> QED
      BY <1>3, <1>4 DEF Layout
  <2>3. Len(q[m]) = 3 /\ l[k] = 3 * k
    BY <1>2, <1>3, <1>5
  <2> QED
    <3>1. l[m] = 3 * k + 3 /\ m \in 0..n
      <4> HIDE DEF q, V
      <4>1. l[m] = l[k] + 3
        BY <2>1, <2>2, <2>3
      <4> QED
        BY <2>3, <4>1
    <3>2. 3 * k + 3 = 3 * (k + 1)
      OBVIOUS
    <3> QED
      BY <2>1, <3>1, <3>2
<1>6. 0..n \subseteq V
  <2>1. 0 \in V
    BY <1>4 DEF Layout
  <2> HIDE DEF V
  <2> QED
    BY <1>5, <2>1, CountingTo
<1> HIDE DEF q
<1>7. PICK f \in Seq(Byte) : f = FlattenSeq(q)
  BY <1>3, Pieces
<1>8. Len(f) = 3 * n
  BY <1>3, <1>4, <1>6, <1>7 DEF Layout
<1>9. ASSUME NEW j \in 1..n
      PROVE  /\ f[3 * j - 2] = LineBytes(e[j])[1] /\ f[3 * j - 1] = LineBytes(e[j])[2]
             /\ f[3 * j] = LineBytes(e[j])[3]
  <2>1. \A k \in 1..n : \A i \in 1..Len(q[k]) : f[l[k - 1] + i] = q[k][i]
    BY <1>3, <1>4, <1>7 DEF Layout
  <2>2. l[j - 1] = 3 * j - 3
    BY <1>6
  <2>3. \A i \in 1..3 : f[l[j - 1] + i] = LineBytes(e[j])[i]
    <3>1. Len(q[j]) = 3 /\ q[j] = LineBytes(e[j])
      BY <1>2, <1>3
    <3> QED
      BY <2>1, <3>1
  <2>4. /\ 3 * j - 3 + 1 = 3 * j - 2 /\ 3 * j - 3 + 2 = 3 * j - 1
        /\ 3 * j - 3 + 3 = 3 * j
    OBVIOUS
  <2> QED
    BY <2>2, <2>3, <2>4
<1>10. PICK b \in Seq(Byte) : b = EventBytes(e) /\ b = f \o <<Plain("break")>>
  <2>1. Plain("break") \in Byte
    BY DEF Plain, Byte
  <2>2. f \o <<Plain("break")>> \in Seq(Byte)
    BY <2>1
  <2> QED
    BY <1>7, <2>2 DEF EventBytes, q
<1>11. /\ Len(b) = 3 * n + 1 /\ b[3 * n + 1] = Plain("break")
       /\ \A i \in 1..(3 * n) : b[i] = f[i]
  BY <1>8, <1>10
<1>12. ASSUME NEW j \in 1..n
       PROVE  /\ b[3 * j - 2] = f[3 * j - 2] /\ b[3 * j - 1] = f[3 * j - 1]
              /\ b[3 * j] = f[3 * j]
  <2>1. 3 * j - 2 \in 1..(3 * n) /\ 3 * j - 1 \in 1..(3 * n) /\ 3 * j \in 1..(3 * n)
    OBVIOUS
  <2> QED
    BY <1>11, <2>1
<1>13. \A j \in 1..n :
          /\ b[3 * j - 2] = Plain(IF e[j].kind = "other" THEN "colon" ELSE "data")
          /\ b[3 * j - 1] = e[j] /\ e[j] \in Line
          /\ b[3 * j] = Plain("break")
  BY <1>1, <1>2, <1>9, <1>12, SMTT(30)
<1> QED
  BY <1>1, <1>10, <1>11, <1>13 DEF Shape

\* The one place of two line breaks is the end.
LEMMA EventGap ==
    ASSUME NEW e \in Event, NEW b, b = EventBytes(e), NEW i \in 1..(Len(b) - 1)
    PROVE  /\ b[i].kind = "break" /\ b[i + 1].kind = "break" <=> i = Len(b) - 1
<1>1. PICK n \in Nat :
         /\ n = Len(e) /\ n > 0 /\ Len(b) = 3 * n + 1
         /\ \A j \in 1..n : /\ b[3 * j - 2].kind \in {"colon", "data"}
                            /\ b[3 * j - 1].kind \in {"other", "done", "garbage", "misfit", "json"}
                            /\ b[3 * j].kind = "break"
         /\ b[3 * n + 1].kind = "break"
  <2>1. PICK n \in Nat :
           /\ n = Len(e) /\ n > 0 /\ Len(b) = 3 * n + 1
           /\ \A j \in 1..n :
                 /\ b[3 * j - 2] = Plain(IF e[j].kind = "other" THEN "colon" ELSE "data")
                 /\ b[3 * j - 1] = e[j] /\ e[j] \in Line
                 /\ b[3 * j] = Plain("break")
           /\ b[3 * n + 1] = Plain("break")
    <3>1. PICK n \in Nat, c \in Seq(Byte) : Shape(e, n, c)
      BY EventShape
    <3> QED
      BY <3>1 DEF Shape
  <2>2. \A j \in 1..n : /\ b[3 * j - 2].kind \in {"colon", "data"}
                         /\ b[3 * j - 1].kind \in {"other", "done", "garbage", "misfit", "json"}
                         /\ b[3 * j].kind = "break"
    <3>1. ASSUME NEW j \in 1..n
          PROVE  /\ b[3 * j - 2].kind \in {"colon", "data"}
                 /\ b[3 * j - 1].kind \in {"other", "done", "garbage", "misfit", "json"}
                 /\ b[3 * j].kind = "break"
      <4>1. e[j].kind \in {"other", "done", "garbage", "misfit", "json"}
        BY <2>1 DEF Line
      <4>2. Plain("colon").kind = "colon" /\ Plain("data").kind = "data"
            /\ Plain("break").kind = "break"
        BY DEF Plain
      <4> QED
        BY <2>1, <4>1, <4>2
    <3> QED
      BY <3>1
  <2>3. b[3 * n + 1].kind = "break"
    BY <2>1 DEF Plain
  <2> QED
    BY <2>1, <2>2, <2>3
<1>2. PICK j \in 1..n : i = 3 * j - 2 \/ i = 3 * j - 1 \/ i = 3 * j
  <2>1. PICK d \in Nat : d = (i + 2) \div 3
    BY <1>1
  <2>2. 3 * d <= i + 2 /\ i + 2 < 3 * d + 3
    BY <2>1
  <2>3. d \in 1..n
    BY <1>1, <2>2
  <2> QED
    BY <1>1, <2>2, <2>3
<1>3. CASE i = 3 * j - 2
  <2>1. b[i].kind \in {"colon", "data"}
    BY <1>1, <1>3, Zenon
  <2>2. i # Len(b) - 1
    BY <1>1, <1>3
  <2> QED
    BY <2>1, <2>2
<1>4. CASE i = 3 * j - 1
  <2>1. b[i].kind \in {"other", "done", "garbage", "misfit", "json"}
    BY <1>1, <1>4, Zenon
  <2>2. i # Len(b) - 1
    BY <1>1, <1>4
  <2> QED
    BY <2>1, <2>2
<1>5. CASE i = 3 * j /\ j = n
  BY <1>1, <1>5
<1>6. CASE i = 3 * j /\ j < n
  <2>1. PICK m \in 1..n : m = j + 1 /\ 3 * m - 2 = i + 1
    BY <1>6
  <2>2. b[i + 1].kind \in {"colon", "data"}
    BY <1>1, <2>1, Zenon
  <2>3. i # Len(b) - 1
    BY <1>1, <1>6
  <2> QED
    BY <2>2, <2>3
<1> QED
  BY <1>2, <1>3, <1>4, <1>5, <1>6

\* Consuming the bytes of an event up to its end takes its lines in their order.
LEMMA EventConsumed ==
    ASSUME NEW e \in Event, NEW b, b = EventBytes(e), NEW p \in Parsed
    PROVE  ConsumeEvent(p, SubSeq(b, 1, Len(b) - 2)) = TakeEvent(p, e)
<1>1. PICK n \in Nat :
         /\ n = Len(e) /\ n > 0 /\ b \in Seq(Byte) /\ Len(b) = 3 * n + 1
         /\ \A j \in 1..n :
               /\ b[3 * j - 2] = Plain(IF e[j].kind = "other" THEN "colon" ELSE "data")
               /\ b[3 * j - 1] = e[j] /\ e[j] \in Line
               /\ b[3 * j] = Plain("break")
  <2>1. PICK n \in Nat, c \in Seq(Byte) : Shape(e, n, c)
    BY EventShape
  <2> QED
    BY <2>1 DEF Shape
<1>2. PICK u \in Nat : u = 3 * n - 1
  BY <1>1
<1>3. PICK s \in Seq(Byte) : /\ s = SubSeq(b, 1, Len(b) - 2) /\ Len(s) = u
                             /\ \A i \in 1..u : s[i] = b[i]
  <2>1. Len(b) - 2 = u /\ u > 0
    BY <1>1, <1>2
  <2>2. \A i \in 1..u : b[i] \in Byte /\ 1 + i - 1 = i
    BY <1>1, <1>2
  <2>3. /\ SubSeq(b, 1, u) \in Seq(Byte)
        /\ Len(SubSeq(b, 1, u)) = IF 1 <= u THEN u - 1 + 1 ELSE 0
        /\ \A i \in 1..(u - 1 + 1) : SubSeq(b, 1, u)[i] = b[1 + i - 1]
    BY <2>2, SubSeqProperties
  <2>4. Len(SubSeq(b, 1, u)) = u /\ \A i \in 1..u : SubSeq(b, 1, u)[i] = b[i]
    BY <2>1, <2>2, <2>3
  <2> QED
    BY <2>1, <2>3, <2>4
<1>4. PICK x \in [0..u -> Parsed] : /\ x[0] = p
                                    /\ \A k \in 1..u : x[k] = TakeAt(s, x[k - 1], k)
                                    /\ ConsumeEvent(p, s) = x[u]
  BY <1>3, ConsumeEventFold, SMTT(30)
<1>5. PICK y \in [0..n -> Parsed] : /\ y[0] = p
                                    /\ \A j \in 1..n : y[j] = TakeLine(y[j - 1], e[j])
                                    /\ TakeEvent(p, e) = y[n]
  <2>1. PICK l \in Seq(Line) : l = e
    BY DEF Event
  <2> QED
    BY <1>1, <2>1, TakeLineFold, ZenonT(30) DEF TakeEvent
<1>6. ASSUME NEW j \in 1..n PROVE x[3 * j - 1] = TakeLine(x[3 * j - 2], e[j])
  <2>1. PICK k \in 1..u : k = 3 * j - 1 /\ k - 1 = 3 * j - 2 /\ k > 1 /\ k - 1 \in 1..u
    BY <1>2
  <2>2. s[k] = e[j] /\ s[k - 1].kind = IF e[j].kind = "other" THEN "colon" ELSE "data"
    <3>1. /\ b[k] = e[j]
          /\ b[k - 1] = Plain(IF e[j].kind = "other" THEN "colon" ELSE "data")
      BY <1>1, <2>1
    <3>2. s[k] = b[k] /\ s[k - 1] = b[k - 1]
      BY <1>3, <2>1
    <3> QED
      BY <3>1, <3>2 DEF Plain
  <2>3. x[k] = TakeAt(s, x[k - 1], k)
    BY <1>4
  <2>4. TakeAt(s, x[k - 1], k) = TakeLine(x[k - 1], e[j])
    BY <2>1, <2>2 DEF TakeAt, TakeLine
  <2> QED
    BY <2>1, <2>3, <2>4
<1>7. x[1] = p
  <2>1. 1 \in 1..u /\ 1 - 1 = 0
    BY <1>1, <1>2
  <2> QED
    BY <1>4, <2>1 DEF TakeAt
<1>8. ASSUME NEW j \in 1..n, j < n PROVE x[3 * j + 1] = x[3 * j - 1]
  <2>1. PICK k \in 1..u : k = 3 * j /\ k + 1 \in 1..u /\ k - 1 \in 1..u /\ k - 1 = 3 * j - 1
    BY <1>2, <1>8
  <2>2. s[k - 1].kind # "data" /\ s[k].kind # "data"
    <3>1. b[k] = Plain("break") /\ b[k - 1] = e[j] /\ e[j] \in Line
      BY <1>1, <2>1
    <3>2. s[k] = b[k] /\ s[k - 1] = b[k - 1]
      BY <1>3, <2>1
    <3> QED
      BY <3>1, <3>2, SMTT(30) DEF Line, Plain
  <2>3. x[k] = x[k - 1]
    BY <1>4, <2>2 DEF TakeAt
  <2>4. x[k + 1] = TakeAt(s, x[k], k + 1)
    <3>1. PICK m \in 1..u : m = k + 1 /\ m - 1 = k
      BY <2>1
    <3> QED
      BY <1>4, <3>1
  <2>5. TakeAt(s, x[k], k + 1) = x[k]
    <3>1. PICK m \in 1..u : m = k + 1 /\ m - 1 = k
      BY <2>1
    <3> QED
      BY <2>2, <3>1 DEF TakeAt
  <2> QED
    BY <2>1, <2>3, <2>4, <2>5
<1> DEFINE V == {j \in 0..n : j = 0 \/ x[3 * j - 1] = y[j]}
<1>9. ASSUME NEW j \in 0..n, j < n, j \in V PROVE j + 1 \in V
  <2>1. PICK m \in 1..n : m = j + 1 /\ m - 1 = j
    BY <1>9
  <2>2. x[3 * m - 1] = TakeLine(x[3 * m - 2], e[m]) /\ y[m] = TakeLine(y[j], e[m])
    BY <1>5, <1>6, <2>1
  <2>3. x[3 * m - 2] = y[j]
    <3>1. CASE j = 0
      <4>1. 3 * m - 2 = 1
        BY <2>1, <3>1
      <4> QED
        BY <1>5, <1>7, <3>1, <4>1
    <3>2. CASE j # 0
      <4>1. 3 * m - 2 = 3 * j + 1 /\ j \in 1..n
        BY <2>1, <3>2
      <4>2. x[3 * j - 1] = y[j]
        BY <1>9, <3>2
      <4> QED
        BY <1>8, <1>9, <4>1, <4>2
    <3> QED
      BY <3>1, <3>2
  <2>4. x[3 * m - 1] = y[m] /\ m \in 0..n
    BY <2>2, <2>3
  <2> QED
    BY <2>1, <2>4
<1>10. 0..n \subseteq V
  <2>1. 0 \in V
    OBVIOUS
  <2> HIDE DEF V
  <2> QED
    BY <1>9, <2>1, CountingTo
<1>11. x[3 * n - 1] = y[n]
  <2>1. n \in V
    <3> HIDE DEF V
    <3> QED
      BY <1>10
  <2> QED
    BY <1>1, <2>1
<1> QED
  BY <1>2, <1>3, <1>4, <1>5, <1>11
-----------------------------------------------------------------------------
(* A stream *)

\* The byte that event k of a stream ends with.
Offset(events, k) == Len(Bytes(SubSeq(events, 1, k)))

\* The indices of a part of a sequence.
LEMMA Slice ==
    ASSUME NEW T, NEW s \in Seq(T), NEW a \in Nat, NEW r \in a..Len(s)
    PROVE  /\ SubSeq(s, a + 1, r) \in Seq(T) /\ Len(SubSeq(s, a + 1, r)) = r - a
           /\ \A i \in 1..(r - a) : SubSeq(s, a + 1, r)[i] = s[a + i]
<1>1. \A i \in (a + 1)..r : s[i] \in T
  OBVIOUS
<1>2. a + 1 \in Int /\ r \in Int
  OBVIOUS
<1>3. /\ SubSeq(s, a + 1, r) \in Seq(T)
      /\ Len(SubSeq(s, a + 1, r)) = IF a + 1 <= r THEN r - (a + 1) + 1 ELSE 0
      /\ \A i \in 1..(r - (a + 1) + 1) : SubSeq(s, a + 1, r)[i] = s[(a + 1) + i - 1]
  BY <1>1, <1>2, SubSeqProperties
<1>4. r - (a + 1) + 1 = r - a /\ \A i \in 1..(r - a) : (a + 1) + i - 1 = a + i
  BY <1>2
<1>5. Len(SubSeq(s, a + 1, r)) = r - a
  BY <1>2, <1>3
<1> QED
  BY <1>3, <1>4, <1>5

\* The indices of the beginning of a sequence.
LEMMA Prefix ==
    ASSUME NEW T, NEW s \in Seq(T), NEW k \in 0..Len(s)
    PROVE  /\ SubSeq(s, 1, k) \in Seq(T) /\ Len(SubSeq(s, 1, k)) = k
           /\ \A i \in 1..k : SubSeq(s, 1, k)[i] = s[i]
<1>1. \A i \in 1..k : s[i] \in T /\ 1 + i - 1 = i
  OBVIOUS
<1>2. /\ SubSeq(s, 1, k) \in Seq(T)
      /\ Len(SubSeq(s, 1, k)) = IF 1 <= k THEN k - 1 + 1 ELSE 0
      /\ \A i \in 1..(k - 1 + 1) : SubSeq(s, 1, k)[i] = s[1 + i - 1]
  BY <1>1, SubSeqProperties
<1> QED
  BY <1>1, <1>2

\* Where the events of a stream lie in its bytes.
LEMMA StreamLayout ==
    ASSUME NEW events \in Seq(Event)
    PROVE  /\ Bytes(events) \in Seq(Byte) /\ Offset(events, Len(events)) = Len(Bytes(events))
           /\ Offset(events, 0) = 0 /\ \A k \in 0..Len(events) : Offset(events, k) \in Nat
           /\ \A k \in 1..Len(events) :
                 /\ EventBytes(events[k]) \in Seq(Byte) /\ Len(EventBytes(events[k])) >= 4
                 /\ Offset(events, k) = Offset(events, k - 1) + Len(EventBytes(events[k]))
                 /\ \A i \in 1..Len(EventBytes(events[k])) :
                       Bytes(events)[Offset(events, k - 1) + i] = EventBytes(events[k])[i]
<1>1. PICK n \in Nat : n = Len(events) /\ DOMAIN events = 1..n
                       /\ \A k \in 1..n : events[k] \in Event
  OBVIOUS
<1>2. \A k \in 1..n : EventBytes(events[k]) \in Seq(Byte) /\ Len(EventBytes(events[k])) >= 4
  <2>1. ASSUME NEW k \in 1..n
        PROVE  EventBytes(events[k]) \in Seq(Byte) /\ Len(EventBytes(events[k])) >= 4
    <3>1. PICK e \in Event : e = events[k]
      BY <1>1
    <3>2. PICK m \in Nat, b \in Seq(Byte) : m > 0 /\ b = EventBytes(e) /\ Len(b) = 3 * m + 1
      BY EventShape DEF Shape
    <3>3. Len(b) >= 4
      BY <3>2
    <3> QED
      BY <3>1, <3>2, <3>3
  <2> QED
    BY <2>1
<1>3. PICK q \in Seq(Seq(Byte)) : q = [k \in DOMAIN events |-> EventBytes(events[k])]
                                  /\ Len(q) = n
  <2>1. PICK T : T = Seq(Byte)
    OBVIOUS
  <2>2. PICK q : q = [k \in DOMAIN events |-> EventBytes(events[k])]
    OBVIOUS
  <2>3. q \in [1..n -> T]
    BY <1>1, <1>2, <2>1, <2>2
  <2>4. q \in Seq(T) /\ Len(q) = n
    BY <2>3
  <2> QED
    BY <2>1, <2>2, <2>4
<1>4. \A k \in 1..n : q[k] = EventBytes(events[k])
  BY <1>1, <1>3
<1>5. Bytes(events) = FlattenSeq(q)
  BY <1>3 DEF Bytes
<1>6. PICK l : Layout(l, q)
  BY Pieces
<1>7. ASSUME NEW k \in 0..n PROVE Offset(events, k) = l[k]
  <2>1. PICK s \in Seq(Event) : s = SubSeq(events, 1, k) /\ Len(s) = k
                                /\ \A i \in 1..k : s[i] = events[i]
    BY <1>1, Prefix, ZenonT(90)
  <2>2. PICK T : T = Seq(Byte)
    OBVIOUS
  <2>3. PICK t \in Seq(T) : t = SubSeq(q, 1, k) /\ Len(t) = k /\ \A i \in 1..k : t[i] = q[i]
    <3>1. q \in Seq(T) /\ k \in 0..Len(q)
      BY <1>3, <2>2
    <3>2. PICK t : t = SubSeq(q, 1, k)
      OBVIOUS
    <3>3. t \in Seq(T) /\ Len(t) = k /\ \A i \in 1..k : t[i] = q[i]
      BY <3>1, <3>2, Prefix
    <3> QED
      BY <3>2, <3>3
  <2>4. DOMAIN s = 1..k /\ t = [i \in 1..k |-> t[i]]
    BY <2>1, <2>3
  <2>5. [i \in DOMAIN s |-> EventBytes(s[i])] = t
    BY <1>4, <2>1, <2>3, <2>4, SMTT(30)
  <2>6. Bytes(s) = FlattenSeq(t)
    BY <2>5 DEF Bytes
  <2>7. Len(FlattenSeq(SubSeq(q, 1, k))) = l[k]
    BY <1>3, <1>6 DEF Layout
  <2> QED
    BY <2>1, <2>3, <2>6, <2>7 DEF Offset
<1>8. Bytes(events) \in Seq(Byte) /\ Len(Bytes(events)) = l[n]
  <2>1. FlattenSeq(q) \in Seq(Byte)
    BY Pieces
  <2> QED
    BY <1>3, <1>5, <1>6, <2>1 DEF Layout
<1>9. l[0] = 0 /\ \A k \in 0..n : l[k] \in Nat
  BY <1>3, <1>6 DEF Layout
<1>10. ASSUME NEW k \in 1..n
       PROVE  /\ l[k] = l[k - 1] + Len(EventBytes(events[k]))
              /\ \A i \in 1..Len(EventBytes(events[k])) :
                    Bytes(events)[l[k - 1] + i] = EventBytes(events[k])[i]
  BY <1>3, <1>4, <1>5, <1>6 DEF Layout
<1>11. \A k \in 1..n : k \in 0..n /\ k - 1 \in 0..n
  OBVIOUS
<1> QED
  <2>1. Offset(events, n) = Len(Bytes(events)) /\ Offset(events, 0) = 0
        /\ \A k \in 0..n : Offset(events, k) \in Nat
    BY <1>7, <1>8, <1>9, SMTT(30)
  <2>2. ASSUME NEW k \in 1..n
        PROVE  /\ Offset(events, k) = Offset(events, k - 1) + Len(EventBytes(events[k]))
               /\ \A i \in 1..Len(EventBytes(events[k])) :
                     Bytes(events)[Offset(events, k - 1) + i] = EventBytes(events[k])[i]
    <3>1. Offset(events, k) = l[k] /\ Offset(events, k - 1) = l[k - 1]
      BY <1>7, <1>11
    <3> QED
      BY <1>10, <3>1
  <2> QED
    BY <1>1, <1>2, <1>8, <2>1, <2>2

Place(events, k, e, b, o, m) ==
    /\ e = events[k] /\ b = EventBytes(e) /\ m = Len(b) /\ m >= 4
    /\ o = Offset(events, k - 1) /\ Offset(events, k) = o + m
    /\ \A i \in 1..m : Bytes(events)[o + i] = b[i]

\* The place of an event, with a name for each of its measures.
LEMMA EventPlace ==
    ASSUME NEW events \in Seq(Event), NEW k \in 1..Len(events)
    PROVE  \E e \in Event, b \in Seq(Byte), o \in Nat, m \in Nat :
              Place(events, k, e, b, o, m)
<1>1. PICK e \in Event : e = events[k]
  OBVIOUS
<1>2. PICK j \in 0..Len(events) : j = k - 1
  OBVIOUS
<1>3. PICK o \in Nat : o = Offset(events, j)
  BY StreamLayout
<1>4. PICK b \in Seq(Byte) : b = EventBytes(e)
  BY <1>1, StreamLayout
<1>5. PICK m \in Nat : m = Len(b)
  OBVIOUS
<1>6. m >= 4 /\ Offset(events, k) = o + m /\ \A i \in 1..m : Bytes(events)[o + i] = b[i]
  BY <1>1, <1>2, <1>3, <1>4, <1>5, StreamLayout
<1>7. Place(events, k, e, b, o, m)
  BY <1>1, <1>2, <1>3, <1>4, <1>5, <1>6 DEF Place
<1> QED
  BY <1>7

\* An event has bytes.
LEMMA OffsetGrows ==
    ASSUME NEW events \in Seq(Event), NEW j \in 0..Len(events), NEW k \in j..Len(events)
    PROVE  Offset(events, j) + (k - j) <= Offset(events, k)
<1>1. PICK n \in Nat : n = Len(events)
  OBVIOUS
<1>2. PICK o \in [0..n -> Nat] : \A i \in 0..n : o[i] = Offset(events, i)
  <2>1. [i \in 0..n |-> Offset(events, i)] \in [0..n -> Nat]
    BY <1>1, StreamLayout
  <2> QED
    BY <2>1
<1>3. \A i \in 1..n : o[i] >= o[i - 1] + 1
  <2>1. ASSUME NEW i \in 1..n PROVE o[i] >= o[i - 1] + 1
    <3>1. PICK m \in Nat : m = Len(EventBytes(events[i])) /\ m >= 4
                           /\ Offset(events, i) = Offset(events, i - 1) + m
      <4>1. /\ Len(EventBytes(events[i])) >= 4 /\ EventBytes(events[i]) \in Seq(Byte)
            /\ Offset(events, i) = Offset(events, i - 1) + Len(EventBytes(events[i]))
        BY <1>1, StreamLayout
      <4>2. Len(EventBytes(events[i])) \in Nat
        BY <4>1
      <4> QED
        BY <4>1, <4>2
    <3>2. i \in 0..n /\ i - 1 \in 0..n
      OBVIOUS
    <3>3. o[i] = o[i - 1] + m
      BY <1>2, <3>1, <3>2
    <3> QED
      BY <3>1, <3>2, <3>3
  <2> QED
    BY <2>1
<1>4. PICK d \in Nat : d = k - j /\ j + d = k /\ k \in 0..n
  BY <1>1
<1> DEFINE V == {m \in 0..d : o[j] + m <= o[j + m]}
<1>5. ASSUME NEW m \in 0..d, m < d, m \in V PROVE m + 1 \in V
  <2>1. PICK i \in 1..n : i = j + m + 1 /\ i - 1 = j + m /\ j + (m + 1) = i
    BY <1>1, <1>4, <1>5
  <2>2. o[j] + m <= o[i - 1] /\ o[i] >= o[i - 1] + 1
    BY <1>3, <1>5, <2>1
  <2>3. PICK a \in Nat, b \in Nat, c \in Nat : a = o[j] /\ b = o[i - 1] /\ c = o[i]
    <3>1. j \in 0..n /\ i \in 0..n /\ i - 1 \in 0..n
      BY <1>1
    <3> QED
      BY <3>1
  <2>4. a + (m + 1) <= c
    <3>1. a + m <= b /\ c >= b + 1
      BY <2>2, <2>3, Zenon
    <3> QED
      BY <3>1
  <2> QED
    BY <1>5, <2>1, <2>3, <2>4
<1>6. 0..d \subseteq V
  <2>1. o[j] + 0 <= o[j + 0]
    BY <1>1
  <2>2. 0 \in V
    BY <2>1
  <2> HIDE DEF V
  <2> QED
    BY <1>5, <2>2, CountingTo
<1>7. o[j] + d <= o[k]
  <2>1. d \in V
    <3> HIDE DEF V
    <3> QED
      BY <1>6
  <2> QED
    BY <1>4, <2>1
<1> QED
  BY <1>1, <1>2, <1>4, <1>7

\* What the first k events of a stream say.
After(events, k) == FoldLeft(TakeEvent, Nothing, SubSeq(events, 1, k))

\* Before the first event nothing has been parsed.
LEMMA NothingType == Nothing \in Parsed
BY DEF Nothing, Parsed

\* An event adds what it says to what those before it have said.
LEMMA AfterRuns ==
    ASSUME NEW events \in Seq(Event)
    PROVE  /\ After(events, 0) = Nothing
           /\ \A k \in 0..Len(events) : After(events, k) \in Parsed
           /\ \A k \in 1..Len(events) :
                 After(events, k) = TakeEvent(After(events, k - 1), events[k])
<1>1. PICK n \in Nat : n = Len(events)
  OBVIOUS
<1>2. PICK x \in [0..n -> Parsed] : /\ x[0] = Nothing
                                    /\ \A k \in 1..n : x[k] = TakeEvent(x[k - 1], events[k])
  BY <1>1, NothingType, TakeEventFold, ZenonT(90)
<1>3. ASSUME NEW k \in 0..n PROVE After(events, k) = x[k]
  <2>1. PICK s \in Seq(Event) : s = SubSeq(events, 1, k) /\ Len(s) = k
                                /\ \A i \in 1..k : s[i] = events[i]
    BY <1>1, Prefix, ZenonT(90)
  <2>2. PICK y \in [0..k -> Parsed] : /\ y[0] = Nothing
                                      /\ \A i \in 1..k : y[i] = TakeEvent(y[i - 1], s[i])
                                      /\ FoldLeft(TakeEvent, Nothing, s) = y[k]
    BY <2>1, NothingType, TakeEventFold, SMTT(30)
  <2> DEFINE V == {i \in 0..k : y[i] = x[i]}
  <2>3. ASSUME NEW i \in 0..k, i < k, i \in V PROVE i + 1 \in V
    <3>1. PICK m \in 1..k : m = i + 1 /\ m - 1 = i /\ m \in 1..n
      BY <2>3
    <3>2. y[m] = TakeEvent(y[i], s[m]) /\ x[m] = TakeEvent(x[i], events[m])
      BY <1>2, <2>2, <3>1
    <3>3. y[i] = x[i] /\ s[m] = events[m]
      BY <2>1, <2>3
    <3>4. y[m] = x[m] /\ m \in 0..k
      BY <3>2, <3>3
    <3> QED
      BY <3>1, <3>4
  <2>4. 0..k \subseteq V
    <3>1. 0 \in V /\ k \in Nat
      BY <1>2, <2>2
    <3> HIDE DEF V
    <3> QED
      BY <2>3, <3>1, CountingTo
  <2>5. y[k] = x[k]
    BY <2>4
  <2> QED
    BY <2>1, <2>2, <2>5 DEF After
<1>4. \A k \in 1..n : k \in 0..n /\ k - 1 \in 0..n
  OBVIOUS
<1>5. \A k \in 1..n : After(events, k) = TakeEvent(After(events, k - 1), events[k])
  BY <1>2, <1>3, <1>4
<1>6. After(events, 0) = Nothing /\ \A k \in 0..n : After(events, k) \in Parsed
  BY <1>2, <1>3
<1> QED
  BY <1>1, <1>5, <1>6
-----------------------------------------------------------------------------
(* A push *)

\* A turn of the loop leaves an assembler.
LEMMA TurnType ==
    ASSUME NEW a \in Assembler, NEW byte \in Byte PROVE Turn(a, byte) \in Assembler
<1>1. a.buffer \in Seq(Byte) /\ a.parsed \in Parsed
  BY DEF Assembler
<1>2. CASE Gaps(a.buffer) # {}
  <2>1. PICK gap : gap = Min(Gaps(a.buffer))
    OBVIOUS
  <2>2. gap \in 1..(Len(a.buffer) - 1)
    <3>1. Len(a.buffer) - 1 \in Nat /\ Gaps(a.buffer) \in SUBSET (1..(Len(a.buffer) - 1))
      BY <1>1, <1>2 DEF Gaps
    <3> QED
      BY <1>2, <2>1, <3>1, MinIn
  <2>3. PICK s \in Seq(Byte), t \in Seq(Byte) :
           s = SubSeq(a.buffer, 1, gap - 1) /\ t = SubSeq(a.buffer, gap + 2, Len(a.buffer))
    <3>1. PICK c \in Seq(Byte), n \in Nat : c = a.buffer /\ n = Len(c)
      BY <1>1
    <3>2. gap - 1 \in 0..n /\ gap + 1 \in Nat /\ n \in (gap + 1)..n /\ gap + 2 = (gap + 1) + 1
      BY <2>2, <3>1
    <3>3. SubSeq(c, 1, gap - 1) \in Seq(Byte)
      BY <3>1, <3>2, Prefix
    <3>4. SubSeq(c, (gap + 1) + 1, n) \in Seq(Byte)
      BY <3>1, <3>2, Slice
    <3> QED
      BY <3>1, <3>2, <3>3, <3>4
  <2>4. ConsumeEvent(a.parsed, s) \in Parsed
    <3>1. PICK p \in Parsed : p = a.parsed
      BY <1>1
    <3>2. PICK x \in [0..Len(s) -> Parsed] : ConsumeEvent(p, s) = x[Len(s)]
      BY ConsumeEventFold
    <3> QED
      BY <3>1, <3>2
  <2> QED
    BY <1>2, <2>1, <2>3, <2>4 DEF Turn, ConsumeFirst, Assembler
<1>3. CASE Gaps(a.buffer) = {}
  BY <1>3 DEF Turn
<1> QED
  BY <1>2, <1>3

\* The loop is one turn after the other.
LEMMA TurnFold ==
    ASSUME NEW p \in Assembler, NEW s \in Seq(Byte)
    PROVE  \E x \in [0..Len(s) -> Assembler] :
              /\ x[0] = p /\ \A k \in 1..Len(s) : x[k] = Turn(x[k - 1], s[k])
              /\ FoldLeft(Turn, p, s) = x[Len(s)]
<1>1. PICK n \in Nat : n = Len(s) /\ DOMAIN s = 1..n /\ \A k \in 1..n : s[k] \in Byte
  OBVIOUS
<1> DEFINE Folded(g) == g = [t \in SUBSET (1..n) |->
                                IF t = {} THEN p ELSE Turn(g[t \ {Max(t)}], s[Max(t)])]
<1>2. \E g : Folded(g)
  <2> DEFINE step == [k \in 1..n |-> [q \in Assembler |-> Turn(q, s[k])]]
  <2>1. step \in [1..n -> [Assembler -> Assembler]]
    BY <1>1, TurnType
  <2>2. PICK g \in [SUBSET (1..n) -> Assembler] : Solves(g, n, p, step)
    <3> HIDE DEF step
    <3> QED
      BY <2>1, FoldSolves
  <2>3. \A t \in SUBSET (1..n) :
           t # {} => step[Max(t)][g[t \ {Max(t)}]] = Turn(g[t \ {Max(t)}], s[Max(t)])
    BY MaxIn
  <2>4. Folded(g)
    <3> HIDE DEF step
    <3> QED
      BY <2>2, <2>3 DEF Solves
  <2> HIDE DEF Folded
  <2> QED
    BY <2>4
<1>3. PICK g : Folded(g) /\ FoldLeft(Turn, p, s) = g[1..n]
  BY <1>1, <1>2 DEF FoldLeft, MapThenFoldSet
<1>4. g[{}] = p /\ \A k \in 1..n : g[1..k] = Turn(g[1..(k - 1)], s[k])
  BY <1>3, UpTo
<1>5. Reached(g, n) \in [0..n -> Assembler]
  <2>1. \A k \in 1..n : g[1..(k - 1)] \in Assembler => g[1..k] \in Assembler
    BY <1>1, <1>4, TurnType
  <2> QED
    BY <1>4, <2>1, RunStays
<1>6. \A k \in 0..n : Reached(g, n)[k] = g[1..k]
  BY DEF Reached
<1>7. 1..0 = {} /\ \A k \in 1..n : k \in 0..n /\ k - 1 \in 0..n
  OBVIOUS
<1>8. PICK x : x = Reached(g, n)
  OBVIOUS
<1>9. x[0] = p /\ x[n] = g[1..n]
  BY <1>4, <1>6, <1>7, <1>8
<1>10. \A k \in 1..n : x[k] = Turn(x[k - 1], s[k])
  BY <1>4, <1>6, <1>7, <1>8
<1> QED
  BY <1>1, <1>3, <1>5, <1>8, <1>9, <1>10


\* The assembler when r bytes of a stream have been pushed and their first k
\* events consumed.
Held(events, k, r) ==
    [buffer |-> SubSeq(Bytes(events), Offset(events, k) + 1, r), parsed |-> After(events, k)]

\* What is held is an assembler, and its buffer a part of the stream.
LEMMA HeldType ==
    ASSUME NEW events \in Seq(Event), NEW k \in 0..Len(events),
           NEW r \in Offset(events, k)..Len(Bytes(events))
    PROVE  /\ Held(events, k, r) \in Assembler
           /\ Len(Held(events, k, r).buffer) = r - Offset(events, k)
           /\ \A i \in 1..(r - Offset(events, k)) :
                 Held(events, k, r).buffer[i] = Bytes(events)[Offset(events, k) + i]
<1>1. PICK o \in Nat, w \in Seq(Byte) : o = Offset(events, k) /\ w = Bytes(events)
  BY StreamLayout
<1>2. r \in o..Len(w)
  BY <1>1
<1>3. PICK b : b = SubSeq(w, o + 1, r)
  OBVIOUS
<1>4. b \in Seq(Byte) /\ Len(b) = r - o /\ \A i \in 1..(r - o) : b[i] = w[o + i]
  BY <1>2, <1>3, Slice
<1>5. After(events, k) \in Parsed
  BY AfterRuns
<1> QED
  BY <1>1, <1>3, <1>4, <1>5 DEF Held, Assembler

\* While a whole event is in the buffer a turn consumes it.
LEMMA TurnConsumes ==
    ASSUME NEW events \in Seq(Event), NEW k \in 1..Len(events),
           NEW r \in Offset(events, k)..Len(Bytes(events)), NEW byte
    PROVE  Turn(Held(events, k - 1, r), byte) = Held(events, k, r)
<1>1. PICK j \in 0..Len(events) : j = k - 1 /\ k \in 0..Len(events)
  OBVIOUS
<1>2. PICK w \in Seq(Byte) : w = Bytes(events)
  BY StreamLayout
<1>3. PICK e \in Event, b \in Seq(Byte), o \in Nat, m \in Nat : Place(events, k, e, b, o, m)
  BY EventPlace
<1>4. /\ o = Offset(events, j) /\ w = Bytes(events) /\ e = events[k] /\ b = EventBytes(e)
      /\ m = Len(b) /\ m >= 4 /\ Offset(events, k) = o + m
      /\ \A i \in 1..m : w[o + i] = b[i]
  BY <1>1, <1>2, <1>3 DEF Place
<1>5. m \in Nat /\ m >= 4
  BY <1>4
<1>6. r \in o..Len(w) /\ r \in (o + m)..Len(w)
  BY <1>4
<1>7. PICK h \in Assembler : h = Held(events, j, r)
  BY <1>1, <1>4, <1>6, HeldType
<1>8. PICK c \in Seq(Byte) : /\ c = h.buffer /\ c = SubSeq(w, o + 1, r) /\ Len(c) = r - o
                             /\ \A i \in 1..(r - o) : c[i] = w[o + i]
  <2>1. /\ Len(h.buffer) = r - o /\ h.buffer \in Seq(Byte)
        /\ \A i \in 1..(r - o) : h.buffer[i] = w[o + i]
    <3>1. j \in 0..Len(events) /\ r \in Offset(events, j)..Len(Bytes(events))
      BY <1>1, <1>4, <1>6
    <3>2. /\ Len(Held(events, j, r).buffer) = r - Offset(events, j)
          /\ \A i \in 1..(r - Offset(events, j)) :
                Held(events, j, r).buffer[i] = Bytes(events)[Offset(events, j) + i]
      BY <3>1, HeldType, Zenon
    <3>3. h.buffer \in Seq(Byte)
      BY DEF Assembler
    <3> QED
      BY <1>4, <1>7, <3>2, <3>3
  <2>2. h.buffer = SubSeq(w, o + 1, r)
    BY <1>4, <1>7 DEF Held
  <2> QED
    BY <2>1, <2>2
<1>9. \A i \in 1..m : c[i] = b[i]
  <2>1. \A i \in 1..m : i \in 1..(r - o)
    BY <1>6
  <2> QED
    BY <1>4, <1>8, <2>1, ZenonT(30)
<1>10. e \in Event /\ e = events[k] /\ b = EventBytes(e)
  BY <1>4
<1>11. Min(Gaps(c)) = m - 1 /\ Gaps(c) # {}
  <2>1. Gaps(c) \in SUBSET Int
    BY DEF Gaps
  <2>2. m - 1 \in Gaps(c)
    <3>1. PICK i \in 1..m : i = m - 1 /\ i + 1 = m /\ i \in 1..(Len(b) - 1) /\ i = Len(b) - 1
      <4>1. m = Len(b)
        BY <1>4
      <4>2. m - 1 \in 1..m /\ (m - 1) + 1 = m /\ m - 1 \in 1..(m - 1)
        BY <1>5
      <4> QED
        BY <4>1, <4>2
    <3>2. b[i].kind = "break" /\ b[i + 1].kind = "break"
      BY <1>10, <3>1, EventGap
    <3>3. i \in 1..(Len(c) - 1)
      <4>1. m <= r - o /\ r - o \in Int
        BY <1>6
      <4> QED
        BY <1>8, <3>1, <4>1
    <3>4. i + 1 \in 1..m
      BY <1>5, <3>1
    <3>5. c[i].kind = "break" /\ c[i + 1].kind = "break"
      BY <1>9, <3>2, <3>4
    <3>6. i \in Gaps(c)
      BY <3>3, <3>5 DEF Gaps
    <3> QED
      BY <3>1, <3>6
  <2>3. ASSUME NEW i \in Gaps(c) PROVE m - 1 <= i
    <3> SUFFICES ASSUME i < m - 1 PROVE FALSE
      BY <1>4 DEF Gaps
    <3>1. i \in 1..(Len(b) - 1) /\ i \in 1..m /\ i + 1 \in 1..m /\ i # Len(b) - 1
      BY <1>4, SMTT(90) DEF Gaps
    <3>2. c[i].kind = "break" /\ c[i + 1].kind = "break"
      BY DEF Gaps
    <3>3. b[i].kind = "break" /\ b[i + 1].kind = "break"
      BY <1>9, <3>1, <3>2
    <3> QED
      BY <1>10, <3>1, <3>3, EventGap
  <2> QED
    BY <2>1, <2>2, <2>3, MinIs
<1>12. SubSeq(c, 1, (m - 1) - 1) = SubSeq(b, 1, Len(b) - 2)
  <2>1. PICK u \in Nat : u = m - 2 /\ u = (m - 1) - 1 /\ u \in 0..Len(c) /\ u \in 0..Len(b)
    <3>1. PICK u \in Nat : u = m - 2
      BY <1>5
    <3>2. u = (m - 1) - 1 /\ u <= m /\ m <= r - o
      BY <1>6, <3>1
    <3>3. u \in 0..(r - o) /\ u \in 0..m
      BY <3>2
    <3> QED
      BY <1>4, <1>8, <3>1, <3>2, <3>3
  <2>2. PICK s : s = SubSeq(c, 1, u)
    OBVIOUS
  <2>3. PICK t : t = SubSeq(b, 1, u)
    OBVIOUS
  <2>4. s \in Seq(Byte) /\ Len(s) = u /\ \A i \in 1..u : s[i] = c[i]
    BY <2>1, <2>2, Prefix, SMTT(30)
  <2>5. t \in Seq(Byte) /\ Len(t) = u /\ \A i \in 1..u : t[i] = b[i]
    BY <2>1, <2>3, Prefix, SMTT(30)
  <2>6. \A i \in 1..u : s[i] = t[i]
    BY <1>9, <2>1, <2>4, <2>5
  <2>7. s = t
    BY <2>6, <2>4, <2>5, SeqEqual
  <2> QED
    BY <1>4, <2>1, <2>2, <2>3, <2>7
<1>13. SubSeq(c, (m - 1) + 2, Len(c)) = SubSeq(w, o + m + 1, r)
  <2>1. PICK u \in Nat, a \in Nat : u = (r - o) - m /\ a = o + m /\ u = r - a
    BY <1>6
  <2>2. m \in Nat /\ Len(c) \in m..Len(c) /\ Len(c) - m = u
    BY <1>6, <1>8, <2>1
  <2>3. r \in a..Len(w)
    BY <1>6, <2>1
  <2>4. PICK s : s = SubSeq(c, m + 1, Len(c))
    OBVIOUS
  <2>5. s \in Seq(Byte) /\ Len(s) = u /\ \A i \in 1..u : s[i] = c[m + i]
    BY <2>2, <2>4, Slice, SMTT(90)
  <2>6. PICK t : t = SubSeq(w, a + 1, r)
    OBVIOUS
  <2>7. t \in Seq(Byte) /\ Len(t) = u /\ \A i \in 1..u : t[i] = w[a + i]
    BY <2>1, <2>3, <2>6, Slice
  <2>8. ASSUME NEW i \in 1..u PROVE s[i] = t[i]
    <3>1. PICK v \in 1..(r - o) : v = m + i /\ o + v = a + i
      BY <2>1
    <3> QED
      BY <1>8, <2>5, <2>7, <3>1
  <2>9. s = t
    BY <2>5, <2>7, <2>8, SeqEqual
  <2>10. (m - 1) + 2 = m + 1
    OBVIOUS
  <2> QED
    BY <2>1, <2>4, <2>6, <2>9, <2>10
<1>14. ConsumeEvent(h.parsed, SubSeq(c, 1, (m - 1) - 1)) = After(events, k)
  <2>1. PICK p \in Parsed : p = After(events, j) /\ h.parsed = p
    BY <1>1, <1>7, AfterRuns DEF Held
  <2>2. ConsumeEvent(p, SubSeq(b, 1, Len(b) - 2)) = TakeEvent(p, e)
    BY <1>10, EventConsumed
  <2>3. After(events, k) = TakeEvent(p, e)
    BY <1>1, <1>10, <2>1, AfterRuns
  <2> QED
    BY <1>12, <2>1, <2>2, <2>3
<1>15. Turn(h, byte) = [buffer |-> SubSeq(c, (m - 1) + 2, Len(c)),
                        parsed |-> ConsumeEvent(h.parsed, SubSeq(c, 1, (m - 1) - 1))]
  BY <1>8, <1>11 DEF Turn, ConsumeFirst
<1>16. Held(events, k, r) = [buffer |-> SubSeq(w, o + m + 1, r), parsed |-> After(events, k)]
  BY <1>4 DEF Held
<1> QED
  BY <1>1, <1>7, <1>13, <1>14, <1>15, <1>16

\* While none is, the buffer has no gap.
LEMMA NoGap ==
    ASSUME NEW events \in Seq(Event), NEW k \in 0..Len(events),
           NEW r \in Offset(events, k)..Len(Bytes(events)),
           k < Len(events) => r < Offset(events, k + 1)
    PROVE  Gaps(Held(events, k, r).buffer) = {}
<1>1. PICK o \in Nat, w \in Seq(Byte) : o = Offset(events, k) /\ w = Bytes(events)
                                        /\ r \in o..Len(w)
  BY StreamLayout
<1>2. PICK c \in Seq(Byte) : c = Held(events, k, r).buffer /\ Len(c) = r - o
                             /\ \A i \in 1..(r - o) : c[i] = w[o + i]
  BY <1>1, HeldType DEF Assembler
<1>3. CASE k = Len(events)
  <2>1. r = o
    BY <1>1, <1>3, StreamLayout
  <2>2. Len(c) = 0
    BY <1>1, <1>2, <2>1
  <2> QED
    BY <1>2, <2>2 DEF Gaps
<1>4. CASE k < Len(events)
  <2>1. PICK m \in 1..Len(events) : m = k + 1 /\ m - 1 = k
    BY <1>4
  <2>2. PICK l \in Nat, b \in Seq(Byte), e \in Event :
           /\ e = events[m] /\ b = EventBytes(e) /\ l = Len(b) /\ l >= 4
           /\ Offset(events, m) = o + l /\ \A i \in 1..l : w[o + i] = b[i]
    <3>1. PICK e \in Event, b \in Seq(Byte), x \in Nat, l \in Nat : Place(events, m, e, b, x, l)
      BY EventPlace
    <3>2. x = o
      BY <1>1, <2>1, <3>1 DEF Place
    <3> QED
      BY <1>1, <3>1, <3>2, SMTT(90) DEF Place
  <2>3. r < o + l
    BY <1>4, <2>1, <2>2
  <2>4. ASSUME NEW i \in Gaps(c) PROVE FALSE
    <3>1. i \in 1..(Len(b) - 1) /\ i # Len(b) - 1 /\ i \in 1..l /\ i + 1 \in 1..l
          /\ i \in 1..(r - o) /\ i + 1 \in 1..(r - o)
      <4>1. i \in 1..((r - o) - 1)
        BY <1>2 DEF Gaps
      <4>2. i + 1 <= r - o /\ r - o < l /\ i >= 1 /\ i \in Int
        BY <1>1, <2>3, <4>1, SMTT(90)
      <4> QED
        BY <1>1, <2>2, <4>2, SMTT(90)
    <3>2. c[i].kind = "break" /\ c[i + 1].kind = "break"
      BY DEF Gaps
    <3>3. c[i] = b[i] /\ c[i + 1] = b[i + 1]
      BY <1>2, <2>2, <3>1, SMTT(30)
    <3> QED
      BY <2>2, <3>1, <3>2, <3>3, EventGap
  <2> QED
    BY <1>2, <2>4
<1> QED
  BY <1>3, <1>4

\* The loop consumes every whole event and stops.
LEMMA HeldDrained ==
    ASSUME NEW events \in Seq(Event), NEW k \in 0..Len(events), NEW m \in k..Len(events),
           NEW r \in Offset(events, m)..Len(Bytes(events)),
           m < Len(events) => r < Offset(events, m + 1)
    PROVE  Drained(Held(events, k, r)) = Held(events, m, r)
<1>1. /\ \A i \in k..m : Offset(events, i) \in Nat /\ r \in Offset(events, i)..Len(Bytes(events))
      /\ Offset(events, k) + (m - k) <= r
  <2>1. ASSUME NEW i \in k..m
        PROVE  Offset(events, i) \in Nat /\ Offset(events, i) + (m - i) <= Offset(events, m)
               /\ Offset(events, m) \in Nat
    <3>1. i \in 0..Len(events) /\ m \in i..Len(events) /\ m \in 0..Len(events)
      OBVIOUS
    <3> QED
      BY <3>1, OffsetGrows, StreamLayout
  <2>2. ASSUME NEW i \in k..m
        PROVE  r \in Offset(events, i)..Len(Bytes(events)) /\ Offset(events, i) + (m - i) <= r
    <3>1. PICK a \in Nat, b \in Nat, d \in Nat :
             a = Offset(events, i) /\ b = Offset(events, m) /\ d = m - i /\ a + d <= b
      BY <2>1, SMTT(30)
    <3>2. r \in b..Len(Bytes(events))
      BY <3>1
    <3>3. a + d <= r /\ r \in a..Len(Bytes(events))
      BY <3>1, <3>2, SMTT(30)
    <3> QED
      BY <3>1, <3>3
  <2>3. k \in k..m
    OBVIOUS
  <2> QED
    BY <2>1, <2>2, <2>3
<1>2. PICK h \in Assembler : h = Held(events, k, r) /\ Len(h.buffer) = r - Offset(events, k)
                             /\ h.buffer \in Seq(Byte)
  <2>1. r \in Offset(events, k)..Len(Bytes(events))
    BY <1>1
  <2> QED
    BY <2>1, HeldType DEF Assembler
<1>3. PICK n \in Nat : n = Len(h.buffer) /\ k + n >= m
  <2>1. PICK o \in Nat : o = Offset(events, k) /\ o + (m - k) <= r
    BY <1>1
  <2>2. Len(h.buffer) = r - o /\ r - o >= m - k /\ r - o \in Nat
    BY <1>2, <2>1, SMTT(30)
  <2> QED
    BY <2>2
<1>4. PICK x \in [0..n -> Assembler] : /\ x[0] = h
                                       /\ \A i \in 1..n : x[i] = Turn(x[i - 1], h.buffer[i])
                                       /\ FoldLeft(Turn, h, h.buffer) = x[n]
  <2>1. PICK s \in Seq(Byte) : s = h.buffer
    BY <1>2
  <2>2. PICK x \in [0..Len(s) -> Assembler] :
           /\ x[0] = h /\ \A i \in 1..Len(s) : x[i] = Turn(x[i - 1], s[i])
           /\ FoldLeft(Turn, h, s) = x[Len(s)]
    BY TurnFold
  <2> QED
    BY <1>3, <2>1, <2>2
<1> DEFINE V == {i \in 0..n : x[i] = Held(events, IF k + i <= m THEN k + i ELSE m, r)}
<1>5. ASSUME NEW i \in 0..n, i < n, i \in V PROVE i + 1 \in V
  <2>1. PICK j \in 1..n : j = i + 1 /\ j - 1 = i
    BY <1>5
  <2>2. x[j] = Turn(x[i], h.buffer[j])
    BY <1>4, <2>1
  <2>3. CASE k + j <= m
    <3>1. PICK l \in 1..Len(events) : l = k + j /\ l - 1 = k + i /\ l \in k..m /\ k + i <= m
      BY <2>1, <2>3
    <3>2. x[i] = Held(events, l - 1, r)
      BY <1>5, <3>1
    <3>3. Turn(Held(events, l - 1, r), h.buffer[j]) = Held(events, l, r)
      BY <1>1, <3>1, TurnConsumes
    <3>4. x[j] = Held(events, l, r)
      BY <2>2, <3>2, <3>3
    <3> QED
      BY <2>1, <2>3, <3>1, <3>4
  <2>4. CASE ~(k + j <= m)
    <3>1. x[i] = Held(events, m, r)
      <4>1. (IF k + i <= m THEN k + i ELSE m) = m
        BY <2>1, <2>4
      <4> QED
        BY <1>5, <4>1
    <3>2. Gaps(Held(events, m, r).buffer) = {}
      <4>1. m \in 0..Len(events)
        OBVIOUS
      <4> QED
        BY <4>1, NoGap
    <3>3. x[j] = Held(events, m, r)
      BY <2>2, <3>1, <3>2 DEF Turn
    <3> QED
      BY <2>1, <2>4, <3>3
  <2> QED
    BY <2>3, <2>4
<1>6. 0..n \subseteq V
  <2>1. 0 \in V
    <3>1. k + 0 = k /\ k <= m /\ 0 \in 0..n
      OBVIOUS
    <3> QED
      BY <1>2, <1>4, <3>1
  <2> HIDE DEF V
  <2> QED
    BY <1>5, <2>1, CountingTo
<1>7. x[n] = Held(events, m, r)
  <2>1. n \in V
    <3> HIDE DEF V
    <3> QED
      BY <1>6
  <2>2. (IF k + n <= m THEN k + n ELSE m) = m
    BY <1>3, SMTT(30)
  <2> QED
    BY <2>1, <2>2
<1> QED
  BY <1>2, <1>4, <1>7 DEF Drained

\* The number of events that r bytes of a stream hold to their last byte.
Whole(events, r) == Max({k \in 0..Len(events) : Offset(events, k) <= r})

\* The whole events end at or before byte r, the next one after it.
LEMMA WholeIs ==
    ASSUME NEW events \in Seq(Event), NEW r \in 0..Len(Bytes(events))
    PROVE  /\ Whole(events, r) \in 0..Len(events)
           /\ r \in Offset(events, Whole(events, r))..Len(Bytes(events))
           /\ Whole(events, r) < Len(events) => r < Offset(events, Whole(events, r) + 1)
<1> DEFINE S == {k \in 0..Len(events) : Offset(events, k) <= r}
<1>1. PICK n \in Nat : n = Len(events)
  OBVIOUS
<1>2. Offset(events, 0) = 0 /\ \A k \in 0..n : Offset(events, k) \in Nat
  BY <1>1, StreamLayout
<1>3. 0 \in S /\ S \in SUBSET (0..n)
  BY <1>1, <1>2
<1>4. PICK m \in S : \A k \in S : k <= m
  <2> HIDE DEF S
  <2> QED
    BY <1>3, Highest
<1>5. Max(S) = m
  <2>1. S \in SUBSET Int
    OBVIOUS
  <2> HIDE DEF S
  <2> QED
    BY <1>4, <2>1, MaxIs
<1>6. m \in 0..n /\ Offset(events, m) <= r /\ Offset(events, m) \in Nat
  BY <1>1, <1>2
<1>7. ASSUME m < n PROVE r < Offset(events, m + 1)
  <2>1. m + 1 \in 0..n /\ m + 1 \notin S
    BY <1>4, <1>6, <1>7
  <2>2. ~(Offset(events, m + 1) <= r) /\ Offset(events, m + 1) \in Nat
    BY <1>1, <1>2, <2>1
  <2> QED
    BY <2>2
<1>8. Len(Bytes(events)) \in Nat
  BY StreamLayout
<1>9. r \in Offset(events, m)..Len(Bytes(events))
  BY <1>6, <1>8
<1>10. Whole(events, r) = m
  BY <1>5 DEF Whole
<1> QED
  BY <1>1, <1>6, <1>7, <1>9, <1>10

\* More bytes, no fewer whole events.
LEMMA WholeGrows ==
    ASSUME NEW events \in Seq(Event), NEW r \in 0..Len(Bytes(events)),
           NEW t \in r..Len(Bytes(events))
    PROVE  Whole(events, r) <= Whole(events, t)
<1>1. PICK k \in 0..Len(events), m \in 0..Len(events) :
         k = Whole(events, r) /\ m = Whole(events, t) /\ t \in 0..Len(Bytes(events))
  <2>1. t \in 0..Len(Bytes(events))
    OBVIOUS
  <2> QED
    BY <2>1, WholeIs
<1> SUFFICES ASSUME m < k PROVE FALSE
  BY <1>1
<1>2. t < Offset(events, m + 1) /\ Offset(events, k) <= r /\ m + 1 \in 0..Len(events)
  BY <1>1, WholeIs
<1>3. Offset(events, m + 1) + (k - (m + 1)) <= Offset(events, k)
  <2>1. k \in (m + 1)..Len(events)
    OBVIOUS
  <2> QED
    BY <1>2, <2>1, OffsetGrows
<1>4. PICK a \in Nat, b \in Nat : a = Offset(events, m + 1) /\ b = Offset(events, k)
  BY <1>2, StreamLayout
<1>5. a + (k - (m + 1)) <= b /\ b <= r /\ t < a /\ r <= t
  BY <1>2, <1>3, <1>4
<1> QED
  BY <1>5

\* A push of the next bytes, wherever they are cut.
LEMMA PushHeld ==
    ASSUME NEW events \in Seq(Event), NEW r \in 0..Len(Bytes(events)),
           NEW n \in Nat, r + n <= Len(Bytes(events))
    PROVE  Push(Held(events, Whole(events, r), r), SubSeq(Bytes(events), r + 1, r + n))
              = Held(events, Whole(events, r + n), r + n)
<1>1. PICK w \in Seq(Byte) : w = Bytes(events)
  BY StreamLayout
<1>2. PICK t \in r..Len(w) : t = r + n /\ t \in 0..Len(w)
  BY <1>1
<1>3. PICK k \in 0..Len(events), m \in 0..Len(events) :
         k = Whole(events, r) /\ m = Whole(events, t) /\ k <= m
  BY <1>1, <1>2, WholeIs, WholeGrows
<1>4. PICK o \in Nat : o = Offset(events, k) /\ r \in o..Len(w)
  BY <1>1, <1>3, WholeIs, StreamLayout
<1>5. SubSeq(w, o + 1, r) \o SubSeq(w, r + 1, t) = SubSeq(w, o + 1, t)
  <2>1. o + 1 \in 1..(Len(w) + 1) /\ r \in ((o + 1) - 1)..Len(w) /\ t \in r..Len(w)
    BY <1>2, <1>4, SMTT(30)
  <2> QED
    BY <2>1, ConcatAdjacentSubSeq
<1>6. [Held(events, k, r) EXCEPT !.buffer = @ \o SubSeq(w, r + 1, t)] = Held(events, k, t)
  <2>1. PICK a, c, p : a = SubSeq(w, o + 1, r) /\ c = SubSeq(w, r + 1, t)
                      /\ p = After(events, k)
    OBVIOUS
  <2>2. Held(events, k, r) = [buffer |-> a, parsed |-> p]
    BY <1>1, <1>4, <2>1 DEF Held
  <2>3. Held(events, k, t) = [buffer |-> a \o c, parsed |-> p]
    BY <1>1, <1>4, <1>5, <2>1 DEF Held
  <2>4. [[buffer |-> a, parsed |-> p] EXCEPT !.buffer = @ \o c] = [buffer |-> a \o c, parsed |-> p]
    <3>1. PICK z : z = a \o c
      OBVIOUS
    <3>2. [[buffer |-> a, parsed |-> p] EXCEPT !.buffer = z] = [buffer |-> z, parsed |-> p]
      OBVIOUS
    <3>3. [buffer |-> a, parsed |-> p].buffer = a
      OBVIOUS
    <3> QED
      BY <3>1, <3>2, <3>3
  <2> QED
    BY <2>1, <2>2, <2>3, <2>4
<1>7. Drained(Held(events, k, t)) = Held(events, m, t)
  <2>1. m \in k..Len(events) /\ t \in Offset(events, m)..Len(Bytes(events))
        /\ (m < Len(events) => t < Offset(events, m + 1))
    BY <1>1, <1>2, <1>3, WholeIs
  <2> QED
    BY <2>1, HeldDrained
<1> QED
  BY <1>1, <1>2, <1>3, <1>6, <1>7 DEF Push

\* Nothing pushed, nothing parsed; all pushed, all parsed.
LEMMA HeldFresh ==
    ASSUME NEW events \in Seq(Event)
    PROVE  Held(events, Whole(events, 0), 0) = Fresh
<1>1. PICK w \in Seq(Byte) : w = Bytes(events)
  BY StreamLayout
<1>2. PICK m \in 0..Len(events) : m = Whole(events, 0) /\ 0 \in Offset(events, m)..Len(w)
  BY <1>1, WholeIs
<1>3. Offset(events, 0) = 0 /\ Offset(events, 0) + (m - 0) <= Offset(events, m)
      /\ Offset(events, m) \in Nat
  <2>1. 0 \in 0..Len(events) /\ m \in 0..Len(events)
    OBVIOUS
  <2> QED
    BY <2>1, OffsetGrows, StreamLayout
<1>4. m = 0
  <2>1. PICK a \in Nat : a = Offset(events, m) /\ 0 + (m - 0) <= a
    BY <1>3
  <2>2. a <= 0
    BY <1>2, <2>1
  <2> QED
    BY <2>1, <2>2
<1>5. SubSeq(w, 0 + 1, 0) = <<>>
  BY SubSeqEmpty
<1>6. After(events, 0) = Nothing
  BY AfterRuns
<1> QED
  BY <1>1, <1>2, <1>3, <1>4, <1>5, <1>6 DEF Held, Fresh

\* The whole stream holds all its events.
LEMMA WholeAll ==
    ASSUME NEW events \in Seq(Event)
    PROVE  Whole(events, Len(Bytes(events))) = Len(events)
<1>1. PICK n \in Nat, r \in Nat : n = Len(events) /\ r = Len(Bytes(events))
                                  /\ r \in 0..Len(Bytes(events))
  BY StreamLayout, SMTT(30)
<1>2. PICK m \in 0..n : m = Whole(events, r)
  BY <1>1, WholeIs
<1> SUFFICES ASSUME m < n PROVE FALSE
  BY <1>1, <1>2
<1>3. r < Offset(events, m + 1)
  BY <1>1, <1>2, WholeIs
<1>4. Offset(events, m + 1) + (n - (m + 1)) <= Offset(events, n) /\ Offset(events, n) = r
      /\ Offset(events, m + 1) \in Nat
  <2>1. m + 1 \in 0..Len(events) /\ n \in (m + 1)..Len(events)
    BY <1>1
  <2> QED
    BY <1>1, <2>1, OffsetGrows, StreamLayout
<1>5. PICK a \in Nat : a = Offset(events, m + 1) /\ a + (n - (m + 1)) <= r /\ r < a
  BY <1>3, <1>4
<1> QED
  BY <1>5
-----------------------------------------------------------------------------
(* What a stream says *)

\* A line appends its text, only [DONE] completes an answer, and what cannot be
\* read raises.
LEMMA LineSays ==
    ASSUME NEW p \in Parsed, NEW l \in Line
    PROVE  /\ LineText(l) \in Seq(Text)
           /\ TakeLine(p, l).content = p.content \o LineText(l)
           /\ TakeLine(p, l).completed => p.completed \/ l.kind = "done"
           /\ p.raised \/ l.kind = "misfit" => TakeLine(p, l).raised
<1>1. PICK s \in Seq(Choice) : s = l.choices /\ (l.kind # "json" => s = <<>>)
  BY DEF Line
<1>2. PICK n \in Nat : n = Len(s) /\ DOMAIN s = 1..n /\ \A k \in 1..n : s[k] \in Choice
  OBVIOUS
<1>3. PICK x \in [0..n -> Parsed] : /\ x[0] = p /\ \A k \in 1..n : x[k] = Merge(x[k - 1], s[k])
                                    /\ FoldLeft(Merge, p, s) = x[n]
  BY <1>2, MergeFold, ZenonT(30)
<1>4. PICK q : q = [k \in DOMAIN s |-> s[k].content]
  OBVIOUS
<1>5. q \in Seq(Seq(Text)) /\ Len(q) = n /\ \A k \in 1..n : q[k] = s[k].content
  <2>1. \A k \in 1..n : s[k].content \in Seq(Text)
    BY <1>2 DEF Choice
  <2>2. PICK T : T = Seq(Text)
    OBVIOUS
  <2>3. q \in [1..n -> T]
    BY <1>2, <1>4, <2>1, <2>2
  <2>4. q \in Seq(T) /\ Len(q) = n
    BY <2>3
  <2> QED
    BY <1>2, <1>4, <2>2, <2>4
<1>6. ASSUME NEW k \in 1..n
      PROVE  /\ x[k].content = x[k - 1].content \o q[k]
             /\ x[k].completed = x[k - 1].completed /\ x[k].raised = x[k - 1].raised
  <2>1. PICK y \in Parsed, c \in Choice : y = x[k - 1] /\ c = s[k]
    <3>1. k - 1 \in 0..n
      OBVIOUS
    <3> QED
      BY <1>2, <3>1
  <2>2. /\ Merge(y, c).content = y.content \o c.content
        /\ Merge(y, c).completed = y.completed /\ Merge(y, c).raised = y.raised
    BY DEF Merge, Parsed, Choice
  <2> QED
    BY <1>3, <1>5, <2>1, <2>2
<1> DEFINE y == [k \in 0..n |-> x[k].content]
<1>7. y[0] = p.content /\ y[0] \in Seq(Text) /\ y[n] = x[n].content /\ Appends(y, q)
  <2>1. y[0] = p.content /\ y[n] = x[n].content /\ p.content \in Seq(Text)
    BY <1>3 DEF Parsed
  <2>2. \A k \in 1..n : k \in 0..n /\ k - 1 \in 0..n
    OBVIOUS
  <2>3. \A k \in 1..n : y[k] = y[k - 1] \o q[k]
    BY <1>6, <2>2
  <2> HIDE DEF y
  <2> QED
    BY <1>5, <2>1, <2>3, SMTT(30) DEF Appends
<1>8. x[n].content = p.content \o FlattenSeq(q) /\ FlattenSeq(q) \in Seq(Text)
  <2> HIDE DEF y
  <2> QED
    <3>1. y[Len(q)] = y[0] \o FlattenSeq(q) /\ FlattenSeq(q) \in Seq(Text)
      BY <1>5, <1>7, Appending
    <3> QED
      BY <1>5, <1>7, <3>1
<1>9. x[n].completed = p.completed /\ x[n].raised = p.raised
  <2> DEFINE V == {k \in 0..n : x[k].completed = p.completed /\ x[k].raised = p.raised}
  <2>1. ASSUME NEW k \in 0..n, k < n, k \in V PROVE k + 1 \in V
    <3>1. PICK m \in 1..n : m = k + 1 /\ m - 1 = k
      BY <2>1
    <3>2. x[m].completed = x[k].completed /\ x[m].raised = x[k].raised /\ m \in 0..n
      <4>1. x[m].completed = x[m - 1].completed /\ x[m].raised = x[m - 1].raised
        BY <1>6
      <4> QED
        BY <3>1, <4>1
    <3> QED
      BY <2>1, <3>1, <3>2
  <2>2. 0..n \subseteq V
    <3>1. 0 \in V
      BY <1>3
    <3> HIDE DEF V
    <3> QED
      BY <2>1, <3>1, CountingTo
  <2> QED
    BY <2>2
<1>10. LineText(l) = FlattenSeq(q)
  BY <1>1, <1>4 DEF LineText
<1>11. CASE l.kind \in {"other", "done", "misfit"}
  <2>1. q = <<>>
    BY <1>1, <1>2, <1>5, <1>11
  <2>2. FlattenSeq(q) = <<>>
    BY <2>1 DEF FlattenSeq
  <2>3. p.content \in Seq(Text) /\ p.content \o <<>> = p.content
    BY ConcatEmptySeq DEF Parsed
  <2>4. TakeLine(p, l) = IF l.kind = "other" THEN p
                         ELSE IF l.kind = "done" THEN [p EXCEPT !.completed = TRUE]
                         ELSE [p EXCEPT !.raised = TRUE]
    BY <1>11 DEF TakeLine, Take
  <2>5. /\ TakeLine(p, l).content = p.content
        /\ TakeLine(p, l).completed => p.completed \/ l.kind = "done"
        /\ p.raised \/ l.kind = "misfit" => TakeLine(p, l).raised
    BY <1>11, <2>4 DEF Parsed
  <2> QED
    BY <1>8, <1>10, <2>2, <2>3, <2>5
<1>12. CASE l.kind \notin {"other", "done", "misfit"}
  <2>1. TakeLine(p, l) = x[n]
    BY <1>1, <1>3, <1>12 DEF TakeLine, Take
  <2> QED
    BY <1>8, <1>9, <1>10, <1>12, <2>1
<1> QED
  BY <1>11, <1>12

HasDone(e) == \E j \in DOMAIN e : e[j].kind = "done"
Misfits(e) == \E j \in DOMAIN e : e[j].kind = "misfit"

\* So does an event.
LEMMA EventSays ==
    ASSUME NEW p \in Parsed, NEW e \in Event
    PROVE  /\ EventText(e) \in Seq(Text)
           /\ TakeEvent(p, e).content = p.content \o EventText(e)
           /\ TakeEvent(p, e).completed => p.completed \/ HasDone(e)
           /\ p.raised \/ Misfits(e) => TakeEvent(p, e).raised
<1>1. PICK n \in Nat : n = Len(e) /\ DOMAIN e = 1..n /\ \A k \in 1..n : e[k] \in Line
                       /\ e \in Seq(Line)
  BY DEF Event
<1>2. PICK x \in [0..n -> Parsed] : /\ x[0] = p
                                    /\ \A k \in 1..n : x[k] = TakeLine(x[k - 1], e[k])
                                    /\ FoldLeft(TakeLine, p, e) = x[n]
  <2>1. PICK s \in Seq(Line) : s = e
    BY DEF Event
  <2> QED
    BY <1>1, <2>1, TakeLineFold, ZenonT(90)
<1>3. PICK q : q = [k \in DOMAIN e |-> LineText(e[k])]
  OBVIOUS
<1>4. q \in Seq(Seq(Text)) /\ Len(q) = n /\ \A k \in 1..n : q[k] = LineText(e[k])
  <2>1. \A k \in 1..n : LineText(e[k]) \in Seq(Text)
    BY <1>1, NothingType, LineSays
  <2>2. PICK T : T = Seq(Text)
    OBVIOUS
  <2>3. q \in [1..n -> T]
    BY <1>1, <1>3, <2>1, <2>2
  <2>4. q \in Seq(T) /\ Len(q) = n
    BY <2>3
  <2> QED
    BY <1>1, <1>3, <2>2, <2>4
<1>5. ASSUME NEW k \in 1..n
      PROVE  /\ x[k].content = x[k - 1].content \o q[k]
             /\ x[k].completed => x[k - 1].completed \/ e[k].kind = "done"
             /\ x[k - 1].raised \/ e[k].kind = "misfit" => x[k].raised
  <2>1. PICK y \in Parsed, l \in Line : y = x[k - 1] /\ l = e[k]
    <3>1. k - 1 \in 0..n
      OBVIOUS
    <3> QED
      BY <1>1, <3>1
  <2> QED
    BY <1>2, <1>4, <2>1, LineSays, ZenonT(30)
<1> DEFINE y == [k \in 0..n |-> x[k].content]
<1>6. y[0] = p.content /\ y[0] \in Seq(Text) /\ y[n] = x[n].content /\ Appends(y, q)
  <2>1. y[0] = p.content /\ y[n] = x[n].content /\ p.content \in Seq(Text)
    BY <1>2 DEF Parsed
  <2>2. \A k \in 1..n : k \in 0..n /\ k - 1 \in 0..n
    OBVIOUS
  <2>3. \A k \in 1..n : y[k] = y[k - 1] \o q[k]
    BY <1>5, <2>2
  <2> HIDE DEF y
  <2> QED
    BY <1>4, <2>1, <2>3, SMTT(30) DEF Appends
<1>7. x[n].content = p.content \o FlattenSeq(q) /\ FlattenSeq(q) \in Seq(Text)
  <2> HIDE DEF y
  <2> QED
    BY <1>4, <1>6, Appending, ZenonT(30)
<1>8. x[n].completed => p.completed \/ HasDone(e)
  <2> DEFINE V == {k \in 0..n : x[k].completed => p.completed \/ HasDone(e)}
  <2>1. ASSUME NEW k \in 0..n, k < n, k \in V PROVE k + 1 \in V
    <3>1. PICK m \in 1..n : m = k + 1 /\ m - 1 = k
      BY <2>1
    <3>2. m \in 0..n /\ (x[m].completed => x[k].completed \/ HasDone(e))
      <4>1. x[m].completed => x[m - 1].completed \/ e[m].kind = "done"
        BY <1>5
      <4>2. e[m].kind = "done" => HasDone(e)
        BY <1>1 DEF HasDone
      <4> QED
        BY <3>1, <4>1, <4>2
    <3> QED
      BY <2>1, <3>1, <3>2
  <2>2. 0..n \subseteq V
    <3>1. 0 \in V
      BY <1>2
    <3> HIDE DEF V
    <3> QED
      BY <2>1, <3>1, CountingTo
  <2> QED
    BY <2>2
<1>9. p.raised \/ Misfits(e) => x[n].raised
  <2> DEFINE Raises(k) == p.raised \/ (\E j \in 1..k : e[j].kind = "misfit") => x[k].raised
             V == {k \in 0..n : Raises(k)}
  <2>1. ASSUME NEW k \in 0..n, k < n, k \in V PROVE k + 1 \in V
    <3>1. PICK m \in 1..n : m = k + 1 /\ m - 1 = k /\ m \in 0..n
      BY <2>1
    <3>2. x[m - 1].raised \/ e[m].kind = "misfit" => x[m].raised
      BY <1>5
    <3>3. \A j \in 1..m : j \in 1..k \/ j = m
      BY <3>1
    <3>4. Raises(k)
      BY <2>1
    <3>5. Raises(m)
      BY <3>1, <3>2, <3>3, <3>4
    <3> HIDE DEF Raises
    <3> QED
      BY <3>1, <3>5
  <2>2. 0..n \subseteq V
    <3>1. 1..0 = {} /\ 0 \in 0..n
      OBVIOUS
    <3>2. Raises(0)
      BY <1>2, <3>1
    <3>3. 0 \in V
      <4> HIDE DEF Raises
      <4> QED
        BY <3>1, <3>2
    <3> HIDE DEF V
    <3> QED
      BY <2>1, <3>3, CountingTo
  <2>3. Raises(n)
    <3> HIDE DEF Raises
    <3> QED
      BY <2>2
  <2> QED
    BY <1>1, <2>3 DEF Misfits
<1> QED
  BY <1>2, <1>3, <1>7, <1>8, <1>9 DEF TakeEvent, EventText

\* So does a stream.
LEMMA StreamSays ==
    ASSUME NEW events \in Seq(Event)
    PROVE  /\ After(events, Len(events)).content
                  = FlattenSeq([k \in DOMAIN events |-> EventText(events[k])])
           /\ \A k \in 0..Len(events) :
                 /\ After(events, k).completed => \E i \in 1..k : HasDone(events[i])
                 /\ (\E i \in 1..k : Misfits(events[i])) => After(events, k).raised
<1>1. PICK n \in Nat : n = Len(events) /\ DOMAIN events = 1..n
                       /\ \A k \in 1..n : events[k] \in Event
  OBVIOUS
<1>2. PICK x \in [0..n -> Parsed] :
         /\ \A k \in 0..n : x[k] = After(events, k)
         /\ x[0] = Nothing /\ \A k \in 1..n : x[k] = TakeEvent(x[k - 1], events[k])
  <2>1. PICK x : x = [k \in 0..n |-> After(events, k)]
    OBVIOUS
  <2>2. \A k \in 0..n : After(events, k) \in Parsed
    BY <1>1, AfterRuns
  <2>3. x \in [0..n -> Parsed] /\ \A k \in 0..n : x[k] = After(events, k)
    BY <2>1, <2>2
  <2>4. \A k \in 1..n : k \in 0..n /\ k - 1 \in 0..n
    OBVIOUS
  <2>5. x[0] = Nothing
    BY <2>3, AfterRuns
  <2>6. \A k \in 1..n : x[k] = TakeEvent(x[k - 1], events[k])
    BY <1>1, <2>3, <2>4, AfterRuns
  <2> QED
    BY <2>3, <2>5, <2>6
<1>3. PICK q : q = [k \in DOMAIN events |-> EventText(events[k])]
  OBVIOUS
<1>4. q \in Seq(Seq(Text)) /\ Len(q) = n /\ \A k \in 1..n : q[k] = EventText(events[k])
  <2>1. \A k \in 1..n : EventText(events[k]) \in Seq(Text)
    BY <1>1, NothingType, EventSays
  <2>2. PICK T : T = Seq(Text)
    OBVIOUS
  <2>3. q \in [1..n -> T]
    BY <1>1, <1>3, <2>1, <2>2
  <2>4. q \in Seq(T) /\ Len(q) = n
    BY <2>3
  <2> QED
    BY <1>1, <1>3, <2>2, <2>4
<1>5. ASSUME NEW k \in 1..n
      PROVE  /\ x[k].content = x[k - 1].content \o q[k]
             /\ x[k].completed => x[k - 1].completed \/ HasDone(events[k])
             /\ x[k - 1].raised \/ Misfits(events[k]) => x[k].raised
  <2>1. PICK y \in Parsed, e \in Event : y = x[k - 1] /\ e = events[k]
    <3>1. k - 1 \in 0..n
      OBVIOUS
    <3> QED
      BY <1>1, <1>2, <3>1
  <2> QED
    <3>1. /\ TakeEvent(y, e).content = y.content \o EventText(e)
          /\ TakeEvent(y, e).completed => y.completed \/ HasDone(e)
          /\ y.raised \/ Misfits(e) => TakeEvent(y, e).raised
      BY EventSays
    <3>2. x[k] = TakeEvent(y, e) /\ q[k] = EventText(e)
      BY <1>2, <1>4, <2>1
    <3> QED
      BY <2>1, <3>1, <3>2
<1> DEFINE y == [k \in 0..n |-> x[k].content]
<1>6. y[0] = <<>> /\ y[0] \in Seq(Text) /\ y[n] = x[n].content /\ Appends(y, q)
  <2>1. y[0] = <<>> /\ y[n] = x[n].content /\ <<>> \in Seq(Text)
    BY <1>2 DEF Nothing
  <2>2. \A k \in 1..n : k \in 0..n /\ k - 1 \in 0..n
    OBVIOUS
  <2>3. \A k \in 1..n : y[k] = y[k - 1] \o q[k]
    BY <1>5, <2>2
  <2> HIDE DEF y
  <2> QED
    BY <1>4, <2>1, <2>3 DEF Appends
<1>7. x[n].content = <<>> \o FlattenSeq(q) /\ FlattenSeq(q) \in Seq(Text)
  <2> HIDE DEF y
  <2> QED
    BY <1>4, <1>6, Appending, ZenonT(30)
<1>8. x[n].content = FlattenSeq(q)
  BY <1>7, ConcatEmptySeq
<1> DEFINE Said(k) == x[k].completed => \E i \in 1..k : HasDone(events[i])
           V == {k \in 0..n : Said(k)}
<1>9. ASSUME NEW k \in 0..n, k < n, k \in V PROVE k + 1 \in V
  <2>1. PICK m \in 1..n : m = k + 1 /\ m - 1 = k /\ m \in 0..n
    BY <1>9
  <2>2. x[m].completed => x[k].completed \/ HasDone(events[m])
    BY <1>5, <2>1
  <2>3. Said(k)
    BY <1>9
  <2>4. Said(m)
    BY <2>1, <2>2, <2>3
  <2> HIDE DEF Said
  <2> QED
    BY <2>1, <2>4
<1>10. 0..n \subseteq V
  <2>1. 0 \in V
    BY <1>2 DEF Nothing
  <2> HIDE DEF V
  <2> QED
    BY <1>9, <2>1, CountingTo
<1> DEFINE Raises(k) == (\E i \in 1..k : Misfits(events[i])) => x[k].raised
           W == {k \in 0..n : Raises(k)}
<1>11. ASSUME NEW k \in 0..n, k < n, k \in W PROVE k + 1 \in W
  <2>1. PICK m \in 1..n : m = k + 1 /\ m - 1 = k /\ m \in 0..n
    BY <1>11
  <2>2. x[m - 1].raised \/ Misfits(events[m]) => x[m].raised
    BY <1>5
  <2>3. \A i \in 1..m : i \in 1..k \/ i = m
    BY <2>1
  <2>4. Raises(k)
    BY <1>11
  <2>5. Raises(m)
    BY <2>1, <2>2, <2>3, <2>4
  <2> HIDE DEF Raises
  <2> QED
    BY <2>1, <2>5
<1>12. 0..n \subseteq W
  <2>1. 1..0 = {} /\ 0 \in 0..n
    OBVIOUS
  <2>2. Raises(0)
    BY <2>1
  <2>3. 0 \in W
    <3> HIDE DEF Raises
    <3> QED
      BY <2>1, <2>2
  <2> HIDE DEF W
  <2> QED
    BY <1>11, <2>3, CountingTo
<1>13. ASSUME NEW k \in 0..n PROVE Said(k) /\ Raises(k)
  <2> HIDE DEF Said, Raises
  <2> QED
    BY <1>10, <1>12
<1> QED
  <2>1. ASSUME NEW k \in 0..Len(events)
        PROVE  /\ After(events, k).completed => \E i \in 1..k : HasDone(events[i])
               /\ (\E i \in 1..k : Misfits(events[i])) => After(events, k).raised
    <3>1. k \in 0..n /\ x[k] = After(events, k)
      BY <1>1, <1>2
    <3>2. Said(k) /\ Raises(k)
      <4> HIDE DEF Said, Raises
      <4> QED
        BY <1>13, <3>1
    <3> QED
      BY <3>1, <3>2, Zenon
  <2>2. After(events, Len(events)).content = x[n].content
    BY <1>1, <1>2
  <2>3. FlattenSeq(q) = FlattenSeq([k \in DOMAIN events |-> EventText(events[k])])
    <3> HIDE DEF y, V, W
    <3> QED
      BY <1>3, Zenon
  <2> QED
    BY <1>8, <2>1, <2>2, <2>3, Zenon

\* One line, and one choice.
LEMMA OneLine ==
    ASSUME NEW p \in Parsed, NEW l \in Line
    PROVE  <<l>> \in Event /\ TakeEvent(p, <<l>>) = TakeLine(p, l)
<1>1. PICK s \in Seq(Line) : s = <<l>> /\ Len(s) = 1 /\ s[1] = l /\ s # <<>>
  <2>1. <<l>> \in Seq(Line)
    OBVIOUS
  <2>2. Len(<<l>>) = 1 /\ <<l>>[1] = l /\ <<l>> # <<>>
    OBVIOUS
  <2> QED
    BY <2>1, <2>2, Zenon
<1>2. PICK x \in [0..Len(s) -> Parsed] :
         /\ x[0] = p /\ \A k \in 1..Len(s) : x[k] = TakeLine(x[k - 1], s[k])
         /\ FoldLeft(TakeLine, p, s) = x[Len(s)]
  BY TakeLineFold
<1>3. 1 \in 1..Len(s) /\ 1 - 1 = 0
  BY <1>1
<1>4. x[1] = TakeLine(p, l)
  BY <1>1, <1>2, <1>3
<1> QED
  BY <1>1, <1>2, <1>4 DEF TakeEvent, Event

\* See OneLine.
LEMMA OneChoice ==
    ASSUME NEW p \in Parsed, NEW c \in Choice
    PROVE  Json(<<c>>) \in Line /\ TakeLine(p, Json(<<c>>)) = Merge(p, c)
<1>1. PICK s \in Seq(Choice) : s = <<c>> /\ Len(s) = 1 /\ s[1] = c
  <2>1. <<c>> \in Seq(Choice)
    OBVIOUS
  <2>2. Len(<<c>>) = 1 /\ <<c>>[1] = c
    OBVIOUS
  <2> QED
    BY <2>1, <2>2, Zenon
<1>2. PICK x \in [0..Len(s) -> Parsed] :
         /\ x[0] = p /\ \A k \in 1..Len(s) : x[k] = Merge(x[k - 1], s[k])
         /\ FoldLeft(Merge, p, s) = x[Len(s)]
  BY MergeFold
<1>3. 1 \in 1..Len(s) /\ 1 - 1 = 0
  BY <1>1
<1>4. x[1] = Merge(p, c)
  BY <1>1, <1>2, <1>3
<1>5. FoldLeft(Merge, p, s) = Merge(p, c)
  BY <1>1, <1>2, <1>4
<1> QED
  BY <1>1, <1>5 DEF TakeLine, Take, Json, Line

Response == [content: Seq(Text), finish: FinishReason]

\* A cached answer rendered to a stream and assembled again is the same answer.
LEMMA Replayed ==
    ASSUME NEW response \in Response
    PROVE  LET replay == Push(Fresh, Bytes(ResponseToSse(response))).parsed
           IN  replay.completed /\ BuildResponse(replay) = response
<1>1. PICK t \in Seq(Text), f \in FinishReason : response = [content |-> t, finish |-> f]
  BY DEF Response
<1>2. PICK c1 \in Choice, c2 \in Choice, c3 \in Choice :
         /\ c1 = [content |-> <<>>, finish |-> None] /\ c2 = [content |-> t, finish |-> None]
         /\ c3 = [content |-> <<>>, finish |-> f]
  <2>1. <<>> \in Seq(Text)
    OBVIOUS
  <2>2. /\ [content |-> <<>>, finish |-> None] \in Choice
        /\ [content |-> t, finish |-> None] \in Choice
        /\ [content |-> <<>>, finish |-> f] \in Choice
    BY <2>1 DEF Choice
  <2> QED
    BY <2>2, Zenon
<1>3. PICK l1 \in Line, l2 \in Line, l3 \in Line, l4 \in Line :
         l1 = Json(<<c1>>) /\ l2 = Json(<<c2>>) /\ l3 = Json(<<c3>>) /\ l4 = Plain("done")
  <2>1. Json(<<c1>>) \in Line /\ Json(<<c2>>) \in Line /\ Json(<<c3>>) \in Line
    BY NothingType, OneChoice
  <2>2. Plain("done") \in Line
    BY DEF Plain, Line
  <2> QED
    BY <2>1, <2>2
<1>4. PICK events \in Seq(Event) :
         /\ events = ResponseToSse(response) /\ Len(events) = 4
         /\ events[1] = <<l1>> /\ events[2] = <<l2>> /\ events[3] = <<l3>> /\ events[4] = <<l4>>
  <2>1. <<l1>> \in Event /\ <<l2>> \in Event /\ <<l3>> \in Event /\ <<l4>> \in Event
    BY NothingType, OneLine
  <2>2. PICK e1 \in Event, e2 \in Event, e3 \in Event, e4 \in Event :
           e1 = <<l1>> /\ e2 = <<l2>> /\ e3 = <<l3>> /\ e4 = <<l4>>
    BY <2>1
  <2>3. ResponseToSse(response) = <<e1, e2, e3, e4>>
    BY <1>1, <1>2, <1>3, <2>2 DEF ResponseToSse
  <2>4. PICK s \in Seq(Event) : s = <<e1, e2, e3, e4>> /\ Len(s) = 4
                                /\ s[1] = e1 /\ s[2] = e2 /\ s[3] = e3 /\ s[4] = e4
    <3>1. <<e1, e2, e3, e4>> \in Seq(Event)
      OBVIOUS
    <3>2. /\ Len(<<e1, e2, e3, e4>>) = 4 /\ <<e1, e2, e3, e4>>[1] = e1
          /\ <<e1, e2, e3, e4>>[2] = e2 /\ <<e1, e2, e3, e4>>[3] = e3
          /\ <<e1, e2, e3, e4>>[4] = e4
      OBVIOUS
    <3> QED
      BY <3>1, <3>2, Zenon
  <2> QED
    BY <2>2, <2>3, <2>4
<1>5. PICK p1 \in Parsed, p2 \in Parsed, p3 \in Parsed, p4 \in Parsed :
         /\ p1 = Merge(Nothing, c1) /\ p2 = Merge(p1, c2) /\ p3 = Merge(p2, c3)
         /\ p4 = TakeLine(p3, l4) /\ After(events, 4) = p4
  <2>1. /\ After(events, 0) = Nothing
        /\ After(events, 1) = TakeEvent(After(events, 0), events[1])
        /\ After(events, 2) = TakeEvent(After(events, 1), events[2])
        /\ After(events, 3) = TakeEvent(After(events, 2), events[3])
        /\ After(events, 4) = TakeEvent(After(events, 3), events[4])
    <3>1. /\ 1 \in 1..Len(events) /\ 2 \in 1..Len(events) /\ 3 \in 1..Len(events)
          /\ 4 \in 1..Len(events) /\ 1 - 1 = 0 /\ 2 - 1 = 1 /\ 3 - 1 = 2 /\ 4 - 1 = 3
      BY <1>4
    <3>2. \A k \in 1..Len(events) : After(events, k) = TakeEvent(After(events, k - 1), events[k])
      BY AfterRuns
    <3>3. After(events, 0) = Nothing
      BY AfterRuns
    <3> QED
      BY <3>1, <3>2, <3>3
  <2>2. PICK p1 \in Parsed : p1 = Merge(Nothing, c1)
    BY NothingType, MergeType
  <2>3. PICK p2 \in Parsed : p2 = Merge(p1, c2)
    BY MergeType
  <2>4. PICK p3 \in Parsed : p3 = Merge(p2, c3)
    BY MergeType
  <2>5. PICK p4 \in Parsed : p4 = TakeLine(p3, l4)
    BY TakeLineType
  <2>6. After(events, 1) = p1
    BY <1>3, <1>4, <2>1, <2>2, NothingType, OneLine, OneChoice
  <2>7. After(events, 2) = p2
    BY <1>3, <1>4, <2>1, <2>3, <2>6, OneLine, OneChoice
  <2>8. After(events, 3) = p3
    BY <1>3, <1>4, <2>1, <2>4, <2>7, OneLine, OneChoice
  <2>9. After(events, 4) = p4
    BY <1>4, <2>1, <2>5, <2>8, OneLine
  <2> QED
    BY <2>2, <2>3, <2>4, <2>5, <2>9
<1>6. p4.completed /\ p4.content = t /\ p4.finish = f
  <2>1. p1.content = <<>> \o <<>> /\ p1.finish = None
    BY <1>2, <1>5 DEF Merge, Nothing
  <2>2. p1.content = <<>>
    BY <2>1, ConcatEmptySeq
  <2>3. p2.content = <<>> \o t /\ p2.finish = None
    BY <1>2, <1>5, <2>1, <2>2, SMTT(30) DEF Merge, Parsed
  <2>4. p2.content = t
    BY <2>3, ConcatEmptySeq
  <2>5. f # None
    BY WireAssumption
  <2>6. p3.content = t \o <<>> /\ p3.finish = f
    BY <1>2, <1>5, <2>4, <2>5 DEF Merge, Parsed
  <2>7. p3.content = t
    BY <2>6, ConcatEmptySeq
  <2>8. p4 = [p3 EXCEPT !.completed = TRUE]
    BY <1>3, <1>5 DEF TakeLine, Take, Plain
  <2> QED
    BY <2>6, <2>7, <2>8 DEF Parsed
<1>7. PICK w \in Seq(Byte), n \in Nat : w = Bytes(events) /\ n = Len(w)
  BY StreamLayout
<1>8. Push(Held(events, Whole(events, 0), 0), SubSeq(w, 0 + 1, 0 + n))
         = Held(events, Whole(events, 0 + n), 0 + n)
  <2>1. 0 \in 0..Len(Bytes(events)) /\ 0 + n <= Len(Bytes(events))
    BY <1>7
  <2> QED
    BY <1>7, <2>1, PushHeld
<1>9. SubSeq(w, 0 + 1, 0 + n) = w /\ 0 + n = n
  BY <1>7, SubSeqFull
<1>10. Push(Fresh, w) = Held(events, 4, n)
  <2>1. Whole(events, n) = 4
    BY <1>4, <1>7, WholeAll
  <2> QED
    BY <1>8, <1>9, <2>1, HeldFresh
<1>11. Push(Fresh, Bytes(ResponseToSse(response))).parsed = p4
  BY <1>4, <1>5, <1>7, <1>10 DEF Held
<1>12. BuildResponse(p4) = response
  BY <1>1, <1>6, WireAssumption DEF BuildResponse
<1> QED
  BY <1>6, <1>11, <1>12
-----------------------------------------------------------------------------
(* Carriage returns *)

\* The stream as it is sent has as many bytes as its events.
LEMMA SentIs ==
    ASSUME wire \in Wire
    PROVE  /\ Sent \in Seq(Byte) /\ Len(Sent) = Len(Bytes(wire))
           /\ crlf => \A i \in 1..Len(Sent) : Sent[i].kind # "break"
           /\ ~crlf => Sent = Bytes(wire)
<1>1. PICK b \in Seq(Byte), n \in Nat :
         b = Bytes(wire) /\ n = Len(b) /\ DOMAIN b = 1..n /\ \A i \in 1..n : b[i] \in Byte
  <2>1. PICK events \in Seq(Event) : events = wire
    BY WireAssumption
  <2>2. PICK b \in Seq(Byte) : b = Bytes(events)
    BY StreamLayout
  <2>3. Len(b) \in Nat /\ DOMAIN b = 1..Len(b) /\ \A i \in 1..Len(b) : b[i] \in Byte
    OBVIOUS
  <2> QED
    BY <2>1, <2>2, <2>3
<1>2. PICK cr \in Byte : cr = Plain("crlf") /\ cr.kind = "crlf"
  <2>1. Plain("crlf") \in Byte
    BY DEF Plain, Byte
  <2>2. Plain("crlf").kind = "crlf"
    BY DEF Plain
  <2> QED
    BY <2>1, <2>2, Zenon
<1>3. PICK w : w = [k \in 1..n |-> IF crlf /\ b[k].kind = "break" THEN cr ELSE b[k]]
  OBVIOUS
<1>4. w = Sent
  BY <1>1, <1>2, <1>3 DEF Sent
<1>5. w \in [1..n -> Byte]
  BY <1>1, <1>3
<1>6. w \in Seq(Byte) /\ Len(w) = n
  BY <1>5
<1>7. crlf => \A i \in 1..n : w[i].kind # "break"
  BY <1>2, <1>3
<1>8. ~crlf => w = b
  <2>1. ~crlf => w = [k \in 1..n |-> b[k]]
    BY <1>3
  <2>2. b = [k \in 1..n |-> b[k]]
    BY <1>1
  <2> QED
    BY <2>1, <2>2
<1> QED
  BY <1>1, <1>4, <1>6, <1>7, <1>8

\* A buffer without a bare line feed is left as it is.
LEMMA NothingDrained ==
    ASSUME NEW a \in Assembler, \A i \in 1..Len(a.buffer) : a.buffer[i].kind # "break"
    PROVE  Gaps(a.buffer) = {} /\ Drained(a) = a
<1>1. PICK s \in Seq(Byte), n \in Nat : s = a.buffer /\ n = Len(s)
  BY DEF Assembler
<1>2. Gaps(a.buffer) = {}
  <2>1. ASSUME NEW i \in 1..(n - 1) PROVE s[i].kind # "break"
    <3>1. i \in 1..n
      OBVIOUS
    <3> QED
      BY <1>1, <3>1
  <2> QED
    BY <1>1, <2>1 DEF Gaps
<1>3. PICK x \in [0..n -> Assembler] : /\ x[0] = a
                                       /\ \A k \in 1..n : x[k] = Turn(x[k - 1], s[k])
                                       /\ FoldLeft(Turn, a, s) = x[n]
  <2>1. PICK x \in [0..Len(s) -> Assembler] :
           /\ x[0] = a /\ \A k \in 1..Len(s) : x[k] = Turn(x[k - 1], s[k])
           /\ FoldLeft(Turn, a, s) = x[Len(s)]
    BY TurnFold
  <2> QED
    BY <1>1, <2>1
<1> DEFINE V == {k \in 0..n : x[k] = a}
<1>4. ASSUME NEW k \in 0..n, k < n, k \in V PROVE k + 1 \in V
  <2>1. PICK m \in 1..n : m = k + 1 /\ m - 1 = k /\ m \in 0..n
    BY <1>4
  <2>2. x[m] = Turn(x[k], s[m]) /\ x[k] = a
    BY <1>3, <1>4, <2>1
  <2>3. x[m] = a
    BY <1>2, <2>2 DEF Turn
  <2> QED
    BY <2>1, <2>3
<1>5. 0..n \subseteq V
  <2>1. 0 \in V
    BY <1>3
  <2> HIDE DEF V
  <2> QED
    BY <1>4, <2>1, CountingTo
<1>6. x[n] = a
  BY <1>5
<1> QED
  BY <1>1, <1>2, <1>3, <1>6 DEF Drained

\* What a stream with carriage returns leaves in the assembler: all its bytes.
Unread(w, r) == [buffer |-> SubSeq(w, 1, r), parsed |-> Nothing]

LEMMA UnreadIs ==
    ASSUME NEW w \in Seq(Byte), NEW r \in 0..Len(w), \A i \in 1..Len(w) : w[i].kind # "break"
    PROVE  /\ Unread(w, r) \in Assembler /\ Gaps(Unread(w, r).buffer) = {}
           /\ Drained(Unread(w, r)) = Unread(w, r)
<1>1. PICK s \in Seq(Byte) : s = SubSeq(w, 1, r) /\ Len(s) = r /\ \A i \in 1..r : s[i] = w[i]
  <2>1. /\ SubSeq(w, 1, r) \in Seq(Byte) /\ Len(SubSeq(w, 1, r)) = r
        /\ \A i \in 1..r : SubSeq(w, 1, r)[i] = w[i]
    BY Prefix
  <2> QED
    BY <2>1, Zenon
<1>2. PICK a : a = Unread(w, r)
  OBVIOUS
<1>3. a \in Assembler /\ a.buffer = s
  BY <1>1, <1>2, NothingType DEF Unread, Assembler
<1>4. \A i \in 1..Len(a.buffer) : a.buffer[i].kind # "break"
  <2>1. \A i \in 1..r : i \in 1..Len(w)
    OBVIOUS
  <2> QED
    BY <1>1, <1>3, <2>1
<1> QED
  BY <1>2, <1>3, <1>4, NothingDrained

\* A push adds to it.
LEMMA PushUnread ==
    ASSUME NEW w \in Seq(Byte), NEW r \in 0..Len(w), NEW n \in Nat, r + n <= Len(w),
           \A i \in 1..Len(w) : w[i].kind # "break"
    PROVE  Push(Unread(w, r), SubSeq(w, r + 1, r + n)) = Unread(w, r + n)
<1>1. PICK t \in r..Len(w) : t = r + n /\ t \in 0..Len(w)
  OBVIOUS
<1>2. SubSeq(w, 1, r) \o SubSeq(w, r + 1, t) = SubSeq(w, 1, t)
  <2>1. 1 \in 1..(Len(w) + 1) /\ r \in (1 - 1)..Len(w) /\ t \in r..Len(w)
    BY <1>1
  <2> QED
    BY <2>1, ConcatAdjacentSubSeq
<1>3. [Unread(w, r) EXCEPT !.buffer = @ \o SubSeq(w, r + 1, t)] = Unread(w, t)
  <2>1. PICK a, c, p, z : a = SubSeq(w, 1, r) /\ c = SubSeq(w, r + 1, t) /\ p = Nothing
                          /\ z = a \o c
    OBVIOUS
  <2>2. Unread(w, r) = [buffer |-> a, parsed |-> p] /\ Unread(w, t) = [buffer |-> z, parsed |-> p]
    BY <1>2, <2>1 DEF Unread
  <2>3. [[buffer |-> a, parsed |-> p] EXCEPT !.buffer = z] = [buffer |-> z, parsed |-> p]
        /\ [buffer |-> a, parsed |-> p].buffer = a
    OBVIOUS
  <2> QED
    BY <2>1, <2>2, <2>3
<1>4. Drained(Unread(w, t)) = Unread(w, t)
  BY <1>1, UnreadIs
<1> QED
  BY <1>1, <1>3, <1>4 DEF Push
-----------------------------------------------------------------------------
(* The invariant *)

\* The buffer is what has been received and does not end an event, what has been
\* parsed are the events that have arrived whole, all of which could be read, and
\* the answer is built from it when the stream is closed.
IInv ==
    /\ wire \in Wire /\ crlf \in BOOLEAN /\ received \in 0..Len(Bytes(wire))
    /\ status \in {"open", "closed", "failed"}
    /\ assembler = IF crlf THEN Unread(Sent, received)
                   ELSE Held(wire, Whole(wire, received), received)
    /\ ~assembler.parsed.raised
    /\ answer = IF status = "closed" /\ assembler.parsed.completed
                THEN BuildResponse(assembler.parsed) ELSE None

\* An assembler that no byte has reached holds nothing.
LEMMA InitInvariant == Init => IInv
<1> SUFFICES ASSUME Init PROVE IInv
  OBVIOUS
<1>1. PICK events \in Seq(Event) : events = wire
  BY WireAssumption DEF Init
<1>2. Held(events, Whole(events, 0), 0) = Fresh /\ Len(Bytes(events)) \in Nat
  BY HeldFresh, StreamLayout
<1>3. Unread(Sent, 0) = Fresh
  BY SubSeqEmpty DEF Unread, Fresh
<1>4. ~Fresh.parsed.raised
  BY DEF Fresh, Nothing
<1> QED
  BY <1>1, <1>2, <1>3, <1>4 DEF Init, IInv

\* A chunk that can be read leaves the bytes that have come in the buffer, or the
\* events that end in it parsed.
LEMMA ReceiveInvariant ==
    ASSUME IInv, NEW n \in 1..Len(Sent), Receive(n) PROVE IInv'
<1>1. PICK events \in Seq(Event) : events = wire
  BY WireAssumption DEF IInv
<1>2. PICK r \in 0..Len(Bytes(events)), m \in Nat :
         /\ events = wire /\ r = received /\ m = n
         /\ r + m <= Len(Bytes(events)) /\ r + m \in 0..Len(Bytes(events))
  <2>1. Len(Sent) = Len(Bytes(events)) /\ Len(Bytes(events)) \in Nat
    BY <1>1, SentIs, StreamLayout DEF IInv
  <2>2. received + n <= Len(Sent) /\ received \in 0..Len(Bytes(events))
    BY <1>1 DEF IInv, Receive
  <2> QED
    BY <1>1, <2>1, <2>2
<1>3. /\ UNCHANGED <<wire, crlf, status, answer>> /\ received' = r + m /\ status = "open"
      /\ assembler' = Pushed(n) /\ ~assembler'.parsed.raised
  BY <1>2 DEF Receive
<1>4. answer = None
  BY <1>3 DEF IInv
<1>5. Sent' = Sent
  BY <1>3 DEF Sent
<1>6. CASE crlf
  <2>1. PICK w \in Seq(Byte) : /\ w = Sent /\ Len(w) = Len(Bytes(events))
                               /\ \A i \in 1..Len(w) : w[i].kind # "break"
    BY <1>2, <1>6, SentIs DEF IInv
  <2>2. assembler = Unread(w, r)
    BY <1>2, <1>6, <2>1 DEF IInv
  <2>3. Push(Unread(w, r), SubSeq(w, r + 1, r + m)) = Unread(w, r + m)
    BY <1>2, <2>1, PushUnread
  <2>4. assembler' = Unread(w, r + m)
    BY <1>2, <1>3, <2>1, <2>2, <2>3 DEF Pushed
  <2> QED
    BY <1>2, <1>3, <1>4, <1>5, <1>6, <2>1, <2>4 DEF IInv
<1>7. CASE ~crlf
  <2>1. Sent = Bytes(events)
    BY <1>2, <1>7, SentIs DEF IInv
  <2>2. assembler = Held(events, Whole(events, r), r)
    BY <1>2, <1>7 DEF IInv
  <2>3. Push(Held(events, Whole(events, r), r), SubSeq(Bytes(events), r + 1, r + m))
           = Held(events, Whole(events, r + m), r + m)
    BY <1>2, PushHeld
  <2>4. assembler' = Held(events, Whole(events, r + m), r + m)
    BY <1>2, <1>3, <2>1, <2>2, <2>3 DEF Pushed
  <2> QED
    BY <1>2, <1>3, <1>4, <1>7, <2>4 DEF IInv
<1> QED
  BY <1>6, <1>7

\* A chunk of any length, the end of the stream and an error keep the invariant.
LEMMA NextInvariant == IInv /\ [Next]_vars => IInv'
<1> SUFFICES ASSUME IInv, [Next]_vars PROVE IInv'
  OBVIOUS
<1>1. ASSUME NEW n, Misread(n) PROVE IInv'
  <2>1. UNCHANGED <<wire, crlf, received, assembler, answer>> /\ status = "open"
        /\ status' = "failed"
    BY <1>1 DEF Misread
  <2> QED
    BY <2>1 DEF IInv, Sent
<1>2. CASE Close
  <2>1. Sent' = Sent
    BY <1>2 DEF Close, Sent
  <2> QED
    BY <1>2, <2>1 DEF IInv, Close
<1>3. CASE Break
  <2>1. Sent' = Sent
    BY <1>3 DEF Break, Sent
  <2> QED
    BY <1>3, <2>1 DEF IInv, Break
<1>4. CASE UNCHANGED vars
  <2>1. Sent' = Sent
    BY <1>4 DEF vars, Sent
  <2> QED
    BY <1>4, <2>1 DEF IInv, vars
<1> QED
  BY <1>1, <1>2, <1>3, <1>4, ReceiveInvariant DEF Next

\* The invariant holds in every reachable state.
LEMMA Invariant == Spec => []IInv
BY InitInvariant, NextInvariant, PTL DEF Spec

\* What the assembler holds.
LEMMA AssemblerType ==
    ASSUME IInv PROVE assembler \in Assembler /\ Gaps(assembler.buffer) = {}
<1>1. PICK events \in Seq(Event) : events = wire
  BY WireAssumption DEF IInv
<1>2. CASE crlf
  <2>1. PICK w \in Seq(Byte) : /\ w = Sent /\ Len(w) = Len(Bytes(wire))
                               /\ \A i \in 1..Len(w) : w[i].kind # "break"
    BY <1>2, SentIs DEF IInv
  <2>2. received \in 0..Len(w) /\ assembler = Unread(w, received)
    BY <1>2, <2>1 DEF IInv
  <2> QED
    BY <2>1, <2>2, UnreadIs
<1>3. CASE ~crlf
  BY <1>1, <1>3, HeldType, WholeIs, NoGap DEF IInv
<1> QED
  BY <1>2, <1>3

\* An answer is only built from what a completed assembler has parsed, which takes
\* a stream without carriage returns.
LEMMA AnswerType ==
    ASSUME IInv, answer # None
    PROVE  /\ answer \in Response /\ assembler.parsed.completed
           /\ answer = BuildResponse(assembler.parsed) /\ ~crlf
<1>1. answer = BuildResponse(assembler.parsed) /\ assembler.parsed.completed
  BY DEF IInv
<1>2. assembler.parsed \in Parsed
  BY AssemblerType DEF Assembler
<1>3. crlf => ~assembler.parsed.completed
  BY DEF IInv, Unread, Nothing
<1> QED
  BY <1>1, <1>2, <1>3, WireAssumption DEF BuildResponse, Parsed, Response

\* What an assembler holds has its types, and push never returns with a whole
\* event in the buffer.
THEOREM AssemblerTypeCorrect == Spec => []TypeOK
<1>1. ASSUME IInv PROVE TypeOK
  <2>1. answer = None \/ answer \in [content: Seq(Text), finish: FinishReason]
    BY <1>1, AnswerType DEF Response
  <2>2. received \in 0..Len(Sent)
    BY <1>1, SentIs DEF IInv
  <2> QED
    BY <1>1, <2>1, <2>2, AssemblerType DEF IInv, TypeOK
<1> QED
  BY <1>1, Invariant, PTL

\* Wherever the network cuts any stream, what has been parsed is what the events
\* that have arrived whole say, each once and in order; of a stream with carriage
\* returns nothing is parsed.
THEOREM BoundariesDoNotMatter == Spec => []BoundariesIrrelevant
<1>1. ASSUME IInv PROVE BoundariesIrrelevant
  <2>1. PICK events \in Seq(Event) : events = wire
    BY <1>1, WireAssumption DEF IInv
  <2>2. CASE crlf
    <3>1. Offset(events, 0) = 0 /\ received \in Nat /\ 0 \in 0..Len(events)
      BY <1>1, <2>1, StreamLayout DEF IInv
    <3>2. WholeEvents = {0}
      BY <2>1, <2>2, <3>1 DEF WholeEvents, Offset
    <3>3. Max({0}) = 0
      <4>1. {0} \in SUBSET Int /\ 0 \in {0} /\ \A k \in {0} : k <= 0
        OBVIOUS
      <4> QED
        BY <4>1, MaxIs
    <3>4. FoldLeft(TakeEvent, Nothing, SubSeq(wire, 1, 0)) = Nothing
      BY <2>1, AfterRuns DEF After
    <3>5. assembler.parsed = Nothing
      BY <1>1, <2>2 DEF IInv, Unread
    <3> QED
      BY <3>2, <3>3, <3>4, <3>5 DEF BoundariesIrrelevant
  <2>3. CASE ~crlf
    <3>1. Max(WholeEvents) = Whole(wire, received)
      BY <2>3 DEF WholeEvents, Whole, Offset
    <3> QED
      BY <1>1, <2>3, <3>1 DEF IInv, BoundariesIrrelevant, Held, After
  <2> QED
    BY <2>2, <2>3
<1> QED
  BY <1>1, Invariant, PTL

\* Of any stream that ends with [DONE], the cached answer has the text of every
\* delta, and a stream of which a chunk cannot be read is not cached.
THEOREM CachedAnswerIsWhole == Spec => []CachedIsWhole
<1>1. ASSUME IInv PROVE CachedIsWhole
  <2> SUFFICES ASSUME answer # None, DoneIsLast PROVE answer.content = AllText /\ ~HasMisfit
    BY DEF CachedIsWhole
  <2>1. PICK events \in Seq(Event) : events = wire
    BY <1>1, WireAssumption DEF IInv
  <2>2. PICK k \in 0..Len(events) : k = Whole(events, received)
    BY <1>1, <2>1, WholeIs DEF IInv
  <2>3. assembler.parsed = After(events, k) /\ ~After(events, k).raised
    BY <1>1, <2>1, <2>2, AnswerType DEF IInv, Held
  <2>4. After(events, k).completed /\ answer.content = After(events, k).content
    BY <1>1, <2>3, AnswerType DEF BuildResponse
  <2>5. PICK i \in 1..k : HasDone(events[i])
    BY <2>4, StreamSays
  <2>6. i = Len(events)
    BY <2>1, <2>5 DEF DoneIsLast, HasDone
  <2>7. k = Len(events)
    BY <2>6
  <2>8. ~HasMisfit
    <3>1. ~\E j \in 1..k : Misfits(events[j])
      BY <2>3, StreamSays
    <3>2. DOMAIN events = 1..k
      BY <2>7
    <3> QED
      BY <2>1, <3>1, <3>2 DEF HasMisfit, Misfits
  <2> QED
    BY <2>1, <2>4, <2>7, <2>8, StreamSays DEF AllText
<1> QED
  BY <1>1, Invariant, PTL

\* Whatever answer a streamed miss caches, a streamed hit sends and its reader
\* assembles again, complete.
THEOREM HitsReplayAnswers == Spec => []HitReplaysAnswer
<1>1. ASSUME IInv PROVE HitReplaysAnswer
  BY <1>1, AnswerType, Replayed DEF HitReplaysAnswer
<1> QED
  BY <1>1, Invariant, PTL
=============================================================================
