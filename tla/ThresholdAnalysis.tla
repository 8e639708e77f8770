------------------------- MODULE ThresholdAnalysis -------------------------
(***************************************************************************)
(* ThresholdAnalyzer: candidate thresholds are tried on labelled pairs of  *)
(* prompts and the one of the best F1 is recommended.  A case is what is   *)
(* left of a pair once it is embedded: the similarity of its two prompts   *)
(* in thousandths, and whether they ought to share an answer.              *)
(***************************************************************************)
EXTENDS Integers, Sequences, FiniteSets

Case == [score: -1000..1000, expected: BOOLEAN]

\* DEFAULT_THRESHOLDS
DefaultThresholds == {900, 920, 950, 980}

\* The cases that are labelled so and would hit under the threshold.
Predicted(cases, t, expected) ==
    {k \in DOMAIN cases : cases[k].expected = expected /\ cases[k].score >= t}

Labelled(cases, expected) == {k \in DOMAIN cases : cases[k].expected = expected}

Confusion(cases, t) ==
    LET tp == Cardinality(Predicted(cases, t, TRUE))
        fp == Cardinality(Predicted(cases, t, FALSE))
    IN  [tp |-> tp, fp |-> fp,
         fn |-> Cardinality(Labelled(cases, TRUE)) - tp,
         tn |-> Cardinality(Labelled(cases, FALSE)) - fp]

\* A ratio as a pair; _safe_div makes it 0 when there is nothing to divide by.
SafeDiv(n, d) == IF d = 0 THEN <<0, 1>> ELSE <<n, d>>
SmallerRatio(a, b) == a[1] * b[2] < b[1] * a[2]

Precision(c) == SafeDiv(c.tp, c.tp + c.fp)

\* round() to the nearest integer, ties to even.
Rounded(n, d) ==
    LET q == n \div d
        r == n % d
    IN  IF 2 * r > d \/ (2 * r = d /\ q % 2 = 1) THEN q + 1 ELSE q

\* round(f1, 4) in ten-thousandths; 2pr / (p + r) is 2tp / (2tp + fp + fn).
F1(c) == IF c.tp = 0 THEN 0 ELSE Rounded(20000 * c.tp, 2 * c.tp + c.fp + c.fn)

\* A comparison that prefers the lower of two thresholds that tie.
BetterIsLower(cases, t, u) ==
    LET a == Confusion(cases, t)
        b == Confusion(cases, u)
    IN  \/ F1(a) > F1(b)
        \/ F1(a) = F1(b) /\ SmallerRatio(Precision(b), Precision(a))
        \/ /\ F1(a) = F1(b) /\ ~SmallerRatio(Precision(a), Precision(b))
           /\ t < u

\* The key of max(): F1, then precision, then the threshold itself.
Better(cases, t, u) ==
    LET a == Confusion(cases, t)
        b == Confusion(cases, u)
    IN  \/ F1(a) > F1(b)
        \/ F1(a) = F1(b) /\ SmallerRatio(Precision(b), Precision(a))
        \/ /\ F1(a) = F1(b) /\ ~SmallerRatio(Precision(a), Precision(b))
           /\ t > u

\* What _recommend may return.
Recommended(cases, thresholds) ==
    IF thresholds = {} THEN {950}
    ELSE {t \in thresholds : \A u \in thresholds : ~Better(cases, u, t)}

\* evaluate: what the report says, for the pairs it was given.
Evaluate(cases, thresholds) ==
    [cases: {cases}, thresholds: {thresholds},
     recommended: Recommended(cases, thresholds)]
=============================================================================
