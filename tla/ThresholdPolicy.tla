--------------------------- MODULE ThresholdPolicy ---------------------------
(***************************************************************************)
(* CategoryPolicy: the base, the bounds and the step of the threshold of   *)
(* each request category.  Scores and thresholds are integers in           *)
(* thousandths (0.95 is 950).                                              *)
(***************************************************************************)
EXTENDS Integers

CONSTANT Policy     \* CategoryPolicy of each category

Category == {"classification", "programming", "creative", "general"}
Score == 0..1000

CategoryPolicy == [base: Score, minimum: Score, maximum: Score, step: Score]

ASSUME PolicyAssumption ==
    /\ Policy \in [Category -> CategoryPolicy]
    /\ \A c \in Category : /\ Policy[c].minimum <= Policy[c].base
                           /\ Policy[c].base <= Policy[c].maximum

Base == [c \in Category |-> Policy[c].base]

Larger(a, b) == IF a < b THEN b ELSE a
Smaller(a, b) == IF a < b THEN a ELSE b

\* A clamp without the lower bound.
ClampAbove(c, threshold) == Smaller(Policy[c].maximum, threshold)

\* min(maximum, max(minimum, threshold))
Clamp(c, threshold) ==
    Smaller(Policy[c].maximum, Larger(Policy[c].minimum, threshold))

\* A false hit makes the category stricter, a missed equivalent laxer.
Adjust(c, threshold, falseHit) ==
    Clamp(c, threshold + (IF falseHit THEN Policy[c].step ELSE -Policy[c].step))
=============================================================================
