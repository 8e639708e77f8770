--------------------------- MODULE NearMissReport ---------------------------
(***************************************************************************)
(* NearMissTracker.report: the window of near misses turned into a         *)
(* histogram and a recommended threshold.                                  *)
(***************************************************************************)
EXTENDS NearMissTracker, FiniteSets

CONSTANT MinSamples     \* min_samples: no recommendation from fewer events

ASSUME MinSamplesAssumption == MinSamples \in Nat \ {0}

EventsWith(Test(_)) == Cardinality({k \in DOMAIN events : Test(events[k].score)})

Histogram ==
    [b90 |-> EventsWith(LAMBDA s : s \in 900..919),
     b92 |-> EventsWith(LAMBDA s : s \in 920..939),
     b94 |-> EventsWith(LAMBDA s : s \in 940..949),
     other |-> EventsWith(LAMBDA s : s \notin 900..949)]

\* sorted(scores)[k], k from 0.
Ordered(k) ==
    CHOOSE s \in {events[j].score : j \in DOMAIN events} :
        /\ EventsWith(LAMBDA x : x < s) <= k
        /\ k < EventsWith(LAMBDA x : x <= s)

\* The rank of the 75th percentile.
RankFromTop == (3 * Len(events)) \div 4 - 1

\* max(0, int(0.25 * n) - 1)
Rank25 == IF Len(events) < 4 THEN 0 ELSE Len(events) \div 4 - 1

NoRecommendation == -1

\* round(p25 - 0.005, 3), once there are enough samples.
RecommendedThreshold ==
    IF Len(events) < MinSamples THEN NoRecommendation ELSE Ordered(Rank25) - 5

Report ==
    [count |-> Len(events), histogram |-> Histogram,
     recommended_threshold |-> RecommendedThreshold]
=============================================================================
