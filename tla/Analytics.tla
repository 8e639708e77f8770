----------------------------- MODULE Analytics -----------------------------
(***************************************************************************)
(* What an operator sees of one process: the lookups of chat requests and  *)
(* the shadow replays, as the metrics collectors, the near-miss tracker    *)
(* and the validator record them, and the endpoints that report them,      *)
(* /metrics, /analytics/near-misses, /analytics/validation, and            *)
(* /analytics/threshold-test.  ProxyService models the requests            *)
(* themselves; here a lookup is given by what it found.                    *)
(***************************************************************************)
EXTENDS NearMissReport, ThresholdAnalysis, Monitoring, CacheValidator

CONSTANTS
    Lookups,            \* the lookups that are made
    MaxLookups,         \* bound on their number
    NearMissWindow,     \* near_miss_window of SemanticCache
    Samples,            \* labelled cases posted to /analytics/threshold-test
    ThresholdChoices,   \* "thresholds" of those posts; {} when left out
    TestHorizon,        \* bound: threshold tests are posted up to that many lookups
    MaxSize,            \* bound on the size of the store
    None

VARIABLES
    awaiting,   \* buffered misses of each provider that wait for its answer
    replays,    \* detached replays that are running
    answer      \* the last reply of /analytics/threshold-test

vars == <<events, collectors, validation, awaiting, replays, answer>>

Lookup ==
    [provider: Provider, model: Model, stream: BOOLEAN, score: -1000..1000 \cup {None},
     threshold: 0..1000, prompt_tokens: Nat, completion_tokens: Nat]

ASSUME AnalyticsAssumption ==
    /\ Lookups \subseteq Lookup
    /\ \A sample \in Samples : sample \in Seq(Case) /\ Len(sample) > 0
    /\ \A chosen \in ThresholdChoices : chosen \subseteq Int
    /\ MaxLookups \in Nat /\ TestHorizon \in Nat /\ NearMissWindow \in Nat /\ MaxSize \in Nat

Init ==
    /\ NearMissInit /\ MonitoringInit /\ ValidationInit
    /\ awaiting = [p \in Provider |-> 0]
    /\ replays = 0
    /\ answer = None

IsHit(l) == l.score # None /\ l.score >= l.threshold
IsNearMiss(l) == l.score # None /\ l.score \in (l.threshold - NearMissWindow)..(l.threshold - 1)

\* The score of the best match, 0 when there is none.
ScoreOf(l) == IF l.score = None THEN 0 ELSE l.score

Hit(l) ==
    /\ collectors.total < MaxLookups /\ IsHit(l)
    /\ collectors' = CountSavings(
           CountLookup(collectors, "HIT", l.provider, l.model, ScoreOf(l)),
           l.model, l.prompt_tokens, l.completion_tokens)
    /\ \E sampled \in ShouldValidate :
          replays' = IF sampled /\ ~l.stream THEN replays + 1 ELSE replays
    /\ answer' = None
    /\ UNCHANGED <<events, validation, awaiting>>

Miss(l) ==
    /\ collectors.total < MaxLookups /\ ~IsHit(l)
    /\ collectors' = CountLookup(collectors, "MISS", l.provider, l.model, ScoreOf(l))
    /\ IF IsNearMiss(l) THEN Record([score |-> l.score, threshold |-> l.threshold])
                        ELSE UNCHANGED events
    /\ awaiting' = IF l.stream THEN awaiting ELSE [awaiting EXCEPT ![l.provider] = @ + 1]
    /\ answer' = None
    /\ UNCHANGED <<validation, replays>>

\* complete() has its answer, or an exception in its place.
ProviderAnswers(p) ==
    /\ awaiting[p] > 0
    /\ awaiting' = [awaiting EXCEPT ![p] = @ - 1]
    /\ collectors' \in {CountProviderLatency(collectors, p), collectors}
    /\ answer' = None
    /\ UNCHANGED <<events, validation, replays>>

\* CacheValidator.stats: the rates of the counters it is given.
DriftRate(v) == Ratio(v.drift, v.validations)
FalseHitRate(v) == Ratio(v.false_hits, v.validations)
Accuracy(v) == IF v.validations = 0 THEN <<1, 1>>
               ELSE <<v.validations - v.false_hits, v.validations>>

\* A replay that publishes the rates before it counts.
ReplayPublishesFirst(drifted) ==
    /\ replays > 0
    /\ replays' = replays - 1
    /\ Validate(drifted)
    /\ collectors' = SetValidation(collectors, Accuracy(validation),
                                   DriftRate(validation), FalseHitRate(validation))
    /\ answer' = None
    /\ UNCHANGED <<events, awaiting>>

\* validate() counts, then publishes the rates.
Replay(drifted) ==
    /\ replays > 0
    /\ replays' = replays - 1
    /\ Validate(drifted)
    /\ collectors' = SetValidation(collectors, Accuracy(validation'),
                                   DriftRate(validation'), FalseHitRate(validation'))
    /\ answer' = None
    /\ UNCHANGED <<events, awaiting>>

\* The exception is logged and nothing else happens.
ReplayFails ==
    /\ replays > 0
    /\ replays' = replays - 1
    /\ answer' = None
    /\ UNCHANGED <<events, collectors, validation, awaiting>>

\* GET /metrics: the gauge takes the size counted now; when the count fails the
\* scrape renders the size of an earlier one.
Scrape ==
    /\ \E size \in 0..MaxSize : collectors' = SetCacheSize(collectors, size)
    /\ answer' = None
    /\ UNCHANGED <<events, validation, awaiting, replays>>

\* POST /analytics/threshold-test
ThresholdTest(cases, chosen) ==
    /\ collectors.total <= TestHorizon
    /\ answer' \in Evaluate(cases, IF chosen = {} THEN DefaultThresholds ELSE chosen)
    /\ UNCHANGED <<events, collectors, validation, awaiting, replays>>

Next ==
    \/ \E l \in Lookups : Hit(l) \/ Miss(l)
    \/ \E p \in Provider : ProviderAnswers(p)
    \/ \E drifted \in BOOLEAN : Replay(drifted)
    \/ ReplayFails
    \/ Scrape
    \/ \E cases \in Samples, chosen \in ThresholdChoices : ThresholdTest(cases, chosen)

Spec == Init /\ [][Next]_vars
-----------------------------------------------------------------------------
Fraction == Nat \X (Nat \ {0})

TypeOK ==
    /\ events \in Seq([score: -1000..1000, threshold: 0..1000])
    /\ Len(events) <= NearMissCapacity
    /\ collectors \in
         [hits: [Label -> Nat], misses: [Label -> Nat], total: Nat, total_hits: Nat,
          hit_rate: Fraction, by_provider: [Provider -> Nat], by_model: [Model -> Nat],
          similarity: [SimilarityBucket -> Nat], lookup_latency: Nat,
          provider_latency: [Provider -> Nat], cost_saved: Nat, tokens_saved: Nat,
          cache_size: Nat, accuracy: Fraction, drift_rate: Fraction,
          false_hit_rate: Fraction]
    /\ ValidationTypeOK
    /\ awaiting \in [Provider -> Nat]
    /\ replays \in Nat
    /\ answer # None => answer.recommended \in answer.thresholds \cap Int

\* The recommended threshold does what its text promises, it "would recover
\* most of" the near misses in the window: three quarters of them score at
\* least that much, whatever the size of the window and the ties in it, and
\* the recommendation is lower than some of the thresholds that were missed.
RecoversMost ==
    RecommendedThreshold # NoRecommendation =>
        /\ 4 * EventsWith(LAMBDA s : s >= RecommendedThreshold) >= 3 * Len(events)
        /\ \E k \in DOMAIN events : RecommendedThreshold < events[k].threshold

\* "Cache false hits are costly": no other candidate threshold finds as many of
\* the expected matches with fewer false hits than the recommended one, also
\* where no candidate finds any and all of them tie at an F1 of zero.
NoSaferCandidate ==
    answer # None =>
        LET chosen == Confusion(answer.cases, answer.recommended)
        IN  \A t \in answer.thresholds :
                LET other == Confusion(answer.cases, t)
                IN  ~(other.tp >= chosen.tp /\ other.fp < chosen.fp)

\* A scrape is consistent however lookups, answers and replays interleave:
\* every lookup is under its provider, its model and its bucket, a hit or a
\* miss and not both, and a provider was timed at most once for each miss.
ScrapeAddsUp ==
    LET c == collectors
        looked(l) == c.hits[l] + c.misses[l]
        answered(p) == c.provider_latency[p] + awaiting[p]
    IN  /\ c.total = SumFunction([l \in Label |-> looked(l)])
        /\ c.total = SumFunction(c.similarity) /\ c.total = c.lookup_latency
        /\ \A p \in Provider :
              /\ c.by_provider[p] = SumFunction([m \in Model |-> looked(<<p, m>>)])
              /\ answered(p) <= SumFunction([m \in Model |-> c.misses[<<p, m>>]])
        /\ \A m \in Model :
              c.by_model[m] = SumFunction([p \in Provider |-> looked(<<p, m>>)])
        /\ c.hit_rate = Ratio(SumFunction(c.hits), c.total)

\* The endpoints and the metrics tell one story: once a replay has been counted
\* the gauges are the rates /analytics/validation reports, no more replays are
\* counted than there were hits, and the window holds no more near misses than
\* the misses of the scrape.
ReportsAgree ==
    /\ validation.validations > 0 =>
         /\ collectors.accuracy = Accuracy(validation)
         /\ collectors.drift_rate = DriftRate(validation)
         /\ collectors.false_hit_rate = FalseHitRate(validation)
    /\ validation.validations + replays <= SumFunction(collectors.hits)
    /\ Report.count <= SumFunction(collectors.misses)
=============================================================================
