---------------------------- MODULE Monitoring ----------------------------
(***************************************************************************)
(* The collectors of CacheMetrics with their labels, histograms, gauges    *)
(* and prices, as a scrape of /metrics shows them.  Histograms keep the    *)
(* count of each bucket; the two latency histograms keep their total only. *)
(* Prices are in hundred-thousandths of a dollar per 1000 tokens.          *)
(***************************************************************************)
EXTENDS Integers, FiniteSets, Functions

CONSTANTS
    Model, Provider,
    Pricing         \* DEFAULT_PRICING: the models that have a price of their own

VARIABLE collectors

Label == Provider \X Model
Price == [input: Nat, output: Nat]

ASSUME PricingAssumption == \E known \in SUBSET Model : Pricing \in [known -> Price]

\* A scrape is finite: the lookups of a run name finitely many labels.
ASSUME SeriesAssumption == IsFiniteSet(Provider) /\ IsFiniteSet(Model)

FallbackPrice == [input |-> 50, output |-> 150]

\* _SIMILARITY_BUCKETS, with the bucket of everything above.
SimilarityBucket == {500, 700, 800, 850, 900, 920, 950, 970, 980, 990, 1000, 1001}

Ratio(n, d) == IF d = 0 THEN <<0, 1>> ELSE <<n, d>>

MonitoringInit ==
    collectors =
        [hits |-> [l \in Label |-> 0], misses |-> [l \in Label |-> 0],
         total |-> 0, total_hits |-> 0, hit_rate |-> <<0, 1>>,
         by_provider |-> [p \in Provider |-> 0], by_model |-> [m \in Model |-> 0],
         similarity |-> [b \in SimilarityBucket |-> 0], lookup_latency |-> 0,
         provider_latency |-> [p \in Provider |-> 0],
         cost_saved |-> 0, tokens_saved |-> 0, cache_size |-> 0,
         accuracy |-> <<0, 1>>, drift_rate |-> <<0, 1>>, false_hit_rate |-> <<0, 1>>]

\* The bucket that max(0, similarity) is counted in: the first that holds it.
BucketOf(similarity) ==
    CHOOSE b \in SimilarityBucket :
        /\ similarity <= b
        /\ \A c \in SimilarityBucket : similarity <= c => b <= c

\* A lookup whose provider label is only counted on the miss branch.
CountLookupMissLabel(c, status, provider, model, similarity) ==
    LET hit == IF status = "HIT" THEN 1 ELSE 0
    IN  [c EXCEPT !.by_provider[provider] = @ + 1 - hit,
                  !.by_model[model] = @ + 1,
                  !.lookup_latency = @ + 1,
                  !.similarity[BucketOf(similarity)] = @ + 1,
                  !.total = @ + 1,
                  !.hits[<<provider, model>>] = @ + hit,
                  !.misses[<<provider, model>>] = @ + 1 - hit,
                  !.total_hits = @ + hit,
                  !.hit_rate = Ratio(c.total_hits + hit, c.total + 1)]

\* record_lookup
CountLookup(c, status, provider, model, similarity) ==
    LET hit == IF status = "HIT" THEN 1 ELSE 0
    IN  [c EXCEPT !.by_provider[provider] = @ + 1,
                  !.by_model[model] = @ + 1,
                  !.lookup_latency = @ + 1,
                  !.similarity[BucketOf(similarity)] = @ + 1,
                  !.total = @ + 1,
                  !.hits[<<provider, model>>] = @ + hit,
                  !.misses[<<provider, model>>] = @ + 1 - hit,
                  !.total_hits = @ + hit,
                  !.hit_rate = Ratio(c.total_hits + hit, c.total + 1)]

\* record_provider_latency
CountProviderLatency(c, provider) == [c EXCEPT !.provider_latency[provider] = @ + 1]

PriceOf(model) == IF model \in DOMAIN Pricing THEN Pricing[model] ELSE FallbackPrice

\* record_savings, in hundred-millionths of a dollar
CountSavings(c, model, prompt, completion) ==
    [c EXCEPT !.cost_saved = @ + prompt * PriceOf(model).input
                               + completion * PriceOf(model).output,
              !.tokens_saved = @ + prompt + completion]

\* record_validation
SetValidation(c, accuracy, drift, falseHit) ==
    [c EXCEPT !.accuracy = accuracy, !.drift_rate = drift, !.false_hit_rate = falseHit]

\* set_cache_size
SetCacheSize(c, size) == [c EXCEPT !.cache_size = size]
=============================================================================
