# A TLA+ specification of the LLM semantic caching layer

The program is a proxy between chat clients and LLM providers. It embeds the
user's prompt, looks for a cached answer to a similar enough prompt in the same
namespace, serves it on a hit, and otherwise asks the provider and caches the
answer. This directory holds TLA+ modules of the parts of the program that keep
state or decide something, TLC configurations that check them on small
instances, and TLAPS proofs of the properties that matter most for every value
of the parameters. Paths such as `app/proxy/service.py` are relative to `src/`.

## 1. The system

| Component | Code | State it keeps | Operations that change state |
|---|---|---|---|
| Proxy service | `app/proxy/service.py`, `app/api/chat.py`, `app/main.py` | one coroutine per request; detached validation tasks | `complete`, `stream`, `_maybe_validate`, the exception handler |
| Semantic cache | `app/cache/semantic_cache.py` | none of its own | `lookup`, `store_response` |
| Namespace | `app/cache/namespace.py` | none | `namespace()`, `hash_system_prompt` |
| In-memory store | `app/cache/memory_store.py`, `app/models/cache.py` | dictionary of entries | `upsert`, `search`, `increment_hit`, `delete`, `clear` |
| Redis store | `app/cache/store.py` | hashes, their expiries and an index, in Redis | the same, each as one or two commands; `ensure_index`, `count` |
| Threshold engine | `app/policies/threshold_engine.py` | one threshold per category | `record_feedback`, `threshold_for_prompt` |
| TTL classifier | `app/policies/ttl_classifier.py` | none | `classify` |
| Near-miss tracker | `app/analytics/near_miss.py` | bounded deque | `record`, `report` |
| Validator | `app/analytics/validation.py` | three counters | `should_validate`, `validate` |
| Metrics | `app/monitoring/metrics.py`, `app/api/metrics.py` | labelled counters, histograms, gauges | `record_*`, `set_cache_size`, the scrape |
| Threshold analysis | `app/analytics/threshold.py`, `app/api/analytics.py` | none | `evaluate`, `_recommend` |
| Invalidation API | `app/api/cache.py` | none | four `DELETE` routes |
| Rate limiter | `app/core/middleware.py` | one token bucket per client key | `dispatch` |
| Providers, router | `app/providers/`, `app/proxy/echo.py` | one HTTP client and connection pool per provider | `complete` with its attempts, `stream`, `resolve_provider` |
| Embedding services | `app/embeddings/` | an HTTP client | `embed`, `embed_batch` with its attempts |
| Start-up, readiness, shutdown | `app/main.py`, `app/cache/store.py` | what `lifespan` builds; the index in Redis | `lifespan`, `ensure_index`, `/readyz`, `aclose` |
| Stream assembler | `app/proxy/streaming.py` | buffer, text and flags of one stream | `push`, `build_response`, `response_to_sse` |
| Settings, logging, load tests, benchmark | `app/core/`, `loadtests/`, `scripts/` | settings, a context variable | see section 8 |

**How they interact.** `api/chat.py` calls `ProxyService.complete` or `.stream`.
Both read the threshold from the engine, *then* await the embedding, *then*
search the store, count a hit or record a miss and perhaps a near miss, and on a
miss await the provider and, if the TTL classifier allows, embed the prompt
*again* and upsert the entry. A buffered hit may start a detached replay. The
invalidation routes delete in the same store, and the feedback route moves the
same thresholds, between any two awaits. Everything in one process is a
coroutine: what stands between two awaits that really suspend is atomic.
`InMemoryVectorStore` never suspends, so its methods are atomic;
`RedisVectorStore` suspends at every command, and other replicas issue commands
to the same Redis, so its methods are not.

**What is hard.** Values read before an await and used after it (the threshold
of a lookup, the `hit_count` of a Redis entry); two requests for one prompt that
miss together; a purge or an expiry between a search and what follows it; a
stream that breaks, ends without `[DONE]`, or whose client hangs up; failures
after a 200 has been sent; a process that dies between `HSET` and `EXPIRE`;
detached tasks that finish late or never, among scrapes and shutdowns; a POST
repeated although the upstream has answered it, and the error the last attempt
ends in; a connection pool used up by streams; replicas that race for the index
while Redis comes and goes; buckets refilled lazily after any idle time; ranks,
ties and zeros in the recommendations of a threshold. The list, line by line, is under
`hazards` in `PROJECT.json`, with the properties that cover each one.

**What makes each part correct.**

- Proxy and cache: a hit is isolated (tenant, provider, model, system prompt,
  token limit, about the same temperature), close enough by the threshold that
  was read for it, and fresh; partial answers never enter the cache; hit counts
  and metrics agree with what happened; every request ends.
- Stores: what has expired or was purged answers no lookup and never comes back.
  In Redis, moreover, an expiry only runs down, nothing is left without expiry
  but for a cause that can be named, and every stored entry expires some day.
- Threshold engine: thresholds stay within the bounds of their category.
- Near-miss tracker: its window is bounded, its events are real, and the
  threshold it recommends recovers what its text promises.
- Threshold analysis: no candidate as good as the recommended one is safer.
- Metrics, validator: a scrape is consistent at any moment, and the endpoints
  and the gauges tell one story.
- Providers: a client gets one generation, whole or a prefix of it with an end
  that cannot be taken for success; nothing is generated again but for an answer
  that was lost; connections are given back; every call ends.
- Deployment: every replica serves in the end, and a shutdown takes nothing from
  a request.
- Stream assembler: where the network cuts a stream makes no difference, a cached
  answer has every delta, and a streamed hit sends what was cached.
- Rate limiter: no window of time admits more than a full bucket plus the refill
  of that window, and `Retry-After` is enough.

## 2. The modules

| Module | Models |
|---|---|
| `Prompts` | a prompt is an opaque value; `Traits[p]` is the set of pattern lists it matches |
| `ThresholdPolicy` | `CategoryPolicy`: the bounds and the step of each category, `Clamp`, `Adjust` |
| `ThresholdEngine` | `AdaptiveThresholdEngine`: `current`, `RecordFeedback`, `Categorize` |
| `TtlClassifier` | `Classify`, `TtlSeconds`, `PolicyTags` |
| `Namespace` | `NamespaceOf`, `TemperatureBucket` |
| `MemoryStore` | `InMemoryVectorStore`: `entries`, `Best`, `Upsert`, `IncrementHit`, `Delete`, `Clear`, `Tick` |
| `NearMissTracker`, `CacheMetrics`, `CacheValidator` | the deque, the four counters the proxy drives, shadow replay |
| `ProxyService` | the composition: coroutines of requests over all of the above, purges, feedback, time |
| `VectorStore` | abstract: what the store interface promises (`Add`, `Retire`, `Answer`) |
| `RedisVectorStore` | the Redis store command by command |
| `RateLimiter` | `RateLimitMiddleware` and its token buckets |
| `StreamAssembler` | the assembler of an SSE stream cut into chunks anywhere, `build_response` and `response_to_sse` |
| `NearMissReport` | `NearMissTracker.report`: `Histogram`, `Rank25`, `RecommendedThreshold` |
| `ThresholdAnalysis` | `ThresholdAnalyzer` as operators: `Confusion`, `F1`, `Better`, `Recommended` |
| `Monitoring` | all collectors of `CacheMetrics`, with labels, buckets and prices |
| `Analytics` | the composition of the last three with the tracker and the validator: lookups, late answers, replays, scrapes, threshold tests |
| `Completer` | abstract: what the proxy expects of a provider (the protocol `Completer`) |
| `Providers` | embedding, routing, connection pools, attempts, streams, disconnects |
| `Deployment` | replicas over one Redis: `lifespan`, `ensure_index`, readiness, feedback, shutdown, crashes, outages |
| `MC*` | finite instances for TLC |
| `ProxyServiceProofs`, `ProxyServiceSafety` | the theorems about `ProxyService`: its type; its safety, its counts and its refinement of `VectorStore` |
| `RedisVectorStoreProofs`, `ProvidersProofs` | the theorems about these modules, their refinements of `VectorStore` and `Completer` included |
| `AnalyticsProofs` | the theorems about `Analytics`, after lemmas about orders, sums and ratios |
| `StreamAssemblerProofs` | the theorems about `StreamAssembler`, after lemmas about folds and flattened sequences |
| `RateLimiterProofs`, `DeploymentProofs` | the theorems about `RateLimiter` and `Deployment` |

`ProxyService` EXTENDS the component modules, each of which owns its variable and
its operations, and conjoins an operation with what the coroutine does around
it. Both stores are shown to implement `VectorStore` by a refinement mapping,
and `Providers` to implement `Completer`. `ProxyService` looks at a request from
the inside of one process and takes a call of the upstream for one step;
`Providers` opens that step, `Analytics` follows what a request leaves behind in
the collectors and reports, and `Deployment` puts processes side by side, each
with thresholds of its own under one `ThresholdPolicy`.

### `ProxyService` and the code

`pc[t]` says where the coroutine of task `t` is suspended or how it ended:

| `pc` | Place in the code |
|---|---|
| `lookup` | `await embed` inside `SemanticCache.lookup` (the threshold has been read) |
| `upstream` | `await provider.complete` |
| `streaming` | `miss_body` waiting for the next chunk |
| `storing` | the second `embed`, inside `store_response` |
| `hit`, `stored`, `uncached` | answered from the cache; stored; class `no_cache` |
| `incomplete`, `closed` | stream without `[DONE]`; client gone |
| `lookup_failed`, `upstream_failed`, `store_failed` | an exception, and at which await |

`Begin` is the prefix of the handler up to the embedding call. `Hit` and `Miss`
are everything from the arrival of the embedding to the next suspension,
including the hit count, the metrics, the near-miss event and the start of the
replay. `UpstreamReturns`, `UpstreamFails`, `StreamChunk`, `StreamDone`,
`StreamEnds`, `StreamFails`, `Disconnect`, `StoreResponse`, `StoreFails` follow
the remaining awaits and exceptions. `ShadowReplay` and `ShadowFails` are the
detached task. `Feedback`, `Invalidate`, `InvalidateAll` are the other routes,
`TimePasses` is the clock. `http[t]` is what the client has seen.

### `Providers` and the code

| `pc` | Place in the code |
|---|---|
| `embed` | the attempts of `embed_batch` for the lookup |
| `connect` | httpx waits for a connection of the provider's pool |
| `sent`, `generated` | the POST is out; the upstream has made a generation, whether or not it arrives |
| `streaming` | a native `stream()` (openai, ollama) passes bytes through |
| `replaying` | a buffered answer is sent as a stream (anthropic's inherited `stream()`, echo) |
| `store` | the attempts of `embed_batch` for storing |
| `leaving` | the client hung up, or the assembler raised on a chunk; the generators are not finalized yet |
| `done`, `incomplete`, `raised`, `aborted`, `closed` | answered; stream without `[DONE]`; an error status; cut after the 200; client gone |

`attempts` is tenacity's count in the function being retried. `lost` is an
observer: the generations of which no answer came back. `http` is the status the
client has seen: the 200 of a stream is sent before the router is asked.

### `Deployment` and the code

`probing` and `creating` are the two awaits of `ensure_index`; `serving` is the
`yield` of `lifespan`; `draining` is from the signal to stop to the last
`aclose`. `closed[r]` holds the clients that have been closed, in the code's
order. An exception out of `create_index` ends the process, which the supervisor
starts again (`restart: unless-stopped` in `docker-compose.yml`).

### What is abstracted

- **Prompts** are opaque; the similarity of two of them is a table in
  thousandths (`Similarity`), any function into -1000..1000. The only use the
  code makes of an embedding is the cosine. Thresholds are in thousandths too.
- **A namespace** is the record of what the code hashes: SHA-256 is taken as
  injective. So are the `|`-joined parts: that a tenant name could contain the
  separator is not modelled.
- **Temperatures** are hundredths from 0 to 2.00. `RoundsDown` lists the ties
  that Python's `round(t, 1)` takes down on binary floats.
- **Time** is in units; an entry keeps its age, which stops growing once it has
  expired, so that the state space is finite with no bound on time.
- **A generation** in `ProxyService` is `Parts` chunks and then a `[DONE]`: whose
  answer it is and how much of it has come. `StreamAssembler` models the bytes:
  line breaks with or without a carriage return, the `data:` of a data line, and
  the rest of a line; the text of a delta is a sequence of pieces, and a stream
  ends all its lines alike. Its `CachedIsWhole` is what lets `ProxyService`
  take a completed stream for a whole answer, of an upstream that sends `[DONE]`
  last. Ids, times and usage are left out, and several choices are merged in
  arrival order as the code does. A `data:` line that is no JSON is skipped;
  one that is JSON but no chunk (not an object, or null `choices`) raises out of
  `push` and ends the body with nothing cached (`Misread`). A usage or a text of
  another type raises at the latest in `build_response` (`Break`).
- **Ids**: the uuid of an entry is the task that stores it.
- **Attempts** of a retried POST are one step of `ProxyService`, with the outcome
  of the last; `Providers` takes them one by one.
- **Metrics** of `ProxyService` are the four counts it drives; `Monitoring` has
  the collectors with labels, buckets and prices. The latency histograms keep
  their totals. Prices are in hundred-thousandths of a dollar per 1000 tokens.
- **A lookup** of `Analytics` is given by what it found (score, threshold,
  provider, model, usage), because `ProxyService` models how it gets there.
  F1 is in ten-thousandths, rounded ties to even as `round(f1, 4)` is; the other
  ratios are pairs and compared exactly.
- **httpx, the upstream and the finalizer of async generators** are external to
  `Providers`, and answer, fail or time out at any wait. Payload translation
  (what Anthropic's payload keeps of a request, finish reasons) is data.
- **Requests of a replica** in `Deployment` are counts: it is about when they
  may still run, not about what they do.
- **Redis** is its hashes: whether indexed, hit count, expiry. RediSearch is
  external; whether `*` also returns a hash that has none of the indexed fields
  is left open (both are tried). The page size 10,000 is a constant. `Ttl[i]` 0
  is an upsert without expiry, which the store accepts and the service never
  asks for. `found` records what the query of a purge has matched.
- **Rate limiter**: tokens are counted in ticks, so that refill is exact; the
  code's floats differ from it by rounding only.

## 3. The runs

| Run | Instance | What is checked |
|---|---|---|
| `proxy_store` | 3 tasks, buffered, streamed, tagged, time-sensitive and volatile requests in one namespace; LongTtl 2, ShortTtl 1; fixed threshold; every purge | `TypeOK`, `HitIsFresh`, `NeverCachePartial`, `HitCountsExact`, `ImplementsVectorStore` |
| `proxy_pair` | 2 tasks, one request for every namespace dimension, prompts of similarity 0.96 and thresholds that feedback moves over it, a near-miss window of 1 event, two chunks, validation on, under fairness | `HitIsIsolated`, `HitIsCloseEnough`, `NearMissIsTrue`, `WithinBounds`, `CountersExact`, `RequestTerminates` |
| `redis_store` | 2 entries, of TTL 2 and without one, 2 lookups, a clear and a filtered purge; page of 1 | `TypeOK`, `UnexpiringIsExplained`, `HitsNotInflated`, `ExpiryOnlyRunsDown`, `StoredEntryExpires`, `ImplementsVectorStore` |
| `rate_limiter` | 1 tenant, 1 host (2 keys), 2 requests per second, 3 ticks a second, 6 ticks | `TypeOK`, `WindowBound`, `RetryAfterIsEnough` |
| `stream_assembler` | every stream of up to 3 events out of 6 kinds, either line end, every cut into chunks, closed or broken at every byte | `TypeOK`, `BoundariesIrrelevant`, `CachedIsWhole`, `HitReplaysAnswer` |
| `analytics` | 9 lookups out of 5 kinds on 2 providers and models, a near-miss window of 8 events, 4 samples for a recommendation; every labelled sample of one or two pairs and one of four, for the default thresholds and two others | `TypeOK`, `RecoversMost`, `NoSaferCandidate`, `ScrapeAddsUp`, `ReportsAgree` |
| `providers` | 2 calls, each buffered or streamed, to a native, a replayed, a local or an unconfigured provider; a pool of 1, 3 attempts, 2 parts | `TypeOK`, `PaidOnce`, `PoolSound`, `ImplementsCompleter`, `CallEnds` |
| `deployment` | 3 replicas with a request and a replay each, 3 mishaps (crash, shutdown, failed probe, outage with or without loss of data) | `TypeOK`, `ShutdownIsGraceful`, `EveryReplicaServes` |

Why the bounds are enough. Three tasks allow one to fill the cache, one to hit
and one to race with either, and two prompts with a duplicate of one; more tasks
only repeat those roles, and the proofs cover any number. A TTL of 2 has an age
before, at and after the boundary. The general policy moves by 0.06 a step in
`MCProxyService`, so one step reaches a bound and is clamped; the code's 0.005
passes through more values in the same way. Two chunks make a strict prefix possible. In Redis, two
lookups are what a lost update or a resurrected key needs, and a page of one
against two entries stands for 10,000 against more. Six ticks at three a
second hold two whole windows: from empty to full and past the cap. Three events
give two deltas and a `[DONE]`, in every order, with every kind between them.
Nine lookups overflow the near-miss window of 8, the smallest in which the 25th
percentile is not the lowest score; two pairs of four scores on either side of every default threshold
give every confusion matrix of two cases, all-negative ones included. Two calls
are what it takes to wait for a connection the other holds. Three replicas make
two losers in the race for the index, and with three mishaps each of them can
lose for another reason; feedback reaches a bound in one step, as above.

`redis_store` switches the deadlock check off: its clients make finitely many
calls, after which there is nothing left to do; and so does `stream_assembler`,
whose stream ends. In `ProxyService` and `Deployment`
feedback, in `RateLimiter` requests and in `Analytics` scrapes are always
possible, and in `Providers` the only state without a call to serve is the one
in which all have ended (`AllEnded`): there deadlock is checked.

Each property has a mutant in `PROJECT.json`: a plausible bug in one definition
(a dropped expiry test, a late re-read of the threshold, an unchecked end of a
stream, ...) with which TLC finds the property violated.

### Runs that end in a violation

Each states what the repository says, and TLC shows that the code does otherwise.

| Run | Claim | What happens |
|---|---|---|
| `proxy_top_p` | `README.md:151-153`: prompts never share an entry across decoding parameters | `top_p` (also `n`, `stop`, ...) is not part of the namespace |
| `redis_ttl` | `docs/ARCHITECTURE.md:43-44`: answers are cached with a TTL | an upsert interrupted between `HSET` and `EXPIRE` leaves an entry for ever |
| `redis_clear` | `app/cache/store.py:63`: `clear` deletes every entry of the index | of what its query finds, it deletes one page of at most 10,000, and returns |
| `stateless` | `docs/ARCHITECTURE.md:90`: the service is stateless, all shared state is in Redis | feedback moves the thresholds of the replica it reaches, and of no other |

None of these properties is temporal beyond one step, so none needs fairness.

### Other disagreements seen while modelling

They are visible in the definitions and have no run of their own.

- Only `ProviderError` is enveloped as `app/main.py:158` says: a transport error
  after the last attempt is a bare 500, a stream that fails is cut
  (`Providers!Raise`). 429 and 503 are such errors and are not tried again,
  although the adapter speaks of "retry/backoff on transient failures"
  (`openai.py:4`); the embedding service does retry them, and 4xx as well
  (`embeddings/openai.py:24`). The setting `upstream_max_retries` is read nowhere.
- Hits of streamed requests are never replayed (`service.py:203-217`), though
  `README.md:50` speaks of a sampled fraction of the hits.
- A stream whose lines end in CRLF, which the SSE format allows, is passed on but
  never parsed: `b"\n\n"` does not occur in it (`streaming.py:76`), so it is never
  completed and never cached (`WholeEvents` of `StreamAssembler`).
- Feedback may take the creative threshold to 0.97 (`threshold_engine.py:54`),
  under the "0.98+" of the module's text.
- Before the first replay the gauge `cache_validation_accuracy` is 0 while
  `/analytics/validation` reports 1.0; `ReportsAgree` starts at the first replay.
- `cache_hit_rate`, the "Rolling cache hit rate", is the rate since the process
  started. `evictions_total` is never incremented.
- A replica that runs never recreates an index that was lost, so it stays unready
  until one is started again; the second conjunct of `EveryReplicaServes` is
  conditional on the index for that reason. An index of other dimensions than the
  configured ones passes the probe.

## 4. Fairness

`ProxyService!FairSpec` assumes weak fairness of `Progress(t)` for each task: the
coroutine takes a step when what it awaits has come. The code justifies it
because every await ends. The HTTP clients have timeouts, an attempt is repeated
at most three times, the event loop runs what is ready, and a generation has
finitely many chunks. Nothing is assumed of clients (`Begin`, `Disconnect`), of
detached replays, of operators (feedback, purges), or of which way an await ends.
That a generation is finite is not an assumption on fairness: it is the constant
`Parts`.

`Providers!FairSpec` assumes the same of `Progress(c)` for each call, for the same
reasons, one of them being that httpx bounds the wait for a connection too (a
`PoolTimeout` is a transport error). Weak fairness is enough because
`TransportError` is always possible where `Connect` comes and goes. A generator
that nobody iterates any more is closed by the event loop's finalizer hook, which
is `Finalize`. Nothing is assumed of clients.

`Deployment!FairSpec` assumes that the supervisor starts what has stopped, that
the awaits of start-up, of requests and of shutdown end, and that Redis is brought
back. It assumes nothing of crashes, shutdowns and outages, which `MaxMishaps`
bounds: "once nothing more goes wrong" is what `EveryReplicaServes` is about.

`RedisVectorStore!FairSpec` assumes weak fairness of `Tick` only: time passes and
Redis removes what is due. It assumes nothing of the clients, so that an entry
expires whatever they do or leave undone, once `EXPIRE` has been sent.

## 5. What is proved

Each theorem holds for every value of the constants that satisfies the named
assumptions of its module:

- `ProxyService`: any set of tasks and requests, any similarity, thresholds,
  policies, TTLs, capacities and rates (`ProxyAssumption`, `PolicyAssumption`,
  `TtlAssumption`, `TraitsAssumption`, `NearMissAssumption`, `SampleAssumption`);
- `RedisVectorStore`: any finite sets of entries and of lookups, any purges, TTLs
  (0 for none) and page size (`RedisAssumption`);
- `RateLimiter`: any tenants, hosts, rate, resolution of the clock and horizon
  (`RateAssumption`);
- `Analytics`: any lookups, samples, candidate thresholds, capacity and window
  (`AnalyticsAssumption`, `NearMissAssumption`, `MinSamplesAssumption`,
  `PricingAssumption`), and finitely many providers and models, because a sum over
  series means nothing otherwise (`SeriesAssumption`);
- `Providers`: any set of calls and providers, any pool size, number of attempts,
  length of an answer and status codes (`ProvidersAssumption`);
- `StreamAssembler`: any streams of any number of events with any number of lines
  and choices, in chunks of any length (`WireAssumption`);
- `Deployment`: any number of replicas, requests and mishaps (`PolicyAssumption`,
  `DeploymentAssumption`).

The assumptions only give the constants their types, and say that each policy's
base lies between its bounds, that a rate, a resolution, a page, a pool or a
number of attempts is not zero, that a clear purges every entry, and that `None`
is none of the values it stands beside. They require finiteness only where a
property counts or sums over a set, and not in `ProxyService`, where only
finitely many tasks have begun at any time, which is part of the invariant.

| Theorem | Says | Module |
|---|---|---|
| `ProxyTypeCorrect` | `Spec => []TypeOK`, with the bound of the near-miss window | `ProxyServiceProofs` |
| `ThresholdsStayWithinBounds` | `Spec => []WithinBounds` | `ProxyServiceSafety` |
| `PartialNeverCached` | `Spec => []NeverCachePartial` | `ProxyServiceSafety` |
| `HitsAreCloseEnough` | `Spec => []HitIsCloseEnough` | `ProxyServiceSafety` |
| `HitsAreFresh` | `Spec => []HitIsFresh` | `ProxyServiceSafety` |
| `HitsAreIsolated` | `Spec => []HitIsIsolated` | `ProxyServiceSafety` |
| `NearMissesAreTrue` | `Spec => []NearMissIsTrue` | `ProxyServiceSafety` |
| `HitCountsAreExact` | `Spec => []HitCountsExact` | `ProxyServiceSafety` |
| `CountersAreExact` | `Spec => []CountersExact` | `ProxyServiceSafety` |
| `ServiceImplementsVectorStore` | `Spec => ImplementsVectorStore` | `ProxyServiceSafety` |
| `RedisTypeCorrect` | `Spec => []TypeOK` | `RedisVectorStoreProofs` |
| `UnexpiringExplained` | `Spec => []UnexpiringIsExplained` | `RedisVectorStoreProofs` |
| `HitsAreNotInflated` | `Spec => []HitsNotInflated` | `RedisVectorStoreProofs` |
| `ExpiryRunsDown` | `Spec => ExpiryOnlyRunsDown`, an action property | `RedisVectorStoreProofs` |
| `RedisImplementsVectorStore` | `Spec => ImplementsVectorStore` | `RedisVectorStoreProofs` |
| `LimiterTypeCorrect` | `Spec => []TypeOK`: no bucket over its capacity or ahead of the clock | `RateLimiterProofs` |
| `WindowsAreBounded` | `Spec => []WindowBound` | `RateLimiterProofs` |
| `RetryAfterSuffices` | `Spec => RetryAfterIsEnough` | `RateLimiterProofs` |
| `AnalyticsTypeCorrect` | `Spec => []TypeOK` | `AnalyticsProofs` |
| `RecommendationRecoversMost` | `Spec => []RecoversMost` | `AnalyticsProofs` |
| `RecommendationIsSafest` | `Spec => []NoSaferCandidate` | `AnalyticsProofs` |
| `ScrapesAddUp` | `Spec => []ScrapeAddsUp` | `AnalyticsProofs` |
| `EndpointsAgree` | `Spec => []ReportsAgree` | `AnalyticsProofs` |
| `ProvidersTypeCorrect` | `Spec => []TypeOK` | `ProvidersProofs` |
| `GenerationsPaidOnce` | `Spec => []PaidOnce` | `ProvidersProofs` |
| `PoolsAreSound` | `Spec => []PoolSound` | `ProvidersProofs` |
| `ProvidersImplementCompleter` | `Spec => ImplementsCompleter` | `ProvidersProofs` |
| `AssemblerTypeCorrect` | `Spec => []TypeOK`: no push returns with a whole event in the buffer | `StreamAssemblerProofs` |
| `BoundariesDoNotMatter` | `Spec => []BoundariesIrrelevant` | `StreamAssemblerProofs` |
| `CachedAnswerIsWhole` | `Spec => []CachedIsWhole` | `StreamAssemblerProofs` |
| `HitsReplayAnswers` | `Spec => []HitReplaysAnswer` | `StreamAssemblerProofs` |
| `DeploymentTypeCorrect` | `Spec => []TypeOK`, with the bounds of every threshold in every replica | `DeploymentProofs` |
| `ShutdownsAreGraceful` | `Spec => []ShutdownIsGraceful` | `DeploymentProofs` |

**The inductive invariant of `ProxyService`.** None of the hit properties is inductive: they speak
of an answer that was served, and its entry may be gone by now. `IInv` says what
the served answer owes to its origin, in two parts:

- `EntrySound`: an entry in the store was put there by the task whose id it
  bears. That task has ended in `stored`, and the entry's namespace, prompt, TTL
  and tags are those of its request, its response is whole, and if it was
  streamed the stream was completed. It is established by `StoreResponse`, which
  needs that a task gets to `storing` only with a whole answer (`AnswerWhole`).
- `MatchSound`: a served answer came from a task that had stored it, in the same
  namespace, with the similarity of the two prompts as its score, a score that
  clears the threshold the reader had, and an age within the TTL. It is
  established by `Hit` from `EntrySound`, and it needs nothing of the entry
  afterwards, so purges and time cannot disturb it.

`ThresholdFloor` (a threshold a task has read is at least its category's minimum)
links `WithinBounds` to the hits. `TypeInv` adds to `TypeOK` that a task past
`idle` has a request. With these, `HitIsIsolated` reduces to arithmetic on
equal namespaces: two temperatures in one bucket are within a tenth
(`BucketWidth`, which covers the ties of `RoundsDown`). `HitIsFresh` needs that
`no_cache` has TTL 0 and that `AfterAnswer` never stores it.

Near misses have an invariant of their own (`NearMissInv`): the window is a
sequence, so the proof goes through `Append` and `Tail`, and the task an event
names never leaves the states an event may name. The refinement proof maps each
action to `Add`, `Retire`, `Answer` or a stutter; the step that matters is the
clock, which retires entries by expiry.

The two counting properties compare a number the code keeps with a cardinality.
`CountInv` adds to `IInv` that the tasks that have begun are finitely many
(`FinitelyBegun`, since a step begins at most one), and then each step adds one
element to at most one of the sets that are counted, and one to the number. A
hit does both in one action because the store counts without suspending; a new
entry starts at zero because nobody can have been answered by a task that had
not stored yet (`MatchSound`).

**The Redis store.** Here one operation is several commands, so the invariant says
what each client knows between two of them. `WriterFirst`: no key exists before
its upsert writes it, and it has no expiry until `EXPIRE` is sent, which is what
leaves an entry for ever when the writer dies there. `ReaderSound`: the count a
lookup is about to write back is at most the number of lookups that have
counted, whatever the others wrote since it read; `HitsNotInflated` follows,
although updates are lost. `UnexpiringIsExplained` has as its second cause the
lookup that writes `hit_count` to a key that was purged under it. In the
refinement an entry is abstractly there while its hash is indexed, and every
command but the `HSET` of an upsert and the search of a lookup retires entries
or stutters: the orphan of a late `hit_count` is not indexed, so it does not
bring an entry back.

**The providers.** `Sound` is the state of one call as a predicate of its place,
request, attempts, generations, losses and what its client has seen: while the
call is still trying, every generation but the current one is lost, and every
lost one has cost an attempt. `PaidOnce` is read off it, and so is each step of
`Completer`. `PoolSound` counts connections, so `PoolInv` adds that finitely many
are open; `Connect` is the only action that opens one, and its guard is the
bound. Each action moves one call, and `Others` says that it
leaves the rest alone.

**The reports.** `IInv` of `AnalyticsProofs` says that every event of the window
fell short of its threshold (`EventsMissed`), that a false hit is a replay that
was counted, and that no candidate is `Better` than the last recommendation.

- `RecoversMost`: the order statistic `sorted(scores)[k]` exists and has at most
  `k` scores under it (`OrderedSound`); a nonempty set of bounded integers has
  a least element because strict subsets of a finite set are well founded.
- `NoSaferCandidate`: a candidate with as many matches and fewer false hits would
  be `Better` (`SaferIsBetter`). Its F1 is no lower even when both are rounded
  to four digits (`RoundedMonotone`, ties to even included); where rounding
  makes them equal its precision is no lower; and where precision does not
  tell them apart either, the order of thresholds does, since a candidate with
  fewer false hits is the higher one.
- `ScrapeAddsUp` and `ReportsAgree` sum with `SumFunction`, a fold that takes out
  elements in an order `CHOOSE` decides. `SumDefined` shows that the fold is
  what its recursion says, by building the table of its partial sums size by
  size, and `SumOfIncrement` that one entry more is one more in the sum. From
  there `Sums` is an invariant: a lookup adds one to exactly one term of each
  sum, an answer moves one from `awaiting` to the latencies, and nothing else
  touches them.

**The stream assembler.** `IInv` says where an assembler stands after any
chunks: it has parsed the events that have arrived to their last byte
(`Whole`), and holds the bytes after them (`Held`). So what must be shown is
that a push takes one such state to the next (`PushHeld`), wherever the chunk
begins and ends. In the bytes of an event two line breaks follow each other at
its end and nowhere else (`EventGap`), and consuming what stands before them takes
its lines in their order (`EventConsumed`). Hence a turn of the loop moves one
event from the buffer to what is parsed (`TurnConsumes`), the loop goes on while
there is a whole one and then stops (`HeldDrained`, where each event has a byte
and the loop therefore turns often enough), and the next event's gap is not in
the buffer before its last byte (`NoGap`). With carriage returns there is no gap at
all, so nothing is ever taken out of the buffer (`Unread`, `PushUnread`). An
assembler that goes on has not raised, which is why a cached answer had no chunk
that cannot be read. The three content properties follow:
what the events say is the text of their deltas (`StreamSays`), `[DONE]` is only
parsed when its event is whole, and a rendered answer is a stream like any other,
pushed at once (`Replayed`).

All of this is about folds, whose `CHOOSE` has to be shown to have a solution
before it means anything. `FoldExists` builds one on ever longer ranges of
indices, by `Counting`: a set with 0 and with every successor contains the
natural numbers, because otherwise its complement had a least element.

**The rate limiter.** `WindowBound` counts what was admitted and says nothing of
what the bucket still holds, so a bucket that is too full would break it only
later. `TokenBalance` adds the two: what a key was admitted since the mark, and
what it may spend now (`Level`), never exceed a full bucket and the refill of
the time that has passed. A tick adds at most as much to the left side as to the
right (`RefillStep`), an admission moves a token from one summand to the other,
and a new mark starts from a bucket that is at most full. The products of
variables are isolated in lemmas of pure arithmetic. `RetryAfterSuffices` needs
only the type invariant: a bucket left alone for a second has refilled a token.

**The deployment.** `ShutdownIsGraceful` is not inductive: a replica that starts
could, for all it says, begin with closed clients, and would accept requests with
them. `ClosedOnTheWayOut` says that it does not. The thresholds need that a clamp
between two scores is one of the scores between them (`ClampBounds`).

**Time limits.** A leaf that takes the provers more than a fraction of their default
limit is split or names a longer one (`SMTT(30)`, `ZenonT(90)`), so that the proofs
do not depend on the speed of the machine: they also check with every limit cut to a
quarter (`tlapm --stretch 0.25`).

## 6. What is only model-checked

- `RequestTerminates`, `StoredEntryExpires`, `CallEnds` and `EveryReplicaServes`:
  liveness under fairness is out of the prover's reach.

## 7. Assumptions on the environment

One process with one event loop for `ProxyService`; the in-memory store behind
it. Redis commands are atomic, and only in `Deployment` does Redis fail or lose
data. Clocks do not
go back. Request ids (uuids) do not collide. `X-Tenant-Id` is what the client
sends: the limiter and the namespace use it as it is, and so do the models.

## 8. What is not modelled, and why

- **The arithmetic of embeddings** (the hashed vectors of the fake service, the
  normalisation, the cosine): floats behind a table of similarities.
- **Translation of payloads and responses** between the OpenAI and the Anthropic
  schema, and the codec of Redis hashes: data without control.
- **Settings**: their fields are the constants. **Logging** and the correlation id:
  no state that another component reads.
- **Several proxies over one `RedisVectorStore`**: `RedisVectorStore` has the
  commands of clients of any replica interleaved, `Deployment` the replicas
  without their requests' steps; the product of both is out of TLC's reach.
- **Load tests, benchmark, dashboards, container files**: they drive or show the
  service from outside.

## 9. Plan

Done, in this order: engine, classifier, namespace, in-memory store, tracker,
metrics, validator; the proxy that composes them; `VectorStore` and its
refinement; the Redis store; the rate limiter; the proofs about the proxy; the
stream assembler; threshold analysis, reports and collectors with their
composition; the providers and their contract; the deployment; then
the proofs about the counts of the proxy, the Redis store, the providers, the
reports and the stream assembler.

Every invariant, action property and refinement that a passing run checks is now
proved; what is left are the four liveness properties of section 6.
