---------------------------- MODULE ProxyService ----------------------------
(***************************************************************************)
(* ProxyService over the in-memory store: what happens to chat requests    *)
(* from the moment they read their threshold to the moment their answer    *)
(* has been sent and cached.  Each request is a coroutine; a step of it    *)
(* runs from one await that really suspends (embedding, upstream call,     *)
(* next chunk) to the next, and everything else may happen between two     *)
(* steps: other requests, invalidations, threshold feedback, time, a       *)
(* client that hangs up.                                                   *)
(***************************************************************************)
EXTENDS ThresholdEngine, TtlClassifier, Namespace, MemoryStore,
        NearMissTracker, CacheMetrics, CacheValidator

CONSTANTS
    Task,                   \* the requests served; a task's id also names the entry it stores
    Request,                \* what a client may ask
    Parts,                  \* chunks a complete generation consists of
    DefaultThreshold,       \* similarity_threshold
    AdaptiveThresholds,     \* adaptive_thresholds_enabled
    NearMissWindow,         \* near_miss_window
    ValidationEnabled,      \* validation_enabled
    None

VARIABLES
    pc,         \* where the coroutine of a task is suspended, or how it ended
    request,    \* the request a task serves
    threshold,  \* the similarity threshold a task compares with
    match,      \* the cached answer a task served: entry, its score and its age
    parts,      \* chunks of the upstream answer a task has received
    completed,  \* StreamAssembler.completed
    http,       \* what the client has seen
    shadow      \* the shadow replay of a task's hit

taskVars == <<pc, request, threshold, match, parts, completed, http, shadow>>
vars == <<taskVars, current, entries, events, metrics, validation>>

Waiting == {"lookup", "upstream", "streaming", "storing"}
Ended == {"hit", "stored", "uncached", "incomplete", "closed",
          "lookup_failed", "upstream_failed", "store_failed"}

\* What a task keeps of the cached answer it served.
Match == [entry: Task, score: Int, age: Nat]

\* Cosines of two embeddings, in thousandths.
Cosine == -1000..1000

\* What the proxy looks at in a request; messages are folded into system (the
\* first system message) and prompt (latest_user_prompt).
ChatCompletionRequest ==
    [model: DOMAIN Route, system: DOMAIN SystemHash, temperature: Temperature,
     top_p: 0..100, max_tokens: Nat \cup {None}, tenant: STRING,
     prompt: Prompt, tags: SUBSET STRING, stream: BOOLEAN]

ASSUME ProxyAssumption ==
    /\ \A r \in Request : r \in ChatCompletionRequest
    /\ Similarity \in [Prompt -> [Prompt -> Cosine]]
    /\ Parts \in Nat \ {0}
    /\ DefaultThreshold \in Score
    /\ NearMissWindow \in Score
    /\ AdaptiveThresholds \in BOOLEAN /\ ValidationEnabled \in BOOLEAN
    /\ None \notin Request \cup Task \cup Match
-----------------------------------------------------------------------------
Namespace(t) == NamespaceOf(request[t])

\* _headers, JSONResponse and the exception handlers: "ok" is a 200, "error" a
\* bare 500, "enveloped" the handler's provider_error body, "aborted" a 200
\* whose connection is dropped, since its headers have already been sent.
HttpStatus == {"pending", "ok", "error", "enveloped", "aborted"}

\* threshold_policy(request), or the cache's default when there is no policy.
EffectiveThreshold(p) ==
    IF AdaptiveThresholds THEN ThresholdForPrompt(p) ELSE DefaultThreshold

ProxyInit ==
    /\ pc = [t \in Task |-> "idle"]
    /\ request = [t \in Task |-> None]
    /\ threshold = [t \in Task |-> 0]
    /\ match = [t \in Task |-> None]
    /\ parts = [t \in Task |-> 0]
    /\ completed = [t \in Task |-> FALSE]
    /\ http = [t \in Task |-> "pending"]
    /\ shadow = [t \in Task |-> "none"]

Init ==
    /\ ProxyInit /\ EngineInit /\ StoreInit
    /\ NearMissInit /\ MetricsInit /\ ValidationInit

Moves(t, from, to) == pc[t] = from /\ pc' = [pc EXCEPT ![t] = to]

\* The handler runs up to the embedding call.  The threshold is read here.
Begin(t, r) ==
    /\ Moves(t, "idle", "lookup")
    /\ request' = [request EXCEPT ![t] = r]
    /\ threshold' = [threshold EXCEPT ![t] = EffectiveThreshold(r.prompt)]
    /\ UNCHANGED <<match, parts, completed, http, shadow,
                   current, entries, events, metrics, validation>>

\* embed() or search() raises: nothing handles it, the client gets a 500.
LookupFails(t) ==
    /\ Moves(t, "lookup", "lookup_failed")
    /\ http' = [http EXCEPT ![t] = "error"]
    /\ UNCHANGED <<request, threshold, match, parts, completed, shadow,
                   current, entries, events, metrics, validation>>

ScoreOf(t, i) == Similarity[request[t].prompt][entries[i].prompt]

\* A comparison that reads the threshold again after the await.
CloseEnoughNow(t, score) == score >= EffectiveThreshold(request[t].prompt)

\* score >= effective_threshold
CloseEnough(t, score) == score >= threshold[t]

\* _maybe_validate, which only complete() calls.
Sampled(t) ==
    IF ValidationEnabled /\ ~request[t].stream THEN ShouldValidate ELSE {FALSE}

\* The embedding has arrived and the best live entry is close enough.
Hit(t) ==
    /\ Moves(t, "lookup", "hit")
    /\ \E i \in Best(Namespace(t), request[t].prompt) :
          /\ CloseEnough(t, ScoreOf(t, i))
          /\ IncrementHit(i)
          /\ match' = [match EXCEPT ![t] =
                [entry |-> i, score |-> ScoreOf(t, i), age |-> entries[i].age]]
    /\ metrics' = RecordSavings(RecordLookup(metrics, "HIT"))
    /\ \E sampled \in Sampled(t) :
          shadow' = [shadow EXCEPT ![t] = IF sampled THEN "running" ELSE "none"]
    /\ http' = [http EXCEPT ![t] = "ok"]
    /\ UNCHANGED <<request, threshold, parts, completed, current, events, validation>>

\* An event that takes the threshold feedback has set meanwhile.
NearMissOfNow(t, score) ==
    [score |-> score, threshold |-> EffectiveThreshold(request[t].prompt),
     namespace |-> Namespace(t), prompt |-> request[t].prompt]

NearMissOf(t, score) ==
    [score |-> score, threshold |-> threshold[t],
     namespace |-> Namespace(t), prompt |-> request[t].prompt]

\* No live entry is close enough.  complete() goes on to call the provider;
\* stream() returns, and its 200 is sent before the body asks for a chunk.
Miss(t) ==
    LET best == Best(Namespace(t), request[t].prompt)
    IN  /\ Moves(t, "lookup", IF request[t].stream THEN "streaming" ELSE "upstream")
        /\ \A i \in best : ~CloseEnough(t, ScoreOf(t, i))
        /\ \/ \E i \in best : /\ threshold[t] - NearMissWindow <= ScoreOf(t, i)
                              /\ Record(NearMissOf(t, ScoreOf(t, i)))
           \/ /\ \A i \in best : ScoreOf(t, i) < threshold[t] - NearMissWindow
              /\ UNCHANGED events
        /\ metrics' = RecordLookup(metrics, "MISS")
        /\ http' = [http EXCEPT ![t] = IF request[t].stream THEN "ok" ELSE @]
        /\ UNCHANGED <<request, threshold, match, parts, completed, shadow,
                       current, entries, validation>>

\* A complete answer has been received: cache it unless its class forbids.
AfterAnswer(t) == IF TtlSeconds(request[t].prompt) > 0 THEN "storing" ELSE "uncached"

UpstreamReturns(t) ==
    /\ Moves(t, "upstream", AfterAnswer(t))
    /\ parts' = [parts EXCEPT ![t] = Parts]
    /\ http' = [http EXCEPT ![t] = IF AfterAnswer(t) = "uncached" THEN "ok" ELSE @]
    /\ UNCHANGED <<request, threshold, match, completed, shadow,
                   current, entries, events, metrics, validation>>

\* The provider answered with an error status (ProviderError, which the
\* exception handler turns into an envelope) or the transport failed three
\* times (an httpx error, which no handler knows).
UpstreamFails(t, error) ==
    /\ Moves(t, "upstream", "upstream_failed")
    /\ http' = [http EXCEPT ![t] = IF error = "provider" THEN "enveloped" ELSE "error"]
    /\ UNCHANGED <<request, threshold, match, parts, completed, shadow,
                   current, entries, events, metrics, validation>>

\* miss_body pushes a chunk into the assembler and forwards it.
StreamChunk(t) ==
    /\ pc[t] = "streaming" /\ parts[t] < Parts
    /\ parts' = [parts EXCEPT ![t] = @ + 1]
    /\ UNCHANGED <<pc, request, threshold, match, completed, http, shadow,
                   current, entries, events, metrics, validation>>

\* The chunk that carries "data: [DONE]", sent after the whole answer.
StreamDone(t) ==
    /\ pc[t] = "streaming" /\ parts[t] = Parts /\ ~completed[t]
    /\ completed' = [completed EXCEPT ![t] = TRUE]
    /\ UNCHANGED <<pc, request, threshold, match, parts, http, shadow,
                   current, entries, events, metrics, validation>>

\* A body that caches whatever it has when the stream closes.
StreamEndsUnchecked(t) ==
    /\ Moves(t, "streaming", AfterAnswer(t))
    /\ UNCHANGED <<request, threshold, match, parts, completed, http, shadow,
                   current, entries, events, metrics, validation>>

\* The upstream closes the stream, after [DONE] or before it.
StreamEnds(t) ==
    /\ Moves(t, "streaming", IF completed[t] THEN AfterAnswer(t) ELSE "incomplete")
    /\ UNCHANGED <<request, threshold, match, parts, completed, http, shadow,
                   current, entries, events, metrics, validation>>

\* A body that asks the provider again whenever the stream fails.
StreamFailsRetried(t) ==
    /\ pc[t] = "streaming"
    /\ parts' = [parts EXCEPT ![t] = 0]
    /\ completed' = [completed EXCEPT ![t] = FALSE]
    /\ UNCHANGED <<pc, request, threshold, match, http, shadow,
                   current, entries, events, metrics, validation>>

\* The upstream call or one of its chunks raises, even after [DONE].
StreamFails(t) ==
    /\ Moves(t, "streaming", "upstream_failed")
    /\ http' = [http EXCEPT ![t] = "aborted"]
    /\ UNCHANGED <<request, threshold, match, parts, completed, shadow,
                   current, entries, events, metrics, validation>>

\* The client hangs up: the body's coroutine is cancelled where it waits.
Disconnect(t) ==
    /\ request[t] # None /\ request[t].stream
    /\ pc[t] \in {"streaming", "storing"}
    /\ pc' = [pc EXCEPT ![t] = "closed"]
    /\ UNCHANGED <<request, threshold, match, parts, completed, http, shadow,
                   current, entries, events, metrics, validation>>

\* The CacheEntry store_response builds.
EntryOf(t) ==
    LET r == request[t]
    IN  [namespace |-> Namespace(t), model |-> r.model,
         system_hash |-> SystemHash[r.system], prompt |-> r.prompt,
         response |-> [of |-> t, parts |-> parts[t]],
         ttl |-> TtlSeconds(r.prompt), age |-> 0, hits |-> 0,
         tags |-> PolicyTags(r.prompt, r.tags)]

\* The second embedding has arrived: the entry is created and stored.
StoreResponse(t) ==
    /\ Moves(t, "storing", "stored")
    /\ Upsert(t, EntryOf(t))
    /\ http' = [http EXCEPT ![t] = "ok"]
    /\ UNCHANGED <<request, threshold, match, parts, completed, shadow,
                   current, events, metrics, validation>>

\* The second embedding raises: complete() loses the answer it already has.
StoreFails(t) ==
    /\ Moves(t, "storing", "store_failed")
    /\ http' = [http EXCEPT ![t] = IF request[t].stream THEN "aborted" ELSE "error"]
    /\ UNCHANGED <<request, threshold, match, parts, completed, shadow,
                   current, entries, events, metrics, validation>>

\* _safe_validate: the replay is counted, or its failure is swallowed.
ShadowReplay(t, drifted) ==
    /\ shadow[t] = "running"
    /\ shadow' = [shadow EXCEPT ![t] = "validated"]
    /\ Validate(drifted)
    /\ UNCHANGED <<pc, request, threshold, match, parts, completed, http,
                   current, entries, events, metrics>>

ShadowFails(t) ==
    /\ shadow[t] = "running"
    /\ shadow' = [shadow EXCEPT ![t] = "failed"]
    /\ UNCHANGED <<pc, request, threshold, match, parts, completed, http,
                   current, entries, events, metrics, validation>>

\* POST /analytics/threshold-feedback
Feedback(c, falseHit) ==
    /\ RecordFeedback(c, falseHit)
    /\ UNCHANGED <<taskVars, entries, events, metrics, validation>>

\* DELETE /cache/model/{model}, /cache/system-prompt/{hash}, /cache/tag/{tag}
Invalidate(f) ==
    /\ Delete(f)
    /\ UNCHANGED <<taskVars, current, events, metrics, validation>>

\* DELETE /cache/all
InvalidateAll ==
    /\ Clear
    /\ UNCHANGED <<taskVars, current, events, metrics, validation>>

TimePasses ==
    /\ Tick
    /\ UNCHANGED <<taskVars, current, events, metrics, validation>>

ByModel(m) == [model |-> m, system_hash |-> Unset, tag |-> Unset]
BySystemPrompt(h) == [model |-> Unset, system_hash |-> h, tag |-> Unset]
ByTag(tag) == [model |-> Unset, system_hash |-> Unset, tag |-> tag]

KnownTags == UNION {PolicyTags(r.prompt, r.tags) : r \in Request}

Filter ==
    {ByModel(r.model) : r \in Request}
    \cup {BySystemPrompt(SystemHash[r.system]) : r \in Request}
    \cup {ByTag(tag) : tag \in KnownTags}

\* The steps a coroutine takes by itself once what it awaits is there.
Progress(t) ==
    \/ Hit(t) \/ Miss(t) \/ LookupFails(t)
    \/ UpstreamReturns(t) \/ \E error \in {"provider", "transport"} : UpstreamFails(t, error)
    \/ StreamChunk(t) \/ StreamDone(t) \/ StreamEnds(t) \/ StreamFails(t)
    \/ StoreResponse(t) \/ StoreFails(t)

TaskStep(t) ==
    \/ \E r \in Request : Begin(t, r)
    \/ Progress(t)
    \/ Disconnect(t)
    \/ \E drifted \in BOOLEAN : ShadowReplay(t, drifted)
    \/ ShadowFails(t)

Next ==
    \/ \E t \in Task : TaskStep(t)
    \/ \E c \in Category, falseHit \in BOOLEAN : Feedback(c, falseHit)
    \/ \E f \in Filter : Invalidate(f)
    \/ InvalidateAll
    \/ TimePasses

Spec == Init /\ [][Next]_vars

\* Every await of the handler ends: the HTTP clients have timeouts, retries
\* stop after three attempts, and a generation has finitely many chunks.
FairSpec == Spec /\ \A t \in Task : WF_vars(Progress(t))
-----------------------------------------------------------------------------
CacheEntry ==
    [namespace: {NamespaceOf(r) : r \in Request}, model: {r.model : r \in Request},
     system_hash: {SystemHash[r.system] : r \in Request}, prompt: Prompt,
     response: [of: Task, parts: 0..Parts], ttl: Int, age: Nat, hits: Nat,
     tags: SUBSET KnownTags]

NearMiss ==
    [score: Int, threshold: Score,
     namespace: {NamespaceOf(r) : r \in Request}, prompt: Prompt]

TaskTypeOK ==
    /\ pc \in [Task -> {"idle"} \cup Waiting \cup Ended]
    /\ request \in [Task -> Request \cup {None}]
    /\ threshold \in [Task -> Score]
    /\ match \in [Task -> Match \cup {None}]
    /\ parts \in [Task -> 0..Parts]
    /\ completed \in [Task -> BOOLEAN]
    /\ http \in [Task -> HttpStatus]
    /\ shadow \in [Task -> {"none", "running", "validated", "failed"}]

StoreTypeOK ==
    /\ DOMAIN entries \subseteq Task
    /\ entries \in [DOMAIN entries -> CacheEntry]

NearMissTypeOK == events \in Seq(NearMiss) /\ Len(events) <= NearMissCapacity

\* The type invariant: it bounds the near-miss window as well.
TypeOK ==
    /\ TaskTypeOK /\ EngineTypeOK /\ StoreTypeOK
    /\ NearMissTypeOK /\ MetricsTypeOK /\ ValidationTypeOK

\* An answer served from the cache was generated for a request of the same
\* tenant, provider, model, system prompt and max_tokens, at a temperature
\* within a tenth, whatever else was stored or purged since.
HitIsIsolated ==
    \A t \in Task : match[t] # None =>
        LET mine == request[t]
            source == request[match[t].entry]
        IN  /\ source # None
            /\ source.tenant = mine.tenant
            /\ source.model = mine.model /\ Route[source.model] = Route[mine.model]
            /\ SystemHash[source.system] = SystemHash[mine.system]
            /\ source.max_tokens = mine.max_tokens
            /\ source.temperature - mine.temperature \in -10..10

\* A hit's score is the similarity of the two prompts and clears the threshold
\* the request read before it awaited its embedding, so it never falls under
\* the category's minimum, whatever feedback arrived before or meanwhile.
HitIsCloseEnough ==
    \A t \in Task : match[t] # None =>
        LET p == request[t].prompt
        IN  /\ match[t].score = Similarity[p][request[match[t].entry].prompt]
            /\ match[t].score >= threshold[t]
            /\ AdaptiveThresholds => match[t].score >= Policy[Categorize(p)].minimum

\* An answer is served only within the lifetime its own prompt was given when
\* it was stored, and an answer to a volatile prompt is never served at all.
HitIsFresh ==
    \A t \in Task : match[t] # None =>
        LET p == request[match[t].entry].prompt
        IN  Classify(p) # "no_cache" /\ match[t].age <= TtlSeconds(p)

\* Partial or failed generations are never cached: an entry holds the whole
\* answer of a request that ended by storing it, and a streamed answer only
\* after its [DONE], however the stream, the client and the store interleave.
NeverCachePartial ==
    \A i \in DOMAIN entries :
        /\ pc[i] = "stored"
        /\ entries[i].response = [of |-> i, parts |-> Parts]
        /\ request[i].stream => completed[i]
        /\ TtlTag[Classify(request[i].prompt)] \in entries[i].tags

\* hit_count of an entry is the number of requests it has answered, also when
\* lookups overlap; no hit is counted twice or for another entry.
HitCountsExact ==
    \A i \in DOMAIN entries :
        entries[i].hits = Cardinality({t \in Task : match[t] # None /\ match[t].entry = i})

\* Every near miss in the window is a request that missed, under the threshold
\* it was compared with and not the one that feedback has set since, by at
\* most the window.
NearMissIsTrue ==
    \A k \in DOMAIN events :
        /\ events[k].score < events[k].threshold
        /\ events[k].score >= events[k].threshold - NearMissWindow
        /\ \E t \in Task : /\ request[t] # None /\ match[t] = None
                           /\ pc[t] \notin {"lookup", "lookup_failed"}
                           /\ threshold[t] = events[k].threshold
                           /\ request[t].prompt = events[k].prompt
                           /\ Namespace(t) = events[k].namespace

Answered == {t \in Task : pc[t] \notin {"idle", "lookup", "lookup_failed"}}

\* The counters agree with what the requests went through: a request whose
\* lookup failed counts nowhere, one whose upstream or store failed is still a
\* miss, each hit is credited once, and only hits of buffered requests whose
\* replay did not fail count as validated.
CountersExact ==
    /\ metrics.total = Cardinality(Answered)
    /\ metrics.hits = Cardinality({t \in Task : match[t] # None})
    /\ metrics.misses = metrics.total - metrics.hits
    /\ metrics.saved = metrics.hits
    /\ validation.validations = Cardinality({t \in Task : shadow[t] = "validated"})
    /\ validation.drift = validation.false_hits
    /\ validation.drift <= validation.validations
    /\ \A t \in Task : shadow[t] # "none" => match[t] # None /\ ~request[t].stream

\* What the interface promises: expired, deleted and cleared entries never
\* answer a lookup and never come back, and an answer does not change.
Visible == {i \in DOMAIN entries : ~IsExpired(entries[i])}
Contract == INSTANCE VectorStore WITH
    Id <- Task, Reader <- Task, NoEntry <- None,
    visible <- Visible,
    retired <- {i \in Task : pc[i] = "stored"} \ Visible,
    found <- [t \in Task |-> IF match[t] = None THEN None ELSE match[t].entry]
ImplementsVectorStore == Contract!Spec

\* Every request that was begun ends, as long as what it awaits ends.
RequestTerminates == \A t \in Task : pc[t] = "lookup" ~> pc[t] \in Ended
-----------------------------------------------------------------------------
\* "two prompts never share an entry across ... decoding params".
DecodingParamsIsolated ==
    \A t \in Task : match[t] # None =>
        request[match[t].entry].top_p = request[t].top_p
=============================================================================
