------------------------- MODULE ProxyServiceProofs -------------------------
(***************************************************************************)
(* Invariance proofs about ProxyService, for every set of tasks, requests, *)
(* policies and similarities the assumptions allow.                        *)
(***************************************************************************)
EXTENDS ProxyService, SequenceTheorems, TLAPS

\* A task that has begun serves a known request.
RequestKnown == \A t \in Task : pc[t] # "idle" => request[t] \in Request

TypeInv == TypeOK /\ RequestKnown

USE DEF Match, Waiting, Ended, HttpStatus, ProxyAssumption, PolicyAssumption, TtlAssumption,
        TraitsAssumption, NearMissAssumption, SampleAssumption

\* A request has the fields its assumption gives it.
LEMMA RequestType ==
    ASSUME NEW r \in Request
    PROVE  /\ r.prompt \in Prompt /\ r.stream \in BOOLEAN /\ r.tags \in SUBSET STRING
           /\ r.temperature \in Temperature
           /\ NamespaceOf(r) \in {NamespaceOf(q) : q \in Request}
BY ProxyAssumption DEF ChatCompletionRequest

\* The category of a prompt is one of the four.
LEMMA CategorizeType ==
    ASSUME NEW p \in Prompt PROVE Categorize(p) \in Category
BY DEF Categorize, Category

\* The threshold a request reads is a score.
LEMMA ThresholdType ==
    ASSUME EngineTypeOK, NEW p \in Prompt PROVE EffectiveThreshold(p) \in Score
BY CategorizeType, ProxyAssumption
DEF EngineTypeOK, EffectiveThreshold, ThresholdForPrompt

\* The seconds a prompt's answer may live are an integer, and a class that is
\* not cached gets none.
LEMMA TtlType ==
    ASSUME NEW p \in Prompt
    PROVE  /\ TtlSeconds(p) \in Int
           /\ TtlSeconds(p) > 0 => Classify(p) # "no_cache"
<1>1. Classify(p) \in TtlClass
  BY DEF Classify, TtlClass
<1>2. CASE Classify(p) = "no_cache"
  BY <1>2 DEF TtlSeconds
<1>3. CASE Classify(p) = "short"
  BY <1>3, TtlAssumption DEF TtlSeconds
<1>4. CASE Classify(p) = "long"
  BY <1>4, TtlAssumption DEF TtlSeconds
<1> QED
  BY <1>1, <1>2, <1>3, <1>4 DEF TtlClass

\* The deque stays a sequence of events no longer than its capacity.
LEMMA RecordType ==
    ASSUME NEW S, NEW e \in S, events \in Seq(S), Len(events) <= NearMissCapacity,
           Record(e)
    PROVE  events' \in Seq(S) /\ Len(events') <= NearMissCapacity
<1>1. CASE NearMissCapacity = 0
  BY <1>1 DEF Record
<1>2. CASE NearMissCapacity # 0 /\ Len(events) < NearMissCapacity
  BY <1>2, NearMissAssumption DEF Record
<1>3. CASE NearMissCapacity # 0 /\ ~(Len(events) < NearMissCapacity)
  <2>1. events # <<>>
    BY <1>3, NearMissAssumption
  <2>2. Tail(events) \in Seq(S) /\ Len(Tail(events)) = Len(events) - 1
    BY <2>1
  <2> QED
    BY <1>3, <2>2, NearMissAssumption DEF Record
<1> QED
  BY <1>1, <1>2, <1>3

\* Clamping leads between the bounds.
LEMMA Clamped ==
    ASSUME NEW lo \in Int, NEW hi \in Int, lo <= hi, NEW x \in Int
    PROVE  /\ Smaller(hi, Larger(lo, x)) \in Int
           /\ lo <= Smaller(hi, Larger(lo, x)) /\ Smaller(hi, Larger(lo, x)) <= hi
<1>1. CASE x <= lo
  BY <1>1 DEF Smaller, Larger
<1>2. CASE lo < x
  BY <1>2 DEF Smaller, Larger
<1> QED
  BY <1>1, <1>2

\* What lies between two scores is a score.
LEMMA BetweenScores ==
    ASSUME NEW lo \in Score, NEW hi \in Score, NEW y \in Int, lo <= y, y <= hi
    PROVE  y \in Score
<1>1. lo \in Int /\ 0 <= lo /\ hi \in Int /\ hi <= 1000
  BY DEF Score
<1>2. 0 <= y /\ y <= 1000
  BY <1>1
<1> QED
  BY <1>2 DEF Score

\* Scores are integers, and bounds around a base are ordered.
LEMMA BoundsOrdered ==
    ASSUME NEW lo \in Score, NEW mid \in Score, NEW hi \in Score, lo <= mid, mid <= hi
    PROVE  lo \in Int /\ hi \in Int /\ lo <= hi
BY DEF Score

\* Feedback leaves scores.
LEMMA ClampType ==
    ASSUME NEW c \in Category, NEW x \in Int
    PROVE  /\ Clamp(c, x) \in Score
           /\ Policy[c].minimum <= Clamp(c, x) /\ Clamp(c, x) <= Policy[c].maximum
<1>1. Policy[c] \in CategoryPolicy
  BY PolicyAssumption
<1>2. /\ Policy[c].minimum \in Score /\ Policy[c].base \in Score
      /\ Policy[c].maximum \in Score
  BY <1>1 DEF CategoryPolicy
<1>3. Policy[c].minimum <= Policy[c].base /\ Policy[c].base <= Policy[c].maximum
  BY PolicyAssumption
<1>4. /\ Policy[c].minimum \in Int /\ Policy[c].maximum \in Int
      /\ Policy[c].minimum <= Policy[c].maximum
  BY <1>2, <1>3, BoundsOrdered
<1>5. /\ Clamp(c, x) \in Int
      /\ Policy[c].minimum <= Clamp(c, x) /\ Clamp(c, x) <= Policy[c].maximum
  BY <1>4, Clamped DEF Clamp
<1> QED
  BY <1>2, <1>5, BetweenScores

\* The entry a task stores is a cache entry.
LEMMA EntryType ==
    ASSUME TaskTypeOK, NEW t \in Task, request[t] \in Request
    PROVE  EntryOf(t) \in CacheEntry
<1> DEFINE r == request[t]
           tags == PolicyTags(r.prompt, r.tags)
           response == [of |-> t, parts |-> parts[t]]
<1>1. r \in Request /\ r.prompt \in Prompt
  BY RequestType
<1>2. tags \in SUBSET KnownTags
  BY <1>1 DEF KnownTags
<1>3. response \in [of: Task, parts: 0..Parts]
  BY DEF TaskTypeOK
<1>4. TtlSeconds(r.prompt) \in Int
  BY <1>1, TtlType
<1>5. /\ NamespaceOf(r) \in {NamespaceOf(q) : q \in Request}
      /\ r.model \in {q.model : q \in Request}
      /\ SystemHash[r.system] \in {SystemHash[q.system] : q \in Request}
  BY <1>1
<1> HIDE DEF tags, response
<1>6. [namespace |-> NamespaceOf(r), model |-> r.model,
       system_hash |-> SystemHash[r.system], prompt |-> r.prompt,
       response |-> response, ttl |-> TtlSeconds(r.prompt), age |-> 0, hits |-> 0,
       tags |-> tags] \in CacheEntry
  <2> HIDE DEF r
  <2> QED BY <1>1, <1>2, <1>3, <1>4, <1>5 DEF CacheEntry
<1> QED
  BY <1>6 DEF EntryOf, Namespace, tags, response

\* The best matches are live entries of the namespace that was searched.
LEMMA BestType ==
    ASSUME NEW n, NEW p, NEW i \in Best(n, p)
    PROVE  /\ i \in DOMAIN entries
           /\ entries[i].namespace = n
           /\ ~IsExpired(entries[i])
BY DEF Best, LiveEntries

\* Similarities are integers.
LEMMA SimilarityType ==
    ASSUME NEW p \in Prompt, NEW q \in Prompt PROVE Similarity[p][q] \in Int
<1>1. Similarity \in [Prompt -> [Prompt -> Cosine]]
  BY ProxyAssumption
<1>2. Similarity[p][q] \in Cosine
  BY <1>1
<1>3. Cosine \subseteq Int
  BY DEF Cosine
<1> QED
  BY <1>2, <1>3, Zenon

\* The event a miss records is a near miss, as its score is an integer.
LEMMA NearMissType ==
    ASSUME TaskTypeOK, StoreTypeOK, NEW t \in Task, request[t] \in Request,
           NEW i \in DOMAIN entries
    PROVE  ScoreOf(t, i) \in Int /\ NearMissOf(t, ScoreOf(t, i)) \in NearMiss
<1>1. request[t].prompt \in Prompt
  BY RequestType
<1>2. entries[i] \in CacheEntry
  BY DEF StoreTypeOK
<1>3. entries[i].prompt \in Prompt
  BY <1>2 DEF CacheEntry
<1>4. ScoreOf(t, i) \in Int
  BY <1>1, <1>3, SimilarityType DEF ScoreOf
<1>5. threshold[t] \in Score /\ Namespace(t) \in {NamespaceOf(q) : q \in Request}
  BY DEF TaskTypeOK, Namespace
<1> QED
  BY <1>1, <1>4, <1>5 DEF NearMissOf, NearMiss

\* TypeInv holds initially.
LEMMA TypeInvInit == Init => TypeInv
<1> SUFFICES ASSUME Init PROVE TypeInv
  OBVIOUS
<1>1. TaskTypeOK
  BY ProxyAssumption DEF Init, ProxyInit, TaskTypeOK, Score
<1>2. EngineTypeOK
  <2>1. \A c \in Category : Policy[c] \in CategoryPolicy
    BY PolicyAssumption
  <2>2. \A c \in Category : Policy[c].base \in Score
    BY <2>1 DEF CategoryPolicy
  <2> QED
    BY <2>2 DEF Init, EngineInit, Base, EngineTypeOK
<1>3. StoreTypeOK
  BY DEF Init, StoreInit, StoreTypeOK
<1>4. NearMissTypeOK
  BY NearMissAssumption DEF Init, NearMissInit, NearMissTypeOK
<1>5. MetricsTypeOK /\ ValidationTypeOK
  BY DEF Init, MetricsInit, ValidationInit, MetricsTypeOK, ValidationTypeOK
<1>6. RequestKnown
  BY DEF Init, ProxyInit, RequestKnown
<1> QED
  BY <1>1, <1>2, <1>3, <1>4, <1>5, <1>6 DEF TypeInv, TypeOK

\* An upsert of a cache entry leaves cache entries.
LEMMA UpsertType ==
    ASSUME StoreTypeOK, NEW i \in Task, NEW e \in CacheEntry, Upsert(i, e)
    PROVE  StoreTypeOK'
BY DEF StoreTypeOK, Upsert

\* Counting a hit leaves cache entries.
LEMMA IncrementHitType ==
    ASSUME StoreTypeOK, NEW i \in DOMAIN entries, IncrementHit(i)
    PROVE  StoreTypeOK'
<1>1. entries' = [entries EXCEPT ![i].hits = entries[i].hits + 1]
  BY DEF IncrementHit
<1>2. entries[i] \in CacheEntry /\ entries[i].hits \in Nat
  BY DEF StoreTypeOK, CacheEntry
<1>3. [entries[i] EXCEPT !.hits = entries[i].hits + 1] \in CacheEntry
  BY <1>2 DEF CacheEntry
<1> QED
  BY <1>1, <1>3 DEF StoreTypeOK

\* Deleting entries leaves cache entries.
LEMMA WithoutType ==
    ASSUME StoreTypeOK, NEW ids, entries' = Without(ids)
    PROVE  StoreTypeOK'
BY DEF StoreTypeOK, Without

\* Ageing leaves cache entries.
LEMMA TickType ==
    ASSUME StoreTypeOK, Tick
    PROVE  StoreTypeOK'
<1>1. \A i \in DOMAIN entries : entries[i] \in CacheEntry /\ entries[i].age \in Nat
  BY DEF StoreTypeOK, CacheEntry
<1>2. \A i \in DOMAIN entries : [entries[i] EXCEPT !.age = @ + 1] \in CacheEntry
  BY <1>1 DEF CacheEntry
<1> QED
  BY <1>1, <1>2 DEF StoreTypeOK, Tick

\* Feedback leaves the thresholds scores.
LEMMA FeedbackType ==
    ASSUME EngineTypeOK, NEW c \in Category, NEW falseHit, RecordFeedback(c, falseHit)
    PROVE  EngineTypeOK'
<1> DEFINE step == Policy[c].step
           now == current[c]
           moved == now + (IF falseHit THEN step ELSE -step)
<1>1. Policy[c] \in CategoryPolicy
  BY PolicyAssumption
<1>2. step \in Score /\ now \in Score
  BY <1>1 DEF CategoryPolicy, EngineTypeOK
<1> HIDE DEF step, now
<1>3. moved \in Int
  BY <1>2 DEF Score
<1>4. Clamp(c, moved) \in Score
  BY <1>3, ClampType
<1>5. current' = [current EXCEPT ![c] = Clamp(c, moved)]
  BY DEF RecordFeedback, Adjust, step, now
<1> HIDE DEF moved
<1> QED
  BY <1>4, <1>5 DEF EngineTypeOK

\* Counting a lookup, its savings or a validation leaves natural numbers.
LEMMA CountersType ==
    ASSUME MetricsTypeOK, ValidationTypeOK
    PROVE  /\ \A status : metrics' = RecordLookup(metrics, status) => MetricsTypeOK'
           /\ \A status : metrics' = RecordSavings(RecordLookup(metrics, status)) => MetricsTypeOK'
           /\ \A drifted : Validate(drifted) => ValidationTypeOK'
<1> DEFINE Counter == [total: Nat, hits: Nat, misses: Nat, saved: Nat]
<1>1. ASSUME NEW m \in Counter, NEW status PROVE RecordLookup(m, status) \in Counter
  <2>1. m.total + 1 \in Nat /\ m.hits + 1 \in Nat /\ m.misses + 1 \in Nat
    OBVIOUS
  <2>2. CASE status = "HIT"
    BY <2>1, <2>2 DEF RecordLookup
  <2>3. CASE status # "HIT"
    BY <2>1, <2>3 DEF RecordLookup
  <2> QED
    BY <2>2, <2>3
<1>2. ASSUME NEW m \in Counter PROVE RecordSavings(m) \in Counter
  BY DEF RecordSavings
<1>3. ASSUME NEW drifted, Validate(drifted) PROVE ValidationTypeOK'
  <2>1. /\ validation.validations + 1 \in Nat
        /\ validation.drift + 1 \in Nat /\ validation.false_hits + 1 \in Nat
    BY DEF ValidationTypeOK
  <2>2. CASE drifted
    BY <1>3, <2>1, <2>2 DEF ValidationTypeOK, Validate
  <2>3. CASE ~drifted
    BY <1>3, <2>1, <2>3 DEF ValidationTypeOK, Validate
  <2> QED
    BY <2>2, <2>3
<1> QED
  BY <1>1, <1>2, <1>3, Zenon DEF MetricsTypeOK

\* What a step that touches no shared state has to keep: the task variables.
LEMMA SharedKept ==
    ASSUME TypeInv, UNCHANGED <<current, entries, events, metrics, validation>>
    PROVE  /\ EngineTypeOK' /\ StoreTypeOK' /\ NearMissTypeOK'
           /\ MetricsTypeOK' /\ ValidationTypeOK'
BY DEF TypeInv, TypeOK, EngineTypeOK, StoreTypeOK, NearMissTypeOK, MetricsTypeOK, ValidationTypeOK

\* What a step that touches no task has to keep: the shared state.
LEMMA TasksKept ==
    ASSUME TypeInv, UNCHANGED taskVars
    PROVE  TaskTypeOK' /\ RequestKnown'
BY DEF TypeInv, TypeOK, taskVars, TaskTypeOK, RequestKnown

\* Every step keeps TypeInv.
LEMMA TypeInvNext == TypeInv /\ [Next]_vars => TypeInv'
<1> SUFFICES ASSUME TypeInv, [Next]_vars PROVE TypeInv'
  OBVIOUS
<1> USE DEF TypeInv, TypeOK
<1>1. ASSUME NEW t \in Task, NEW r \in Request, Begin(t, r) PROVE TypeInv'
  <2>1. EffectiveThreshold(r.prompt) \in Score
    BY RequestType, ThresholdType
  <2>2. TaskTypeOK' /\ RequestKnown'
    BY <1>1, <2>1 DEF Begin, Moves, TaskTypeOK, RequestKnown
  <2> QED
    BY <1>1, <2>2, SharedKept DEF Begin
<1>2. ASSUME NEW t \in Task, LookupFails(t) PROVE TypeInv'
  <2>1. TaskTypeOK' /\ RequestKnown'
    BY <1>2 DEF LookupFails, Moves, TaskTypeOK, RequestKnown
  <2> QED
    BY <1>2, <2>1, SharedKept DEF LookupFails
<1>3. ASSUME NEW t \in Task, UpstreamReturns(t) PROVE TypeInv'
  <2>1. TaskTypeOK' /\ RequestKnown'
    BY <1>3, ProxyAssumption DEF UpstreamReturns, Moves, AfterAnswer, TaskTypeOK, RequestKnown
  <2> QED
    BY <1>3, <2>1, SharedKept DEF UpstreamReturns
<1>4. ASSUME NEW t \in Task, NEW error, UpstreamFails(t, error) PROVE TypeInv'
  <2>1. TaskTypeOK' /\ RequestKnown'
    BY <1>4 DEF UpstreamFails, Moves, TaskTypeOK, RequestKnown
  <2> QED
    BY <1>4, <2>1, SharedKept DEF UpstreamFails
<1>5. ASSUME NEW t \in Task, StreamChunk(t) PROVE TypeInv'
  <2>1. TaskTypeOK' /\ RequestKnown'
    BY <1>5, ProxyAssumption DEF StreamChunk, TaskTypeOK, RequestKnown
  <2> QED
    BY <1>5, <2>1, SharedKept DEF StreamChunk
<1>6. ASSUME NEW t \in Task, StreamDone(t) PROVE TypeInv'
  <2>1. TaskTypeOK' /\ RequestKnown'
    BY <1>6 DEF StreamDone, TaskTypeOK, RequestKnown
  <2> QED
    BY <1>6, <2>1, SharedKept DEF StreamDone
<1>7. ASSUME NEW t \in Task, StreamEnds(t) PROVE TypeInv'
  <2>1. TaskTypeOK' /\ RequestKnown'
    BY <1>7 DEF StreamEnds, Moves, AfterAnswer, TaskTypeOK, RequestKnown
  <2> QED
    BY <1>7, <2>1, SharedKept DEF StreamEnds
<1>8. ASSUME NEW t \in Task, StreamFails(t) PROVE TypeInv'
  <2>1. TaskTypeOK' /\ RequestKnown'
    BY <1>8 DEF StreamFails, Moves, TaskTypeOK, RequestKnown
  <2> QED
    BY <1>8, <2>1, SharedKept DEF StreamFails
<1>9. ASSUME NEW t \in Task, Disconnect(t) PROVE TypeInv'
  <2>1. TaskTypeOK' /\ RequestKnown'
    BY <1>9 DEF Disconnect, TaskTypeOK, RequestKnown
  <2> QED
    BY <1>9, <2>1, SharedKept DEF Disconnect
<1>10. ASSUME NEW t \in Task, StoreFails(t) PROVE TypeInv'
  <2>1. TaskTypeOK' /\ RequestKnown'
    BY <1>10 DEF StoreFails, Moves, TaskTypeOK, RequestKnown
  <2> QED
    BY <1>10, <2>1, SharedKept DEF StoreFails
<1>11. ASSUME NEW t \in Task, ShadowFails(t) PROVE TypeInv'
  <2>1. TaskTypeOK' /\ RequestKnown'
    BY <1>11 DEF ShadowFails, TaskTypeOK, RequestKnown
  <2> QED
    BY <1>11, <2>1, SharedKept DEF ShadowFails
<1>12. ASSUME NEW t \in Task, Hit(t) PROVE TypeInv'
  <2>1. request[t] \in Request
    BY <1>12 DEF Hit, Moves, RequestKnown
  <2>2. PICK i \in Best(Namespace(t), request[t].prompt) :
           /\ IncrementHit(i)
           /\ match' = [match EXCEPT ![t] =
                 [entry |-> i, score |-> ScoreOf(t, i), age |-> entries[i].age]]
    BY <1>12 DEF Hit
  <2>3. i \in DOMAIN entries /\ i \in Task /\ entries[i] \in CacheEntry
    BY <2>2, BestType DEF StoreTypeOK
  <2>4. entries[i].age \in Nat
    BY <2>3 DEF CacheEntry
  <2>5. ScoreOf(t, i) \in Int
    BY <2>1, <2>3, NearMissType
  <2>6. match' \in [Task -> Match \cup {None}]
    BY <2>2, <2>3, <2>4, <2>5 DEF TaskTypeOK
  <2>7. TaskTypeOK' /\ RequestKnown'
    BY <1>12, <2>6 DEF Hit, Moves, TaskTypeOK, RequestKnown
  <2>8. StoreTypeOK'
    BY <2>2, <2>3, IncrementHitType
  <2>9. MetricsTypeOK'
    BY <1>12, CountersType DEF Hit
  <2>10. EngineTypeOK' /\ NearMissTypeOK' /\ ValidationTypeOK'
    BY <1>12 DEF Hit, EngineTypeOK, NearMissTypeOK, ValidationTypeOK
  <2> QED
    BY <2>7, <2>8, <2>9, <2>10
<1>13. ASSUME NEW t \in Task, Miss(t) PROVE TypeInv'
  <2>1. request[t] \in Request
    BY <1>13 DEF Miss, Moves, RequestKnown
  <2>2. TaskTypeOK' /\ RequestKnown'
    BY <1>13 DEF Miss, Moves, TaskTypeOK, RequestKnown
  <2>3. NearMissTypeOK'
    <3>1. CASE UNCHANGED events
      BY <3>1 DEF NearMissTypeOK
    <3>2. CASE \E i \in Best(Namespace(t), request[t].prompt) :
                  Record(NearMissOf(t, ScoreOf(t, i)))
      <4>1. PICK i \in Best(Namespace(t), request[t].prompt) :
                  Record(NearMissOf(t, ScoreOf(t, i)))
        BY <3>2
      <4>2. NearMissOf(t, ScoreOf(t, i)) \in NearMiss
        BY <2>1, <4>1, BestType, NearMissType
      <4> QED
        BY <4>1, <4>2, RecordType DEF NearMissTypeOK
    <3> QED
      BY <1>13, <3>1, <3>2 DEF Miss
  <2>4. MetricsTypeOK'
    BY <1>13, CountersType DEF Miss
  <2>5. EngineTypeOK' /\ StoreTypeOK' /\ ValidationTypeOK'
    BY <1>13 DEF Miss, EngineTypeOK, StoreTypeOK, ValidationTypeOK
  <2> QED
    BY <2>2, <2>3, <2>4, <2>5
<1>14. ASSUME NEW t \in Task, StoreResponse(t) PROVE TypeInv'
  <2>1. request[t] \in Request
    BY <1>14 DEF StoreResponse, Moves, RequestKnown
  <2>2. TaskTypeOK' /\ RequestKnown'
    BY <1>14 DEF StoreResponse, Moves, TaskTypeOK, RequestKnown
  <2>3. StoreTypeOK'
    BY <1>14, <2>1, EntryType, UpsertType DEF StoreResponse
  <2>4. EngineTypeOK' /\ NearMissTypeOK' /\ MetricsTypeOK' /\ ValidationTypeOK'
    BY <1>14 DEF StoreResponse, EngineTypeOK, NearMissTypeOK, MetricsTypeOK, ValidationTypeOK
  <2> QED
    BY <2>2, <2>3, <2>4
<1>15. ASSUME NEW t \in Task, NEW drifted, ShadowReplay(t, drifted) PROVE TypeInv'
  <2>1. TaskTypeOK' /\ RequestKnown'
    BY <1>15 DEF ShadowReplay, TaskTypeOK, RequestKnown
  <2>2. ValidationTypeOK'
    BY <1>15, CountersType DEF ShadowReplay
  <2>3. EngineTypeOK' /\ StoreTypeOK' /\ NearMissTypeOK' /\ MetricsTypeOK'
    BY <1>15 DEF ShadowReplay, EngineTypeOK, StoreTypeOK, NearMissTypeOK, MetricsTypeOK
  <2> QED
    BY <2>1, <2>2, <2>3
<1>16. ASSUME NEW c \in Category, NEW falseHit, Feedback(c, falseHit) PROVE TypeInv'
  <2>1. EngineTypeOK'
    BY <1>16, FeedbackType DEF Feedback
  <2>2. StoreTypeOK' /\ NearMissTypeOK' /\ MetricsTypeOK' /\ ValidationTypeOK'
    BY <1>16 DEF Feedback, StoreTypeOK, NearMissTypeOK, MetricsTypeOK, ValidationTypeOK
  <2> QED
    BY <1>16, <2>1, <2>2, TasksKept DEF Feedback
<1>17. ASSUME UNCHANGED <<taskVars, current, events, metrics, validation>>, StoreTypeOK'
       PROVE  TypeInv'
  <2>1. EngineTypeOK' /\ NearMissTypeOK' /\ MetricsTypeOK' /\ ValidationTypeOK'
    BY <1>17 DEF EngineTypeOK, NearMissTypeOK, MetricsTypeOK, ValidationTypeOK
  <2> QED
    BY <1>17, <2>1, TasksKept
<1>18. ASSUME NEW f, Invalidate(f) PROVE TypeInv'
  <2>1. StoreTypeOK'
    <3>1. CASE entries' = entries
      BY <3>1 DEF StoreTypeOK
    <3>2. CASE entries' = Without({i \in DOMAIN entries : Matches(entries[i], f)})
      BY <3>2, WithoutType
    <3> QED
      BY <1>18, <3>1, <3>2 DEF Invalidate, Delete
  <2> QED
    BY <1>17, <1>18, <2>1 DEF Invalidate
<1>19. CASE InvalidateAll
  BY <1>17, <1>19, WithoutType DEF InvalidateAll, Clear
<1>20. CASE TimePasses
  BY <1>17, <1>20, TickType DEF TimePasses
<1>21. CASE UNCHANGED vars
  BY <1>21, SharedKept, TasksKept DEF vars
<1>22. ASSUME NEW t \in Task, TaskStep(t) PROVE TypeInv'
  BY <1>1, <1>2, <1>3, <1>4, <1>5, <1>6, <1>7, <1>8, <1>9, <1>10, <1>11, <1>12,
     <1>13, <1>14, <1>15, <1>22 DEF TaskStep, Progress
<1> QED
  BY <1>16, <1>18, <1>19, <1>20, <1>21, <1>22 DEF Next

\* Every state ProxyService reaches is well-formed: tasks, entries and counters
\* have their types, and the near-miss window never exceeds its capacity.
THEOREM ProxyTypeCorrect == Spec => []TypeOK
<1>1. Spec => []TypeInv
  BY TypeInvInit, TypeInvNext, PTL DEF Spec
<1>2. TypeInv => TypeOK
  BY DEF TypeInv
<1> QED
  BY <1>1, <1>2, PTL
=============================================================================
