------------------------- MODULE ProxyServiceSafety -------------------------
(***************************************************************************)
(* The safety invariants of ProxyService, proved from one inductive        *)
(* invariant: what is in the store was put there whole by a request that   *)
(* has ended, and what a hit answered came from the store.  The hit counts *)
(* and the counters follow by counting the requests behind them.  Last,    *)
(* ProxyService implements VectorStore.                                    *)
(***************************************************************************)
EXTENDS ProxyServiceProofs, FiniteSetTheorems

\* The threshold a request took stays above its category's minimum.
ThresholdFloor ==
    \A t \in Task : pc[t] # "idle" /\ AdaptiveThresholds =>
        Policy[Categorize(request[t].prompt)].minimum <= threshold[t]

\* A task about to store holds the whole answer to a cacheable prompt.
AnswerWhole ==
    \A t \in Task :
        /\ completed[t] => parts[t] = Parts
        /\ pc[t] = "upstream" => ~request[t].stream
        /\ pc[t] = "storing" => /\ parts[t] = Parts
                                /\ TtlSeconds(request[t].prompt) > 0
                                /\ request[t].stream => completed[t]

\* An entry is what its task stored.
EntryOrigin(i) ==
    /\ pc[i] = "stored"
    /\ entries[i].namespace = Namespace(i)
    /\ entries[i].prompt = request[i].prompt
    /\ entries[i].response = [of |-> i, parts |-> Parts]
    /\ entries[i].ttl = TtlSeconds(request[i].prompt) /\ entries[i].ttl > 0
    /\ entries[i].tags = PolicyTags(request[i].prompt, request[i].tags)
    /\ request[i].stream => completed[i]

EntrySound == \A i \in DOMAIN entries : EntryOrigin(i)

\* A hit was answered from the entry of a task that has stored it.
MatchOrigin(t, i) ==
    /\ pc[t] = "hit" /\ pc[i] = "stored"
    /\ Namespace(i) = Namespace(t)
    /\ match[t].score = Similarity[request[t].prompt][request[i].prompt]
    /\ match[t].score >= threshold[t]
    /\ match[t].age <= TtlSeconds(request[i].prompt)
    /\ TtlSeconds(request[i].prompt) > 0

MatchSound == \A t \in Task : match[t] # None => MatchOrigin(t, match[t].entry)

IInv ==
    /\ TypeInv /\ WithinBounds
    /\ ThresholdFloor /\ AnswerWhole /\ EntrySound /\ MatchSound

\* What the answer of a task depends on.
Holding(i) == <<pc[i], request[i], threshold[i], match[i], parts[i], completed[i]>>

\* The steps that are not a task's, and the stuttering one.
SharedStep ==
    \/ \E c \in Category, falseHit \in BOOLEAN : Feedback(c, falseHit)
    \/ \E f \in Filter : Invalidate(f)
    \/ InvalidateAll
    \/ TimePasses
    \/ UNCHANGED vars

\* Shared steps leave the tasks alone.
LEMMA SharedStepKeepsTasks == SharedStep => UNCHANGED taskVars
BY DEF SharedStep, Feedback, Invalidate, InvalidateAll, TimePasses, vars

\* A task that has hit or stored has done all it does: no step of any task
\* changes what it holds any more.
LEMMA EndedKept ==
    ASSUME TypeInv, [Next]_vars, NEW i \in Task, pc[i] \in {"hit", "stored"}
    PROVE  Holding(i)' = Holding(i)
<1> USE DEF TypeInv, TypeOK, TaskTypeOK, Holding
<1>1. CASE SharedStep
  BY <1>1, SharedStepKeepsTasks DEF taskVars
<1>2. ASSUME NEW t \in Task, TaskStep(t) PROVE Holding(i)' = Holding(i)
  <2>1. CASE \E r \in Request : Begin(t, r)
    BY <2>1 DEF Begin, Moves
  <2>2. CASE Hit(t)
    BY <2>2 DEF Hit, Moves
  <2>3. CASE Miss(t)
    BY <2>3 DEF Miss, Moves
  <2>4. CASE LookupFails(t)
    BY <2>4 DEF LookupFails, Moves
  <2>5. CASE UpstreamReturns(t)
    BY <2>5 DEF UpstreamReturns, Moves
  <2>6. CASE \E error \in {"provider", "transport"} : UpstreamFails(t, error)
    BY <2>6 DEF UpstreamFails, Moves
  <2>7. CASE StreamChunk(t)
    BY <2>7 DEF StreamChunk
  <2>8. CASE StreamDone(t)
    BY <2>8 DEF StreamDone
  <2>9. CASE StreamEnds(t)
    BY <2>9 DEF StreamEnds, Moves
  <2>10. CASE StreamFails(t)
    BY <2>10 DEF StreamFails, Moves
  <2>11. CASE StoreResponse(t)
    BY <2>11 DEF StoreResponse, Moves
  <2>12. CASE StoreFails(t)
    BY <2>12 DEF StoreFails, Moves
  <2>13. CASE Disconnect(t)
    BY <2>13 DEF Disconnect
  <2>14. CASE (\E drifted \in BOOLEAN : ShadowReplay(t, drifted)) \/ ShadowFails(t)
    BY <2>14 DEF ShadowReplay, ShadowFails
  <2> QED
    BY <1>2, <2>1, <2>2, <2>3, <2>4, <2>5, <2>6, <2>7, <2>8, <2>9, <2>10, <2>11, <2>12, <2>13, <2>14 DEF TaskStep, Progress
<1> QED
  BY <1>1, <1>2 DEF Next, SharedStep

\* Feedback keeps every threshold within its bounds, and nothing else moves one.
LEMMA WithinBoundsNext == TypeInv /\ WithinBounds /\ [Next]_vars => WithinBounds'
<1> SUFFICES ASSUME TypeInv, WithinBounds, [Next]_vars PROVE WithinBounds'
  OBVIOUS
<1>1. ASSUME NEW c \in Category, NEW falseHit \in BOOLEAN, Feedback(c, falseHit) PROVE WithinBounds'
  <2> DEFINE step == Policy[c].step
             now == current[c]
             moved == now + (IF falseHit THEN step ELSE -step)
  <2>1. Policy[c] \in CategoryPolicy
    BY PolicyAssumption
  <2>2. step \in Score /\ now \in Score
    BY <2>1 DEF CategoryPolicy, EngineTypeOK, TypeInv, TypeOK
  <2> HIDE DEF step, now
  <2>3. moved \in Int
    BY <2>2 DEF Score
  <2>4. current' = [current EXCEPT ![c] = Clamp(c, moved)]
    BY <1>1 DEF Feedback, RecordFeedback, Adjust, step, now
  <2> HIDE DEF moved
  <2>5. Policy[c].minimum <= Clamp(c, moved) /\ Clamp(c, moved) <= Policy[c].maximum
    BY <2>3, ClampType
  <2> QED
    BY <2>4, <2>5 DEF WithinBounds, TypeInv, TypeOK, EngineTypeOK
<1>2. CASE UNCHANGED current
  BY <1>2 DEF WithinBounds
<1>3. ASSUME NEW t \in Task, TaskStep(t) PROVE UNCHANGED current
  BY <1>3 DEF TaskStep, Progress, Begin, Hit, Miss, LookupFails, UpstreamReturns,
     UpstreamFails, StreamChunk, StreamDone, StreamEnds, StreamFails, StoreResponse,
     StoreFails, Disconnect, ShadowReplay, ShadowFails
<1>4. (\E f \in Filter : Invalidate(f)) \/ InvalidateAll \/ TimePasses \/ UNCHANGED vars
      => UNCHANGED current
  BY DEF Invalidate, InvalidateAll, TimePasses, vars
<1> QED
  BY <1>1, <1>2, <1>3, <1>4 DEF Next

\* Within its bounds, a threshold a request reads is not under the minimum.
LEMMA ThresholdFloorBegins ==
    ASSUME WithinBounds, NEW p \in Prompt, AdaptiveThresholds
    PROVE  Policy[Categorize(p)].minimum <= EffectiveThreshold(p)
BY CategorizeType DEF WithinBounds, EffectiveThreshold, ThresholdForPrompt

\* Every task's threshold stays above its floor and every answer stays whole.
LEMMA TaskInvNext ==
    ASSUME TypeInv, WithinBounds, ThresholdFloor, AnswerWhole, [Next]_vars
    PROVE  ThresholdFloor' /\ AnswerWhole'
<1> USE DEF TypeInv, TypeOK, TaskTypeOK, ThresholdFloor, AnswerWhole
<1>1. CASE SharedStep
  BY <1>1, SharedStepKeepsTasks DEF taskVars
<1>2. ASSUME NEW t \in Task, NEW r \in Request, Begin(t, r)
       PROVE  ThresholdFloor' /\ AnswerWhole'
  <2>1. AdaptiveThresholds => Policy[Categorize(r.prompt)].minimum <= EffectiveThreshold(r.prompt)
    BY RequestType, ThresholdFloorBegins
  <2> QED
    BY <1>2, <2>1 DEF Begin, Moves
<1>3. ASSUME NEW t \in Task, Hit(t)
       PROVE  ThresholdFloor' /\ AnswerWhole'
  BY <1>3 DEF Hit, Moves
<1>4. ASSUME NEW t \in Task, Miss(t)
       PROVE  ThresholdFloor' /\ AnswerWhole'
  BY <1>4 DEF Miss, Moves
<1>5. ASSUME NEW t \in Task, LookupFails(t)
       PROVE  ThresholdFloor' /\ AnswerWhole'
  BY <1>5 DEF LookupFails, Moves
<1>6. ASSUME NEW t \in Task, UpstreamReturns(t)
       PROVE  ThresholdFloor' /\ AnswerWhole'
  BY <1>6, ProxyAssumption DEF UpstreamReturns, Moves, AfterAnswer
<1>7. ASSUME NEW t \in Task, NEW error, UpstreamFails(t, error)
       PROVE  ThresholdFloor' /\ AnswerWhole'
  BY <1>7 DEF UpstreamFails, Moves
<1>8. ASSUME NEW t \in Task, StreamChunk(t)
       PROVE  ThresholdFloor' /\ AnswerWhole'
  BY <1>8, ProxyAssumption DEF StreamChunk
<1>9. ASSUME NEW t \in Task, StreamDone(t)
       PROVE  ThresholdFloor' /\ AnswerWhole'
  BY <1>9, ProxyAssumption DEF StreamDone
<1>10. ASSUME NEW t \in Task, StreamEnds(t)
       PROVE  ThresholdFloor' /\ AnswerWhole'
  BY <1>10 DEF StreamEnds, Moves, AfterAnswer
<1>11. ASSUME NEW t \in Task, StreamFails(t)
       PROVE  ThresholdFloor' /\ AnswerWhole'
  BY <1>11 DEF StreamFails, Moves
<1>12. ASSUME NEW t \in Task, StoreResponse(t)
       PROVE  ThresholdFloor' /\ AnswerWhole'
  BY <1>12 DEF StoreResponse, Moves
<1>13. ASSUME NEW t \in Task, StoreFails(t)
       PROVE  ThresholdFloor' /\ AnswerWhole'
  BY <1>13 DEF StoreFails, Moves
<1>14. ASSUME NEW t \in Task, Disconnect(t)
       PROVE  ThresholdFloor' /\ AnswerWhole'
  BY <1>14 DEF Disconnect
<1>15. ASSUME NEW t \in Task, NEW drifted, ShadowReplay(t, drifted)
       PROVE  ThresholdFloor' /\ AnswerWhole'
  BY <1>15 DEF ShadowReplay
<1>16. ASSUME NEW t \in Task, ShadowFails(t)
       PROVE  ThresholdFloor' /\ AnswerWhole'
  BY <1>16 DEF ShadowFails
<1>17. ASSUME NEW t \in Task, TaskStep(t)
       PROVE  ThresholdFloor' /\ AnswerWhole'
  BY <1>2, <1>3, <1>4, <1>5, <1>6, <1>7, <1>8, <1>9, <1>10, <1>11,
     <1>12, <1>13, <1>14, <1>15, <1>16, <1>17 DEF TaskStep, Progress
<1> QED
  BY <1>1, <1>17 DEF Next, SharedStep

\* What happens to the store when nothing is stored: entries may go and may
\* gain age and hits, and nothing else about them changes.
EntriesKept ==
    /\ DOMAIN entries' \subseteq DOMAIN entries
    /\ \A i \in DOMAIN entries' :
          /\ entries'[i].namespace = entries[i].namespace
          /\ entries'[i].prompt = entries[i].prompt
          /\ entries'[i].response = entries[i].response
          /\ entries'[i].ttl = entries[i].ttl
          /\ entries'[i].tags = entries[i].tags

\* Every step stores an answer or keeps the entries.
LEMMA StoreStep ==
    ASSUME TypeInv, [Next]_vars
    PROVE  EntriesKept \/ \E t \in Task : StoreResponse(t)
<1>0. StoreTypeOK
  BY DEF TypeInv, TypeOK
<1>1. CASE UNCHANGED entries
  BY <1>1 DEF EntriesKept
<1>2. ASSUME NEW t \in Task, Hit(t) PROVE EntriesKept
  <2>1. PICK i \in Best(Namespace(t), request[t].prompt) : IncrementHit(i)
    BY <1>2 DEF Hit
  <2>2. i \in DOMAIN entries /\ entries[i] \in CacheEntry
    BY <2>1, <1>0, BestType DEF StoreTypeOK
  <2>3. \A j \in DOMAIN entries : entries'[j] = entries[j]
                                 \/ entries'[j] = [entries[j] EXCEPT !.hits = @ + 1]
    BY <1>0, <2>1, <2>2 DEF IncrementHit, StoreTypeOK
  <2>4. DOMAIN entries' = DOMAIN entries
    BY <1>0, <2>1, <2>2 DEF IncrementHit, StoreTypeOK
  <2>5. \A j \in DOMAIN entries : entries[j] \in CacheEntry
    BY <1>0 DEF StoreTypeOK
  <2> QED
    BY <2>3, <2>4, <2>5 DEF EntriesKept, CacheEntry
<1>3. ASSUME NEW ids, entries' = Without(ids) PROVE EntriesKept
  BY <1>3 DEF EntriesKept, Without
<1>4. ASSUME NEW f, Invalidate(f) PROVE EntriesKept
  <2> DEFINE ids == {i \in DOMAIN entries : Matches(entries[i], f)}
  <2>1. UNCHANGED entries \/ entries' = Without(ids)
    BY <1>4 DEF Invalidate, Delete
  <2> HIDE DEF ids
  <2>2. CASE entries' = Without(ids)
    BY <1>3, <2>2
  <2>3. CASE UNCHANGED entries
    BY <2>3 DEF EntriesKept
  <2> QED
    BY <2>1, <2>2, <2>3
<1>5. CASE InvalidateAll
  BY <1>3, <1>5 DEF InvalidateAll, Clear
<1>6. CASE TimePasses
  <2>1. \A i \in DOMAIN entries : entries[i] \in CacheEntry
    BY <1>0 DEF StoreTypeOK
  <2>2. \A i \in DOMAIN entries : entries'[i] = entries[i]
                                 \/ entries'[i] = [entries[i] EXCEPT !.age = @ + 1]
    BY <1>6 DEF TimePasses, Tick
  <2>3. DOMAIN entries' = DOMAIN entries
    BY <1>6 DEF TimePasses, Tick
  <2> QED
    BY <2>1, <2>2, <2>3 DEF EntriesKept, CacheEntry
<1>7. ASSUME NEW t \in Task, TaskStep(t), ~Hit(t), ~StoreResponse(t) PROVE UNCHANGED entries
  BY <1>7 DEF TaskStep, Progress, Begin, Miss, LookupFails, UpstreamReturns,
     UpstreamFails, StreamChunk, StreamDone, StreamEnds, StreamFails,
     StoreFails, Disconnect, ShadowReplay, ShadowFails
<1>8. (\E c \in Category, falseHit \in BOOLEAN : Feedback(c, falseHit)) \/ UNCHANGED vars
      => UNCHANGED entries
  BY DEF Feedback, vars
<1> QED
  BY <1>1, <1>2, <1>4, <1>5, <1>6, <1>7, <1>8 DEF Next

\* The entry of a task keeps its origin while the store and the task keep it.
LEMMA EntrySoundNext ==
    ASSUME TypeInv, AnswerWhole, EntrySound, [Next]_vars
    PROVE  EntrySound'
<1>1. ASSUME NEW i \in DOMAIN entries', i \in DOMAIN entries,
             entries'[i].namespace = entries[i].namespace,
             entries'[i].prompt = entries[i].prompt,
             entries'[i].response = entries[i].response,
             entries'[i].ttl = entries[i].ttl,
             entries'[i].tags = entries[i].tags
      PROVE  EntryOrigin(i)'
  <2>1. i \in Task /\ EntryOrigin(i)
    BY <1>1 DEF TypeInv, TypeOK, StoreTypeOK, EntrySound
  <2>2. Holding(i)' = Holding(i)
    BY <2>1, EndedKept DEF EntryOrigin
  <2> QED
    BY <1>1, <2>1, <2>2 DEF Holding, EntryOrigin, Namespace
<1>2. CASE EntriesKept
  BY <1>1, <1>2 DEF EntriesKept, EntrySound
<1>3. ASSUME NEW t \in Task, StoreResponse(t) PROVE EntrySound'
  <2>1. entries' = [i \in DOMAIN entries \cup {t} |-> IF i = t THEN EntryOf(t) ELSE entries[i]]
    BY <1>3 DEF StoreResponse, Upsert
  <2>2. EntryOrigin(t)'
    <3>1. entries'[t] = EntryOf(t)
      BY <2>1
    <3>2. pc'[t] = "stored" /\ pc[t] = "storing"
          /\ request' = request /\ parts' = parts /\ completed' = completed
      BY <1>3 DEF StoreResponse, Moves, TypeInv, TypeOK, TaskTypeOK
    <3>3. parts[t] = Parts /\ TtlSeconds(request[t].prompt) > 0 /\ (request[t].stream => completed[t])
      BY <3>2 DEF AnswerWhole
    <3> QED
      BY <3>1, <3>2, <3>3 DEF EntryOrigin, EntryOf, Namespace
  <2>3. ASSUME NEW i \in DOMAIN entries', i # t PROVE EntryOrigin(i)'
    BY <1>1, <2>1, <2>3
  <2> QED
    BY <2>2, <2>3 DEF EntrySound
<1> QED
  BY <1>2, <1>3, StoreStep

\* A lookup answers from a sound entry that is alive.
LEMMA HitMatches ==
    ASSUME TypeInv, EntrySound, NEW t \in Task, Hit(t)
    PROVE  match'[t] # None => MatchOrigin(t, match[t].entry)'
<1>1. PICK i \in Best(Namespace(t), request[t].prompt) :
         /\ CloseEnough(t, ScoreOf(t, i))
         /\ match' = [match EXCEPT ![t] =
               [entry |-> i, score |-> ScoreOf(t, i), age |-> entries[i].age]]
  BY DEF Hit
<1>2. i \in Task /\ EntryOrigin(i) /\ entries[i].namespace = Namespace(t) /\ ~IsExpired(entries[i])
  BY <1>1, BestType DEF TypeInv, TypeOK, StoreTypeOK, EntrySound
<1>3. match'[t] = [entry |-> i, score |-> ScoreOf(t, i), age |-> entries[i].age]
  BY <1>1 DEF TypeInv, TypeOK, TaskTypeOK
<1>4. /\ pc' = [pc EXCEPT ![t] = "hit"] /\ pc[t] = "lookup"
      /\ request' = request /\ threshold' = threshold
  BY DEF Hit, Moves
<1>5. pc'[t] = "hit" /\ pc'[i] = "stored"
  BY <1>2, <1>4 DEF EntryOrigin, TypeInv, TypeOK, TaskTypeOK
<1>6. ~(entries[i].age > entries[i].ttl)
  BY <1>2 DEF IsExpired
<1>7. entries[i].age <= TtlSeconds(request[i].prompt)
  <2>1. entries[i] \in CacheEntry
    BY <1>1, BestType DEF TypeInv, TypeOK, StoreTypeOK
  <2>2. entries[i].age \in Int /\ entries[i].ttl \in Int
    BY <2>1 DEF CacheEntry
  <2> QED
    BY <1>2, <1>6, <2>2 DEF EntryOrigin
<1>8. /\ match'[t].entry = i /\ match'[t].score = ScoreOf(t, i)
      /\ match'[t].age = entries[i].age
  BY <1>3
<1>9. ScoreOf(t, i) = Similarity[request[t].prompt][request[i].prompt]
      /\ ScoreOf(t, i) >= threshold[t]
  BY <1>1, <1>2 DEF EntryOrigin, ScoreOf, CloseEnough
<1>10. Namespace(i) = Namespace(t) /\ TtlSeconds(request[i].prompt) > 0
  BY <1>2 DEF EntryOrigin
<1>11. MatchOrigin(t, i)'
  BY <1>4, <1>5, <1>7, <1>8, <1>9, <1>10 DEF MatchOrigin, Namespace
<1> QED
  BY <1>8, <1>11

\* Only its own hit gives a task a match.
LEMMA MatchStep ==
    ASSUME TypeInv, [Next]_vars, NEW t \in Task
    PROVE  match'[t] = match[t] \/ Hit(t)
<1> USE DEF TypeInv, TypeOK, TaskTypeOK
<1>1. CASE SharedStep
  BY <1>1, SharedStepKeepsTasks DEF taskVars
<1>2. ASSUME NEW u \in Task, Hit(u), u # t PROVE match'[t] = match[t]
  BY <1>2 DEF Hit
<1>3. ASSUME NEW u \in Task, TaskStep(u), ~Hit(u) PROVE match' = match
  BY <1>3 DEF TaskStep, Progress, Begin, Miss, LookupFails, UpstreamReturns,
     UpstreamFails, StreamChunk, StreamDone, StreamEnds, StreamFails, StoreResponse,
     StoreFails, Disconnect, ShadowReplay, ShadowFails
<1> QED
  BY <1>1, <1>2, <1>3 DEF Next, SharedStep

\* A hit keeps its origin: its task and the task that stored its entry have
\* ended, whatever becomes of the entry.
LEMMA MatchSoundNext ==
    ASSUME TypeInv, EntrySound, MatchSound, [Next]_vars
    PROVE  MatchSound'
<1> SUFFICES ASSUME NEW t \in Task, match'[t] # None
             PROVE  MatchOrigin(t, match[t].entry)'
  BY DEF MatchSound
<1>1. CASE Hit(t)
  BY <1>1, HitMatches
<1>2. CASE match'[t] = match[t]
  <2>1. PICK i \in Task : i = match[t].entry /\ MatchOrigin(t, i)
    BY <1>2 DEF MatchSound, TypeInv, TypeOK, TaskTypeOK, Match
  <2>2. Holding(t)' = Holding(t)
    BY <2>1, EndedKept DEF MatchOrigin
  <2>3. Holding(i)' = Holding(i)
    BY <2>1, EndedKept DEF MatchOrigin
  <2>4. MatchOrigin(t, i)'
    BY <2>1, <2>2, <2>3 DEF MatchOrigin, Holding, Namespace
  <2>5. match'[t].entry = i
    BY <1>2, <2>1
  <2> QED
    BY <2>4, <2>5
<1> QED
  BY <1>1, <1>2, MatchStep

\* The inductive invariant holds initially: no task has begun, the store is
\* empty and every threshold is the base of its category.
LEMMA IInvInit == Init => IInv
<1> SUFFICES ASSUME Init PROVE IInv
  OBVIOUS
<1>1. TypeInv
  BY TypeInvInit
<1>2. WithinBounds
  BY PolicyAssumption DEF Init, EngineInit, Base, WithinBounds
<1>3. ThresholdFloor /\ AnswerWhole /\ MatchSound
  BY DEF Init, ProxyInit, ThresholdFloor, AnswerWhole, MatchSound
<1>4. EntrySound
  BY DEF Init, StoreInit, EntrySound
<1> QED
  BY <1>1, <1>2, <1>3, <1>4 DEF IInv

\* Every step keeps the inductive invariant.
LEMMA IInvNext == IInv /\ [Next]_vars => IInv'
<1> SUFFICES ASSUME IInv, [Next]_vars PROVE IInv'
  OBVIOUS
<1>1. TypeInv' /\ WithinBounds'
  BY TypeInvNext, WithinBoundsNext DEF IInv
<1>2. ThresholdFloor' /\ AnswerWhole'
  BY TaskInvNext DEF IInv
<1>3. EntrySound' /\ MatchSound'
  BY EntrySoundNext, MatchSoundNext DEF IInv
<1> QED
  BY <1>1, <1>2, <1>3 DEF IInv

\* Every reachable state satisfies the inductive invariant.
THEOREM Inductive == Spec => []IInv
BY IInvInit, IInvNext, PTL DEF Spec

\* Feedback never drives a threshold out of its category's bounds, for every
\* policy whose bounds enclose its base.
THEOREM ThresholdsStayWithinBounds == Spec => []WithinBounds
<1>1. IInv => WithinBounds
  BY DEF IInv
<1> QED
  BY <1>1, Inductive, PTL

\* Partial and failed answers never enter the cache, however many streams,
\* clients and purges interleave.
THEOREM PartialNeverCached == Spec => []NeverCachePartial
<1>1. IInv => NeverCachePartial
  BY DEF IInv, EntrySound, EntryOrigin, NeverCachePartial, PolicyTags
<1> QED
  BY <1>1, Inductive, PTL

\* Arithmetic on a score, a threshold and a minimum.
LEMMA AtLeastTransitive ==
    ASSUME NEW low \in Score, NEW middle \in Score, NEW high \in Int,
           low <= middle, high >= middle
    PROVE  high >= low
BY SMTT(30) DEF Score

\* The inductive invariant implies HitIsCloseEnough.
LEMMA IInvCloseEnough == IInv => HitIsCloseEnough
<1> SUFFICES ASSUME IInv PROVE HitIsCloseEnough
  OBVIOUS
<1>1. SUFFICES ASSUME NEW t \in Task, match[t] # None
               PROVE  /\ match[t].score = Similarity[request[t].prompt][request[match[t].entry].prompt]
                      /\ match[t].score >= threshold[t]
                      /\ AdaptiveThresholds =>
                            match[t].score >= Policy[Categorize(request[t].prompt)].minimum
  BY DEF HitIsCloseEnough
<1>2. MatchOrigin(t, match[t].entry)
  BY <1>1 DEF IInv, MatchSound
<1>3. ASSUME AdaptiveThresholds
      PROVE  match[t].score >= Policy[Categorize(request[t].prompt)].minimum
  <2>1. request[t] \in Request
    BY <1>2 DEF MatchOrigin, IInv, TypeInv, RequestKnown
  <2>2. Policy[Categorize(request[t].prompt)] \in CategoryPolicy
    BY <2>1, RequestType, CategorizeType, PolicyAssumption
  <2>3. Policy[Categorize(request[t].prompt)].minimum \in Score
    BY <2>2 DEF CategoryPolicy
  <2>4. threshold[t] \in Score
    BY DEF IInv, TypeInv, TypeOK, TaskTypeOK
  <2>5. match[t].score \in Int
    BY <1>1, SMTT(30) DEF IInv, TypeInv, TypeOK, TaskTypeOK, Match
  <2>6. Policy[Categorize(request[t].prompt)].minimum <= threshold[t]
    BY <1>2, <1>3 DEF IInv, ThresholdFloor, MatchOrigin
  <2>7. match[t].score >= threshold[t]
    BY <1>2 DEF MatchOrigin
  <2> QED
    BY <2>3, <2>4, <2>5, <2>6, <2>7, AtLeastTransitive
<1> QED
  BY <1>2, <1>3 DEF MatchOrigin

\* A hit clears the threshold its request read, and with adaptive thresholds
\* the minimum of its category, whatever feedback arrived meanwhile.
THEOREM HitsAreCloseEnough == Spec => []HitIsCloseEnough
BY Inductive, IInvCloseEnough, PTL

\* The inductive invariant implies HitIsFresh.
LEMMA IInvFresh == IInv => HitIsFresh
<1> SUFFICES ASSUME IInv PROVE HitIsFresh
  OBVIOUS
<1> SUFFICES ASSUME NEW t \in Task, match[t] # None
             PROVE  /\ Classify(request[match[t].entry].prompt) # "no_cache"
                    /\ match[t].age <= TtlSeconds(request[match[t].entry].prompt)
  BY DEF HitIsFresh
<1>1. MatchOrigin(t, match[t].entry) /\ match[t].entry \in Task
  BY DEF IInv, MatchSound, TypeInv, TypeOK, TaskTypeOK, Match
<1>2. request[match[t].entry] \in Request
  BY <1>1 DEF MatchOrigin, IInv, TypeInv, RequestKnown
<1> QED
  BY <1>1, <1>2, RequestType, TtlType DEF MatchOrigin

\* An answer is served within its lifetime or not at all, and an answer to a
\* volatile prompt never.
THEOREM HitsAreFresh == Spec => []HitIsFresh
BY Inductive, IInvFresh, PTL

\* Temperatures that round to the same tenth are at most a tenth apart.
LEMMA BucketWidth ==
    ASSUME NEW a \in Temperature, NEW b \in Temperature,
           TemperatureBucket(a) = TemperatureBucket(b)
    PROVE  a - b \in -10..10
<1> DEFINE Near(x) == 10 * TemperatureBucket(x) - 5 <= x /\ x <= 10 * TemperatureBucket(x) + 5
<1>1. ASSUME NEW x \in Temperature PROVE Near(x) /\ TemperatureBucket(x) \in Int
  BY DEF Temperature, TemperatureBucket, RoundsDown
<1>2. Near(a) /\ Near(b) /\ TemperatureBucket(a) \in Int
  BY <1>1
<1>3. a \in Int /\ b \in Int
  BY DEF Temperature
<1> DEFINE k == TemperatureBucket(a)
<1>4. 10 * k - 5 <= a /\ a <= 10 * k + 5 /\ 10 * k - 5 <= b /\ b <= 10 * k + 5
  BY <1>2
<1> HIDE DEF k
<1>5. k \in Int
  BY <1>2 DEF k
<1> QED
  BY <1>3, <1>4, <1>5

\* The inductive invariant implies HitIsIsolated.
LEMMA IInvIsolated == IInv => HitIsIsolated
<1> SUFFICES ASSUME IInv PROVE HitIsIsolated
  OBVIOUS
<1> SUFFICES ASSUME NEW t \in Task, match[t] # None
             PROVE  LET mine == request[t]
                        source == request[match[t].entry]
                    IN  /\ source # None
                        /\ source.tenant = mine.tenant
                        /\ source.model = mine.model /\ Route[source.model] = Route[mine.model]
                        /\ SystemHash[source.system] = SystemHash[mine.system]
                        /\ source.max_tokens = mine.max_tokens
                        /\ source.temperature - mine.temperature \in -10..10
  BY DEF HitIsIsolated
<1> DEFINE mine == request[t]
           source == request[match[t].entry]
<1>1. MatchOrigin(t, match[t].entry) /\ match[t].entry \in Task
  BY DEF IInv, MatchSound, TypeInv, TypeOK, TaskTypeOK, Match
<1>2. mine \in Request /\ source \in Request
  BY <1>1 DEF MatchOrigin, IInv, TypeInv, RequestKnown
<1>3. NamespaceOf(source) = NamespaceOf(mine)
  BY <1>1 DEF MatchOrigin, Namespace
<1> HIDE DEF mine, source
<1>4. /\ source.tenant = mine.tenant
      /\ source.model = mine.model
      /\ SystemHash[source.system] = SystemHash[mine.system]
      /\ source.max_tokens = mine.max_tokens
      /\ TemperatureBucket(source.temperature) = TemperatureBucket(mine.temperature)
  BY <1>3 DEF NamespaceOf
<1>5. source.temperature - mine.temperature \in -10..10
  BY <1>2, <1>4, RequestType, BucketWidth
<1>6. source # None
  BY <1>2, ProxyAssumption
<1> QED
  BY <1>4, <1>5, <1>6 DEF mine, source

\* No request is answered from another tenant's, provider's, model's, system
\* prompt's or max_tokens' entry, nor across more than a tenth of temperature.
THEOREM HitsAreIsolated == Spec => []HitIsIsolated
BY Inductive, IInvIsolated, PTL

\* What NearMissIsTrue says of one event.
NearMissOrigin(e) ==
    /\ e.score < e.threshold
    /\ e.score >= e.threshold - NearMissWindow
    /\ \E t \in Task : /\ request[t] # None /\ match[t] = None
                       /\ pc[t] \notin {"lookup", "lookup_failed"}
                       /\ threshold[t] = e.threshold
                       /\ request[t].prompt = e.prompt
                       /\ Namespace(t) = e.namespace

\* Only a task that has begun has a request.
IdleHasNone == \A t \in Task : pc[t] = "idle" => request[t] = None

NearMissInv == IInv /\ NearMissIsTrue /\ IdleHasNone

\* A task that has missed never looks anything up again, so what an event says
\* of it stays true.
LEMMA MissedKept ==
    ASSUME NearMissInv, [Next]_vars, NEW t \in Task, request[t] # None,
           match[t] = None, pc[t] \notin {"lookup", "lookup_failed"}
    PROVE  /\ request'[t] = request[t] /\ threshold'[t] = threshold[t]
           /\ match'[t] = None /\ pc'[t] \notin {"lookup", "lookup_failed"}
<1> USE DEF NearMissInv, IInv, TypeInv, TypeOK, TaskTypeOK, IdleHasNone
<1>1. CASE SharedStep
  BY <1>1, SharedStepKeepsTasks DEF taskVars
<1>2. ASSUME NEW u \in Task, TaskStep(u)
      PROVE  /\ request'[t] = request[t] /\ threshold'[t] = threshold[t]
             /\ pc'[t] \notin {"lookup", "lookup_failed"}
  BY <1>2 DEF TaskStep, Progress, Begin, Hit, Miss, LookupFails, UpstreamReturns,
     UpstreamFails, StreamChunk, StreamDone, StreamEnds, StreamFails, StoreResponse,
     StoreFails, Disconnect, ShadowReplay, ShadowFails, Moves, AfterAnswer
<1>3. match'[t] = None
  <2>1. ~Hit(t)
    BY DEF Hit, Moves
  <2> QED
    BY <2>1, MatchStep
<1> QED
  BY <1>1, <1>2, <1>3 DEF Next, SharedStep

\* The event a miss records is true.
LEMMA MissIsTrue ==
    ASSUME NearMissInv, NEW t \in Task, Miss(t),
           NEW i \in Best(Namespace(t), request[t].prompt),
           threshold[t] - NearMissWindow <= ScoreOf(t, i),
           NEW e, e = NearMissOf(t, ScoreOf(t, i))
    PROVE  NearMissOrigin(e)'
<1> USE DEF NearMissInv, IInv, TypeInv, TypeOK
<1>1. pc[t] = "lookup" /\ request[t] \in Request /\ match[t] = None
  BY DEF Miss, Moves, RequestKnown, MatchSound, MatchOrigin
<1>2. ScoreOf(t, i) \in Int /\ threshold[t] \in Score
  BY <1>1, BestType, NearMissType DEF TaskTypeOK
<1>3. ~(ScoreOf(t, i) >= threshold[t])
  BY DEF Miss, CloseEnough
<1>4. e.score < e.threshold /\ e.score >= e.threshold - NearMissWindow
  <2>1. e.score = ScoreOf(t, i) /\ e.threshold = threshold[t]
    BY DEF NearMissOf
  <2>2. NearMissWindow \in Int
    BY ProxyAssumption DEF ProxyAssumption, Score
  <2> QED
    BY <1>2, <1>3, <2>1, <2>2, SMTT(30) DEF Score
<1>5. /\ request' = request /\ threshold' = threshold /\ match' = match
      /\ pc'[t] \in {"streaming", "upstream"}
  BY DEF Miss, Moves, TaskTypeOK
<1>6. request[t] # None
  BY <1>1, ProxyAssumption
<1>7. threshold[t] = e.threshold /\ request[t].prompt = e.prompt /\ Namespace(t) = e.namespace
  BY DEF NearMissOf
<1> QED
  BY <1>1, <1>4, <1>5, <1>6, <1>7 DEF NearMissOrigin, Namespace

\* Recording keeps a suffix of the events and adds the new one.
LEMMA RecordElements ==
    ASSUME NEW S, NEW e \in S, events \in Seq(S), Record(e), NEW k \in DOMAIN events'
    PROVE  events'[k] = e \/ \E j \in DOMAIN events : events'[k] = events[j]
<1>1. CASE NearMissCapacity = 0
  BY <1>1 DEF Record
<1>2. CASE NearMissCapacity # 0 /\ Len(events) < NearMissCapacity
  BY <1>2 DEF Record
<1>3. CASE NearMissCapacity # 0 /\ ~(Len(events) < NearMissCapacity)
  <2>1. events # <<>>
    BY <1>3, NearMissAssumption
  <2>2. /\ Tail(events) \in Seq(S) /\ Len(Tail(events)) = Len(events) - 1
        /\ \A j \in 1..Len(Tail(events)) : Tail(events)[j] = events[j + 1]
    BY <2>1
  <2>3. events' = Append(Tail(events), e)
    BY <1>3 DEF Record
  <2> QED
    BY <2>2, <2>3
<1> QED
  BY <1>1, <1>2, <1>3

\* Every step keeps the near misses true.
LEMMA NearMissNext == NearMissInv /\ [Next]_vars => NearMissInv'
<1> SUFFICES ASSUME NearMissInv, [Next]_vars PROVE NearMissInv'
  OBVIOUS
<1>1. IInv'
  BY IInvNext DEF NearMissInv
<1>2. ASSUME NEW e, NearMissOrigin(e) PROVE NearMissOrigin(e)'
  <2>1. PICK t \in Task : /\ request[t] # None /\ match[t] = None
                          /\ pc[t] \notin {"lookup", "lookup_failed"}
                          /\ threshold[t] = e.threshold
                          /\ request[t].prompt = e.prompt
                          /\ Namespace(t) = e.namespace
    BY <1>2 DEF NearMissOrigin
  <2>2. /\ request'[t] = request[t] /\ threshold'[t] = threshold[t]
        /\ match'[t] = None /\ pc'[t] \notin {"lookup", "lookup_failed"}
    BY <2>1, MissedKept
  <2> QED
    BY <1>2, <2>1, <2>2 DEF NearMissOrigin, Namespace
<1>3. ASSUME NEW j \in DOMAIN events, NEW e, e = events[j] PROVE NearMissOrigin(e)
  BY <1>3 DEF NearMissInv, NearMissIsTrue, NearMissOrigin
<1>4. ASSUME NEW k \in DOMAIN events', NEW d, d = events'[k],
             NEW t \in Task, Miss(t), NEW i \in Best(Namespace(t), request[t].prompt),
             threshold[t] - NearMissWindow <= ScoreOf(t, i),
             NEW e, e = NearMissOf(t, ScoreOf(t, i)), Record(e)
      PROVE  NearMissOrigin(d)'
  <2>1. NearMissOrigin(e)'
    BY <1>4, MissIsTrue
  <2>2. request[t] \in Request
    BY <1>4 DEF Miss, Moves, NearMissInv, IInv, TypeInv, RequestKnown
  <2>3. e \in NearMiss /\ events \in Seq(NearMiss)
    BY <1>4, <2>2, BestType, NearMissType DEF NearMissInv, IInv, TypeInv, TypeOK, NearMissTypeOK
  <2>4. CASE d = e
    BY <2>1, <2>4
  <2>5. CASE \E j \in DOMAIN events : d = events[j]
    BY <1>2, <1>3, <2>5
  <2> QED
    BY <1>4, <2>3, <2>4, <2>5, RecordElements
<1>5. ASSUME NEW t \in Task, Miss(t)
      PROVE  UNCHANGED events \/ \E i \in Best(Namespace(t), request[t].prompt) :
                /\ threshold[t] - NearMissWindow <= ScoreOf(t, i)
                /\ Record(NearMissOf(t, ScoreOf(t, i)))
  BY <1>5 DEF Miss
<1>6. ASSUME ~\E t \in Task : Miss(t) PROVE UNCHANGED events
  BY <1>6 DEF Next, TaskStep, Progress, Begin, Hit, LookupFails, UpstreamReturns,
     UpstreamFails, StreamChunk, StreamDone, StreamEnds, StreamFails, StoreResponse,
     StoreFails, Disconnect, ShadowReplay, ShadowFails, Feedback, Invalidate,
     InvalidateAll, TimePasses, vars
<1>7. ASSUME NEW k \in DOMAIN events', NEW d, d = events'[k] PROVE NearMissOrigin(d)'
  <2>1. CASE UNCHANGED events
    BY <1>2, <1>3, <1>7, <2>1
  <2>2. CASE ~UNCHANGED events
    <3>1. PICK t \in Task : Miss(t)
      BY <1>6, <2>2
    <3>2. PICK i \in Best(Namespace(t), request[t].prompt) :
             /\ threshold[t] - NearMissWindow <= ScoreOf(t, i)
             /\ Record(NearMissOf(t, ScoreOf(t, i)))
      BY <1>5, <2>2, <3>1
    <3>3. PICK e : e = NearMissOf(t, ScoreOf(t, i))
      OBVIOUS
    <3> QED
      BY <1>4, <1>7, <3>1, <3>2, <3>3
  <2> QED
    BY <2>1, <2>2
<1>8. NearMissIsTrue'
  <2>1. ASSUME NEW k \in DOMAIN events'
        PROVE  /\ events'[k].score < events'[k].threshold
               /\ events'[k].score >= events'[k].threshold - NearMissWindow
               /\ \E t \in Task : /\ request'[t] # None /\ match'[t] = None
                                  /\ pc'[t] \notin {"lookup", "lookup_failed"}
                                  /\ threshold'[t] = events'[k].threshold
                                  /\ request'[t].prompt = events'[k].prompt
                                  /\ Namespace(t)' = events'[k].namespace
    <3>1. PICK d : d = events'[k]
      OBVIOUS
    <3>2. NearMissOrigin(d)'
      BY <1>7, <3>1
    <3> QED
      BY <3>1, <3>2 DEF NearMissOrigin
  <2> QED
    BY <2>1 DEF NearMissIsTrue
<1>9. IdleHasNone'
  <2>1. CASE SharedStep
    BY <2>1, SharedStepKeepsTasks DEF taskVars, NearMissInv, IdleHasNone
  <2>2. ASSUME NEW t \in Task, TaskStep(t) PROVE IdleHasNone'
    BY <2>2 DEF TaskStep, Progress, Begin, Hit, Miss, LookupFails, UpstreamReturns,
       UpstreamFails, StreamChunk, StreamDone, StreamEnds, StreamFails, StoreResponse,
       StoreFails, Disconnect, ShadowReplay, ShadowFails, Moves, AfterAnswer,
       NearMissInv, IdleHasNone, IInv, TypeInv, TypeOK, TaskTypeOK
  <2> QED
    BY <2>1, <2>2 DEF Next, SharedStep
<1> QED
  BY <1>1, <1>8, <1>9 DEF NearMissInv

\* Every event in the near-miss window is a request that missed, judged by the
\* threshold it was compared with, whatever feedback has moved since.
THEOREM NearMissesAreTrue == Spec => []NearMissIsTrue
<1>1. Init => NearMissInv
  BY IInvInit DEF NearMissInv, NearMissIsTrue, IdleHasNone, Init, ProxyInit, NearMissInit
<1>2. NearMissInv => NearMissIsTrue
  BY DEF NearMissInv
<1> QED
  BY <1>1, <1>2, NearMissNext, PTL DEF Spec
-----------------------------------------------------------------------------
(* Hit counts and counters: what has been counted is the number of requests it
   happened to. *)

\* The requests the counters count, as sets.
ServedFrom(m, i) == {t \in Task : m[t] # None /\ m[t].entry = i}
Served(m) == {t \in Task : m[t] # None}
LookedUp(p) == {t \in Task : p[t] \notin {"idle", "lookup", "lookup_failed"}}
Validated(s) == {t \in Task : s[t] = "validated"}
Begun == {t \in Task : pc[t] # "idle"}

\* Only finitely many requests have begun, however many may come.
FinitelyBegun == IsFiniteSet(Begun)

CountInv == IInv /\ FinitelyBegun /\ HitCountsExact /\ CountersExact

\* What CountersExact says of the lookups.
LookupsExact ==
    /\ metrics.total = Cardinality(LookedUp(pc))
    /\ metrics.hits = Cardinality(Served(match))
    /\ metrics.misses = metrics.total - metrics.hits
    /\ metrics.saved = metrics.hits

\* What CountersExact says of the replays.
ReplaysExact ==
    /\ validation.validations = Cardinality(Validated(shadow))
    /\ validation.drift = validation.false_hits
    /\ validation.drift <= validation.validations
    /\ \A t \in Task : shadow[t] # "none" => match[t] # None /\ ~request[t].stream

LEMMA CountersParts == CountersExact <=> LookupsExact /\ ReplaysExact
BY DEF CountersExact, LookupsExact, ReplaysExact, Answered, LookedUp, Served, Validated

\* Every set that is counted consists of requests that have begun.
LEMMA CountedBegun ==
    ASSUME CountInv
    PROVE  /\ LookedUp(pc) \subseteq Begun /\ Served(match) \subseteq Begun
           /\ Validated(shadow) \subseteq Begun
           /\ \A i : ServedFrom(match, i) \subseteq Begun
BY DEF CountInv, IInv, MatchSound, MatchOrigin, CountersExact, LookedUp, Served, Validated,
   ServedFrom, Begun

\* One more begun request counts one more.
LEMMA CountOneMore ==
    ASSUME FinitelyBegun, NEW S, S \subseteq Begun, NEW t, t \notin S
    PROVE  /\ Cardinality(S) \in Nat
           /\ Cardinality(S \cup {t}) = Cardinality(S) + 1
BY FS_Subset, FS_CardinalityType, FS_AddElement DEF FinitelyBegun

\* A step of a task begins that task at most.
LEMMA BegunNext == FinitelyBegun /\ TypeInv /\ [Next]_vars => FinitelyBegun'
<1> SUFFICES ASSUME FinitelyBegun, TypeInv, [Next]_vars PROVE IsFiniteSet(Begun')
  BY DEF FinitelyBegun
<1>1. CASE SharedStep
  BY <1>1, SharedStepKeepsTasks DEF taskVars, Begun, FinitelyBegun
<1>2. ASSUME NEW t \in Task, TaskStep(t) PROVE Begun' \subseteq Begun \cup {t}
  <2>1. pc' = pc \/ \E to : pc' = [pc EXCEPT ![t] = to]
    BY <1>2 DEF TaskStep, Progress, Begin, Hit, Miss, LookupFails, UpstreamReturns,
       UpstreamFails, StreamChunk, StreamDone, StreamEnds, StreamFails, StoreResponse,
       StoreFails, Disconnect, ShadowReplay, ShadowFails, Moves
  <2> QED
    BY <2>1 DEF Begun, TypeInv, TypeOK, TaskTypeOK
<1>3. ASSUME NEW t \in Task, TaskStep(t) PROVE IsFiniteSet(Begun')
  BY <1>2, <1>3, FS_Subset, FS_AddElement DEF FinitelyBegun
<1> QED
  BY <1>1, <1>3 DEF Next, SharedStep

\* A lookup that is answered is counted as such; every other step leaves the
\* counters and what they count alone.
LEMMA LookupsNext ==
    ASSUME TypeInv, [Next]_vars, ~\E t \in Task : Hit(t) \/ Miss(t)
    PROVE  LookedUp(pc)' = LookedUp(pc) /\ match' = match /\ metrics' = metrics
<1> USE DEF TypeInv, TypeOK, TaskTypeOK
<1>1. CASE SharedStep
  BY <1>1, SharedStepKeepsTasks
  DEF taskVars, LookedUp, SharedStep, Feedback, Invalidate, InvalidateAll, TimePasses, vars
<1>2. ASSUME NEW t \in Task, TaskStep(t)
      PROVE  match' = match /\ metrics' = metrics
  BY <1>2 DEF TaskStep, Progress, Begin, LookupFails, UpstreamReturns,
     UpstreamFails, StreamChunk, StreamDone, StreamEnds, StreamFails, StoreResponse,
     StoreFails, Disconnect, ShadowReplay, ShadowFails
<1>3. ASSUME NEW t \in Task, TaskStep(t)
      PROVE  LookedUp(pc') = LookedUp(pc)
  BY <1>3 DEF TaskStep, Progress, Begin, LookupFails, UpstreamReturns,
     UpstreamFails, StreamChunk, StreamDone, StreamEnds, StreamFails, StoreResponse,
     StoreFails, Disconnect, ShadowReplay, ShadowFails, Moves, AfterAnswer, LookedUp
<1> QED
  BY <1>1, <1>2, <1>3 DEF Next, SharedStep, LookedUp

\* A hit counts on the entry it answers from and remembers that entry.
LEMMA HitAnswers ==
    ASSUME TypeInv, NEW t \in Task, Hit(t)
    PROVE  \E i \in DOMAIN entries, m \in Match :
              /\ IncrementHit(i)
              /\ m.entry = i
              /\ match' = [match EXCEPT ![t] = m]
<1> USE DEF TypeInv, TypeOK, TaskTypeOK, StoreTypeOK
<1>1. PICK i \in Best(Namespace(t), request[t].prompt) :
         /\ IncrementHit(i)
         /\ match' = [match EXCEPT ![t] =
               [entry |-> i, score |-> ScoreOf(t, i), age |-> entries[i].age]]
  BY DEF Hit
<1>2. i \in DOMAIN entries /\ i \in Task /\ entries[i] \in CacheEntry /\ request[t] \in Request
  BY <1>1, BestType DEF Hit, Moves, RequestKnown
<1>3. ScoreOf(t, i) \in Int /\ entries[i].age \in Nat
  BY <1>2, NearMissType DEF CacheEntry
<1> QED
  BY <1>1, <1>2, <1>3 DEF Match

LEMMA LookupsExactNext ==
    ASSUME CountInv, LookupsExact, [Next]_vars PROVE LookupsExact'
<1> USE DEF CountInv, IInv, TypeInv, TypeOK, TaskTypeOK
<1>0. metrics \in [total: Nat, hits: Nat, misses: Nat, saved: Nat]
  BY DEF MetricsTypeOK
<1>1. ASSUME NEW t \in Task, Hit(t) PROVE LookupsExact'
  <2>1. pc[t] = "lookup" /\ pc' = [pc EXCEPT ![t] = "hit"] /\ match[t] = None
    BY <1>1 DEF Hit, Moves, MatchSound, MatchOrigin
  <2>2. LookedUp(pc') = LookedUp(pc) \cup {t} /\ t \notin LookedUp(pc)
    BY <2>1 DEF LookedUp
  <2>3. PICK m \in Match : match' = [match EXCEPT ![t] = m]
    BY <1>1, HitAnswers
  <2>4. m # None
    BY ProxyAssumption
  <2>5. Served(match') = Served(match) \cup {t} /\ t \notin Served(match)
    BY <2>1, <2>3, <2>4 DEF Served
  <2>6. /\ Cardinality(LookedUp(pc')) = Cardinality(LookedUp(pc)) + 1
        /\ Cardinality(Served(match')) = Cardinality(Served(match)) + 1
    BY <2>2, <2>5, CountedBegun, CountOneMore
  <2>7. metrics' = [metrics EXCEPT !.total = @ + 1, !.hits = @ + 1, !.saved = @ + 1]
    BY <1>0, <1>1 DEF Hit, RecordLookup, RecordSavings
  <2>8. /\ metrics'.total = metrics.total + 1 /\ metrics'.hits = metrics.hits + 1
        /\ metrics'.saved = metrics.saved + 1 /\ metrics'.misses = metrics.misses
    BY <1>0, <2>7
  <2> QED
    BY <1>0, <2>6, <2>8 DEF LookupsExact
<1>2. ASSUME NEW t \in Task, Miss(t) PROVE LookupsExact'
  <2>1. pc[t] = "lookup" /\ match' = match
        /\ pc' \in {[pc EXCEPT ![t] = "streaming"], [pc EXCEPT ![t] = "upstream"]}
    BY <1>2 DEF Miss, Moves
  <2>2. LookedUp(pc') = LookedUp(pc) \cup {t} /\ t \notin LookedUp(pc)
    BY <2>1 DEF LookedUp
  <2>3. Cardinality(LookedUp(pc')) = Cardinality(LookedUp(pc)) + 1
    BY <2>2, CountedBegun, CountOneMore
  <2>4. metrics' = [metrics EXCEPT !.total = @ + 1, !.misses = @ + 1]
    BY <1>2 DEF Miss, RecordLookup
  <2>5. /\ metrics'.total = metrics.total + 1 /\ metrics'.misses = metrics.misses + 1
        /\ metrics'.saved = metrics.saved /\ metrics'.hits = metrics.hits
    BY <1>0, <2>4
  <2> QED
    BY <1>0, <2>1, <2>3, <2>5 DEF LookupsExact
<1>3. CASE ~\E t \in Task : Hit(t) \/ Miss(t)
  BY <1>3, LookupsNext DEF LookupsExact
<1> QED
  BY <1>1, <1>2, <1>3

\* Replays are started by hits of buffered requests and end by themselves.
LEMMA ShadowStep ==
    ASSUME TypeInv, [Next]_vars, ~\E t \in Task : Hit(t),
           ~\E t \in Task, drifted \in BOOLEAN : ShadowReplay(t, drifted)
    PROVE  /\ validation' = validation
           /\ shadow' = shadow \/ \E t \in Task : ShadowFails(t)
<1>1. CASE SharedStep
  BY <1>1, SharedStepKeepsTasks
  DEF taskVars, SharedStep, Feedback, Invalidate, InvalidateAll, TimePasses, vars
<1>2. ASSUME NEW t \in Task, TaskStep(t)
      PROVE  validation' = validation /\ (shadow' = shadow \/ ShadowFails(t))
  BY <1>2 DEF TaskStep, Progress, Begin, Miss, LookupFails, UpstreamReturns,
     UpstreamFails, StreamChunk, StreamDone, StreamEnds, StreamFails, StoreResponse,
     StoreFails, Disconnect, ShadowFails
<1> QED
  BY <1>1, <1>2 DEF Next, SharedStep

LEMMA ReplaysExactNext ==
    ASSUME CountInv, ReplaysExact, [Next]_vars PROVE ReplaysExact'
<1> USE DEF CountInv, IInv, TypeInv, TypeOK, TaskTypeOK
<1>0. validation \in [validations: Nat, drift: Nat, false_hits: Nat]
  BY DEF ValidationTypeOK
\* A request that has been answered from the cache is not answered anew.
<1>1. ASSUME NEW t \in Task, match[t] # None
      PROVE  match'[t] = match[t] /\ request'[t] = request[t]
  BY <1>1, EndedKept DEF MatchSound, MatchOrigin, Holding
<1>2. ASSUME NEW t \in Task, Hit(t) PROVE ReplaysExact'
  <2>1. match[t] = None /\ shadow[t] = "none"
    BY <1>2 DEF Hit, Moves, MatchSound, MatchOrigin, ReplaysExact
  <2>2. PICK sampled \in Sampled(t) :
           shadow' = [shadow EXCEPT ![t] = IF sampled THEN "running" ELSE "none"]
    BY <1>2 DEF Hit
  <2>3. Validated(shadow') = Validated(shadow)
    BY <2>1, <2>2 DEF Validated
  <2>4. validation' = validation /\ request' = request
    BY <1>2 DEF Hit
  <2>5. match'[t] # None
    BY <1>2, HitAnswers, ProxyAssumption
  <2>6. shadow'[t] # "none" => ~request[t].stream
    BY <2>2 DEF Sampled
  <2> QED
    BY <1>1, <2>2, <2>3, <2>4, <2>5, <2>6 DEF ReplaysExact
<1>3. ASSUME NEW t \in Task, NEW drifted \in BOOLEAN, ShadowReplay(t, drifted)
      PROVE  ReplaysExact'
  <2>1. /\ shadow[t] = "running" /\ shadow' = [shadow EXCEPT ![t] = "validated"]
        /\ match' = match /\ request' = request
    BY <1>3 DEF ShadowReplay
  <2>2. Validated(shadow') = Validated(shadow) \cup {t} /\ t \notin Validated(shadow)
    BY <2>1 DEF Validated
  <2>3. Cardinality(Validated(shadow')) = Cardinality(Validated(shadow)) + 1
    BY <2>2, CountedBegun, CountOneMore
  <2>4. /\ validation'.validations = validation.validations + 1
        /\ validation'.drift = validation.drift + (IF drifted THEN 1 ELSE 0)
        /\ validation'.false_hits = validation.false_hits + (IF drifted THEN 1 ELSE 0)
    BY <1>0, <1>3 DEF ShadowReplay, Validate
  <2>5. validation'.drift = validation'.false_hits /\ validation'.drift <= validation'.validations
    BY <1>0, <2>4 DEF ReplaysExact
  <2> QED
    BY <2>1, <2>3, <2>4, <2>5 DEF ReplaysExact
<1>4. CASE /\ ~\E t \in Task : Hit(t)
           /\ ~\E t \in Task, drifted \in BOOLEAN : ShadowReplay(t, drifted)
  <2>1. validation' = validation /\ (shadow' = shadow \/ \E t \in Task : ShadowFails(t))
    BY <1>4, ShadowStep
  <2>2. \A t \in Task : shadow'[t] # "none" => shadow[t] # "none"
    BY <2>1 DEF ShadowFails
  <2>3. Validated(shadow') = Validated(shadow)
    BY <2>1 DEF ShadowFails, Validated
  <2> QED
    BY <1>1, <2>1, <2>2, <2>3 DEF ReplaysExact
<1> QED
  BY <1>2, <1>3, <1>4

\* Purges and time leave the hits of the entries that stay alone.
LEMMA HitsKept ==
    ASSUME TypeInv, [Next]_vars, ~\E t \in Task : Hit(t) \/ StoreResponse(t)
    PROVE  /\ DOMAIN entries' \subseteq DOMAIN entries
           /\ \A i \in DOMAIN entries' : entries'[i].hits = entries[i].hits
<1>1. CASE UNCHANGED entries
  BY <1>1
<1>2. ASSUME NEW ids, entries' = Without(ids)
      PROVE  /\ DOMAIN entries' \subseteq DOMAIN entries
             /\ \A i \in DOMAIN entries' : entries'[i].hits = entries[i].hits
  BY <1>2 DEF Without
<1>3. ASSUME NEW f \in Filter, Invalidate(f)
      PROVE  UNCHANGED entries \/ \E ids : entries' = Without(ids)
  BY <1>3 DEF Invalidate, Delete
<1>4. CASE InvalidateAll
  BY <1>2, <1>4 DEF InvalidateAll, Clear
<1>5. CASE TimePasses
  <2>1. \A i \in DOMAIN entries : entries[i] \in CacheEntry
    BY DEF TypeInv, TypeOK, StoreTypeOK
  <2>2. /\ DOMAIN entries' = DOMAIN entries
        /\ \A i \in DOMAIN entries : entries'[i] = entries[i]
                                     \/ entries'[i] = [entries[i] EXCEPT !.age = @ + 1]
    BY <1>5 DEF TimePasses, Tick
  <2> QED
    BY <2>1, <2>2 DEF CacheEntry
<1>6. ASSUME NEW t \in Task, TaskStep(t) PROVE UNCHANGED entries
  BY <1>6 DEF TaskStep, Progress, Begin, Miss, LookupFails, UpstreamReturns,
     UpstreamFails, StreamChunk, StreamDone, StreamEnds, StreamFails,
     StoreFails, Disconnect, ShadowReplay, ShadowFails
<1>7. (\E c \in Category, falseHit \in BOOLEAN : Feedback(c, falseHit)) \/ UNCHANGED vars
      => UNCHANGED entries
  BY DEF Feedback, vars
<1> QED
  BY <1>1, <1>2, <1>3, <1>4, <1>5, <1>6, <1>7 DEF Next

\* An entry's count and the number of requests answered from it move together.
LEMMA HitCountsNext ==
    ASSUME CountInv, [Next]_vars PROVE HitCountsExact'
<1> USE DEF CountInv, IInv, TypeInv, TypeOK, TaskTypeOK
<1>0. \A i \in DOMAIN entries : i \in Task /\ entries[i] \in CacheEntry
  BY DEF StoreTypeOK
<1>1. SUFFICES \A i \in DOMAIN entries' : entries'[i].hits = Cardinality(ServedFrom(match', i))
  BY DEF HitCountsExact, ServedFrom
<1>2. \A i \in DOMAIN entries : entries[i].hits = Cardinality(ServedFrom(match, i))
  BY DEF HitCountsExact, ServedFrom
<1>3. ASSUME NEW t \in Task, Hit(t)
      PROVE  \A i \in DOMAIN entries' : entries'[i].hits = Cardinality(ServedFrom(match', i))
  <2>1. PICK i \in DOMAIN entries, m \in Match :
            IncrementHit(i) /\ m.entry = i /\ match' = [match EXCEPT ![t] = m]
    BY <1>3, HitAnswers
  <2>2. match[t] = None /\ m # None
    BY <1>3, ProxyAssumption DEF Hit, Moves, MatchSound, MatchOrigin
  <2>3. ServedFrom(match', i) = ServedFrom(match, i) \cup {t} /\ t \notin ServedFrom(match, i)
    BY <2>1, <2>2 DEF ServedFrom
  <2>4. Cardinality(ServedFrom(match', i)) = Cardinality(ServedFrom(match, i)) + 1
    BY <2>3, CountedBegun, CountOneMore
  <2>5. \A j : j # i => ServedFrom(match', j) = ServedFrom(match, j)
    BY <2>1, <2>2 DEF ServedFrom
  <2>6. entries[i] \in CacheEntry /\ entries' = [entries EXCEPT ![i].hits = @ + 1]
    BY <1>0, <2>1 DEF IncrementHit
  <2>7. /\ DOMAIN entries' = DOMAIN entries /\ entries'[i].hits = entries[i].hits + 1
        /\ \A j \in DOMAIN entries \ {i} : entries'[j] = entries[j]
    BY <2>6 DEF CacheEntry
  <2> QED
    BY <1>2, <2>4, <2>5, <2>7
\* Nobody has been answered from an entry before it is stored.
<1>4. ASSUME NEW t \in Task, StoreResponse(t)
      PROVE  \A i \in DOMAIN entries' : entries'[i].hits = Cardinality(ServedFrom(match', i))
  <2>1. pc[t] = "storing" /\ match' = match
        /\ entries' = [i \in DOMAIN entries \cup {t} |-> IF i = t THEN EntryOf(t) ELSE entries[i]]
    BY <1>4 DEF StoreResponse, Moves, Upsert
  <2>2. ServedFrom(match, t) = {}
    BY <2>1 DEF ServedFrom, MatchSound, MatchOrigin
  <2>3. EntryOf(t).hits = 0
    BY DEF EntryOf
  <2> QED
    BY <1>2, <2>1, <2>2, <2>3, FS_EmptySet
<1>5. CASE ~\E t \in Task : Hit(t) \/ StoreResponse(t)
  <2>1. \A t \in Task : match'[t] = match[t]
    BY <1>5, MatchStep
  <2>2. \A i : ServedFrom(match', i) = ServedFrom(match, i)
    BY <2>1 DEF ServedFrom
  <2> QED
    BY <1>2, <1>5, <2>2, HitsKept
<1> QED
  BY <1>3, <1>4, <1>5

LEMMA CountInit == Init => CountInv
<1> SUFFICES ASSUME Init PROVE CountInv
  OBVIOUS
<1>1. IInv
  BY IInvInit
<1>2. /\ Begun = {} /\ LookedUp(pc) = {} /\ Served(match) = {} /\ Validated(shadow) = {}
  BY DEF Init, ProxyInit, Begun, LookedUp, Served, Validated
<1>3. FinitelyBegun
  BY <1>2, FS_EmptySet DEF FinitelyBegun
<1>4. HitCountsExact
  BY DEF Init, StoreInit, HitCountsExact
<1>5. CountersExact
  <2>1. LookupsExact
    BY <1>2, FS_EmptySet DEF Init, MetricsInit, LookupsExact
  <2>2. ReplaysExact
    BY <1>2, FS_EmptySet, SMTT(30) DEF Init, ProxyInit, ValidationInit, ReplaysExact
  <2> QED
    BY <2>1, <2>2, CountersParts
<1> QED
  BY <1>1, <1>3, <1>4, <1>5 DEF CountInv

LEMMA CountNext == CountInv /\ [Next]_vars => CountInv'
<1> SUFFICES ASSUME CountInv, [Next]_vars PROVE CountInv'
  OBVIOUS
<1>1. IInv' /\ FinitelyBegun'
  BY IInvNext, BegunNext DEF CountInv, IInv
<1>2. HitCountsExact'
  BY HitCountsNext
<1>3. LookupsExact /\ ReplaysExact
  BY CountersParts DEF CountInv
<1>4. LookupsExact' /\ ReplaysExact'
  BY <1>3, LookupsExactNext, ReplaysExactNext
<1>5. CountersExact'
  BY <1>4, CountersParts, PTL
<1> QED
  BY <1>1, <1>2, <1>5 DEF CountInv

\* hit_count of an entry is the number of requests it has answered, whatever
\* lookups, purges and stores overlap.
THEOREM HitCountsAreExact == Spec => []HitCountsExact
<1>1. CountInv => HitCountsExact
  BY DEF CountInv
<1> QED
  BY <1>1, CountInit, CountNext, PTL DEF Spec

\* The counters of lookups, hits, misses, savings and validations are those of
\* the requests that went through them.
THEOREM CountersAreExact == Spec => []CountersExact
<1>1. CountInv => CountersExact
  BY DEF CountInv
<1> QED
  BY <1>1, CountInit, CountNext, PTL DEF Spec
-----------------------------------------------------------------------------
(* The refinement of VectorStore: every step of the service is, seen through *)
(* its store, an addition, a retirement, an answer or nothing.               *)

\* The two halves of the refinement mapping that are not state of the model.
Retired == {i \in Task : pc[i] = "stored"} \ Visible
Found == [t \in Task |-> IF match[t] = None THEN None ELSE match[t].entry]

\* The visible entries are those of tasks that have stored.
LEMMA VisibleStored ==
    ASSUME IInv PROVE Visible \subseteq {i \in Task : pc[i] = "stored"}
BY DEF IInv, EntrySound, EntryOrigin, Visible, TypeInv, TypeOK, StoreTypeOK

\* A step that stores no answer and matches none, and after which nothing is
\* visible that was not before, retires what it hides.
LEMMA RetireStep ==
    ASSUME IInv, [Next]_vars, Visible' \subseteq Visible,
           \A t \in Task : pc'[t] = "stored" <=> pc[t] = "stored",
           match' = match
    PROVE  [Contract!Next]_Contract!storeVars
<1> DEFINE hidden == Visible \ Visible'
<1>1. Retired' = Retired \cup hidden
  BY VisibleStored DEF Retired
<1>2. Found' = Found
  BY DEF Found
<1>3. Visible' = Visible \ hidden
  OBVIOUS
<1>4. CASE hidden = {}
  BY <1>1, <1>2, <1>4 DEF Contract!storeVars, Retired, Found
<1>5. CASE hidden # {}
  <2>1. PICK ids : ids = hidden
    OBVIOUS
  <2>2. ids \in SUBSET Visible
    BY <2>1
  <2>3. Contract!Retire(ids)
    BY <1>1, <1>2, <1>3, <1>5, <2>1 DEF Contract!Retire, Retired, Found
  <2> QED
    BY <2>2, <2>3 DEF Contract!Next
<1> QED
  BY <1>4, <1>5

\* A step that changes nothing the store or its readers show is a stutter.
LEMMA StutterStep ==
    ASSUME entries' = entries, match' = match,
           \A t \in Task : pc'[t] = "stored" <=> pc[t] = "stored"
    PROVE  UNCHANGED Contract!storeVars
BY DEF Contract!storeVars, Visible, IsExpired

\* Storing adds an entry nobody has seen.
LEMMA AddStep ==
    ASSUME IInv, NEW t \in Task, StoreResponse(t)
    PROVE  Contract!Add(t)
<1> USE DEF IInv, TypeInv, TypeOK
<1>1. /\ pc[t] = "storing" /\ pc' = [pc EXCEPT ![t] = "stored"] /\ match' = match
      /\ entries' = [i \in DOMAIN entries \cup {t} |-> IF i = t THEN EntryOf(t) ELSE entries[i]]
  BY DEF StoreResponse, Moves, Upsert
<1>2. t \notin DOMAIN entries
  BY <1>1 DEF EntrySound, EntryOrigin
<1>3. ~IsExpired(entries'[t])
  <2>1. TtlSeconds(request[t].prompt) > 0 /\ request[t] \in Request
    BY <1>1 DEF AnswerWhole, RequestKnown
  <2>2. TtlSeconds(request[t].prompt) \in Int
    BY <2>1, RequestType, TtlType
  <2>3. entries'[t].ttl = TtlSeconds(request[t].prompt) /\ entries'[t].age = 0
    BY <1>1 DEF EntryOf
  <2> QED
    BY <2>1, <2>2, <2>3 DEF IsExpired
<1>4. Visible' = Visible \cup {t}
  BY <1>1, <1>2, <1>3 DEF Visible, IsExpired
<1>5. t \notin Visible \cup Retired
  BY <1>1, <1>2 DEF Visible, Retired
<1>6. Retired' = Retired
  BY <1>1, <1>4, <1>5 DEF Retired, TaskTypeOK
<1>7. Found' = Found
  BY <1>1 DEF Found
<1> QED
  BY <1>4, <1>5, <1>6, <1>7 DEF Contract!Add, Retired, Found

\* A hit answers its task from a visible entry and hides nothing.
LEMMA AnswerStep ==
    ASSUME IInv, NEW t \in Task, Hit(t)
    PROVE  \E i \in Task : Contract!Answer(t, i)
<1> USE DEF IInv, TypeInv, TypeOK
<1>1. PICK i \in Best(Namespace(t), request[t].prompt) :
         /\ IncrementHit(i)
         /\ match' = [match EXCEPT ![t] =
               [entry |-> i, score |-> ScoreOf(t, i), age |-> entries[i].age]]
  BY DEF Hit
<1>2. i \in DOMAIN entries /\ i \in Task /\ ~IsExpired(entries[i])
  BY <1>1, BestType DEF StoreTypeOK
<1>3. pc[t] = "lookup" /\ pc' = [pc EXCEPT ![t] = "hit"] /\ match[t] = None
  BY DEF Hit, Moves, MatchSound, MatchOrigin
<1>4. DOMAIN entries' = DOMAIN entries /\ \A j \in DOMAIN entries :
         entries'[j].ttl = entries[j].ttl /\ entries'[j].age = entries[j].age
  <2>1. \A j \in DOMAIN entries : entries[j] \in CacheEntry
    BY DEF StoreTypeOK
  <2> QED
    BY <1>1, <1>2, <2>1 DEF IncrementHit, CacheEntry, StoreTypeOK
<1>5. Visible' = Visible
  BY <1>4 DEF Visible, IsExpired
<1>6. Retired' = Retired
  BY <1>3, <1>5 DEF Retired, TaskTypeOK
<1>7. Found' = [Found EXCEPT ![t] = i] /\ Found[t] = None
  <2>1. match'[t] # None /\ match'[t].entry = i
    <3>1. request[t] \in Request
      BY <1>3 DEF RequestKnown
    <3>2. ScoreOf(t, i) \in Int
      BY <1>2, <3>1, NearMissType
    <3>3. entries[i].age \in Nat
      BY <1>2 DEF StoreTypeOK, CacheEntry
    <3>4. [entry |-> i, score |-> ScoreOf(t, i), age |-> entries[i].age] \in Match
      BY <1>2, <3>2, <3>3 DEF Match
    <3> QED
      BY <1>1, <3>4, ProxyAssumption DEF TaskTypeOK
  <2> QED
    BY <1>1, <1>3, <2>1 DEF Found, TaskTypeOK
<1> QED
  BY <1>2, <1>5, <1>6, <1>7 DEF Contract!Answer, Visible, Retired, Found

\* Every step of the service is a step of the contract or a stutter.
LEMMA StepRefines ==
    ASSUME IInv, [Next]_vars
    PROVE  [Contract!Next]_Contract!storeVars
<1>1. ASSUME NEW t \in Task, StoreResponse(t) PROVE Contract!Next
  BY <1>1, AddStep DEF Contract!Next
<1>2. ASSUME NEW t \in Task, Hit(t) PROVE Contract!Next
  BY <1>2, AnswerStep DEF Contract!Next
<1>3. ASSUME NEW t \in Task, TaskStep(t), ~Hit(t), ~StoreResponse(t)
      PROVE  UNCHANGED Contract!storeVars
  <2>1. entries' = entries /\ match' = match
    BY <1>3 DEF TaskStep, Progress, Begin, Miss, LookupFails, UpstreamReturns,
       UpstreamFails, StreamChunk, StreamDone, StreamEnds, StreamFails,
       StoreFails, Disconnect, ShadowReplay, ShadowFails
  <2>2. \A u \in Task : pc'[u] = "stored" <=> pc[u] = "stored"
    BY <1>3 DEF TaskStep, Progress, Begin, Miss, LookupFails, UpstreamReturns,
       UpstreamFails, StreamChunk, StreamDone, StreamEnds, StreamFails,
       StoreFails, Disconnect, ShadowReplay, ShadowFails, Moves, AfterAnswer,
       IInv, TypeInv, TypeOK, TaskTypeOK
  <2> QED
    BY <2>1, <2>2, StutterStep
<1>4. ASSUME SharedStep, Visible' \subseteq Visible
      PROVE  [Contract!Next]_Contract!storeVars
  <2>1. UNCHANGED taskVars
    BY <1>4, SharedStepKeepsTasks
  <2> QED
    BY <1>4, <2>1, RetireStep DEF taskVars
<1>5. ASSUME NEW ids, entries' = Without(ids) PROVE Visible' \subseteq Visible
  BY <1>5 DEF Without, Visible, IsExpired
<1>6. ASSUME entries' = entries PROVE Visible' \subseteq Visible
  BY <1>6 DEF Visible, IsExpired
<1>7. ASSUME TimePasses PROVE Visible' \subseteq Visible
  BY <1>7 DEF TimePasses, Tick, Visible
<1>8. ASSUME NEW f, Invalidate(f) PROVE Visible' \subseteq Visible
  <2> DEFINE ids == {i \in DOMAIN entries : Matches(entries[i], f)}
  <2>1. entries' = entries \/ entries' = Without(ids)
    BY <1>8 DEF Invalidate, Delete
  <2> HIDE DEF ids
  <2>2. CASE entries' = Without(ids)
    BY <1>5, <2>2
  <2>3. CASE entries' = entries
    BY <1>6, <2>3
  <2> QED
    BY <2>1, <2>2, <2>3
<1>9. ASSUME SharedStep PROVE Visible' \subseteq Visible
  BY <1>5, <1>6, <1>7, <1>8, <1>9 DEF SharedStep, Feedback, InvalidateAll, Clear, vars
<1> QED
  BY <1>1, <1>2, <1>3, <1>4, <1>9 DEF Next, SharedStep

\* The service keeps what the store interface promises: an entry that has
\* expired, was deleted or was cleared answers no lookup and never comes back,
\* and an answer once given does not change.
THEOREM ServiceImplementsVectorStore == Spec => ImplementsVectorStore
<1>1. Init => Contract!Init
  BY DEF Init, ProxyInit, StoreInit, Contract!Init, Visible
<1>2. IInv /\ [Next]_vars => [Contract!Next]_Contract!storeVars
  BY StepRefines
<1> QED
  BY <1>1, <1>2, Inductive, PTL DEF Spec, ImplementsVectorStore, Contract!Spec
=============================================================================
