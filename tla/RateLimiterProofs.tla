------------------------- MODULE RateLimiterProofs -------------------------
(***************************************************************************)
(* Type correctness and the bound on every window of RateLimiter, for any  *)
(* rate, resolution of the clock and set of clients.                       *)
(***************************************************************************)
EXTENDS RateLimiter, TLAPS

\* What a key may still spend now.
Level(k) == Refilled(Bucket(k), now)

\* What was admitted since the mark and what is left in the bucket never exceed
\* a full bucket and the refill of the window: the tokens of a key are neither
\* made nor saved beyond the cap by any order of refills and requests.
TokenBalance ==
    \A k \in Key :
        admitted[k] * TicksPerSec + Level(k) <= Capacity + (now - mark[k]) * Rate

IInv == TypeOK /\ TokenBalance
-----------------------------------------------------------------------------
\* The arithmetic that is not linear, with names for the products.
LEMMA Products ==
    ASSUME NEW a \in Nat, NEW b \in Nat
    PROVE  /\ a * b \in Nat
           /\ (a + 1) * b = a * b + b
    OBVIOUS

LEMMA Constants ==
    /\ Rate \in Nat /\ TicksPerSec \in Nat /\ Capacity \in Nat
    /\ TicksPerSec <= Capacity
<1>1. Rate \in Nat \ {0} /\ TicksPerSec \in Nat \ {0}
    BY RateAssumption
<1>2. PICK r \in Nat : Rate = r + 1
    <2>1. Rate - 1 \in Nat /\ Rate = (Rate - 1) + 1
        BY <1>1
    <2>. QED BY <2>1
<1>3. Capacity = r * TicksPerSec + TicksPerSec /\ r * TicksPerSec \in Nat
    BY <1>1, <1>2, Products DEF Capacity
<1>. QED BY <1>1, <1>3

LEMMA KeyOfClient ==
    ASSUME NEW tenant \in Tenant \cup {None}, NEW host \in Host
    PROVE  ClientKey(tenant, host) \in Key
BY DEF ClientKey, Key

\* A bucket of a well-typed state, also one that is made now.
LEMMA BucketType ==
    ASSUME TypeOK, NEW k \in Key
    PROVE  /\ Bucket(k).tokens \in Nat /\ Bucket(k).tokens <= Capacity
           /\ Bucket(k).updated \in Nat /\ Bucket(k).updated <= now
           /\ now \in Nat
BY Constants DEF TypeOK, Bucket

\* A refill gives at most the cap and takes nothing away.
LEMMA RefillType ==
    ASSUME NEW b, NEW t \in Nat, b.tokens \in Nat, b.tokens <= Capacity,
           b.updated \in Nat, b.updated <= t
    PROVE  /\ Refilled(b, t) \in Nat /\ Refilled(b, t) <= Capacity
           /\ Refilled(b, t) >= b.tokens
<1>1. t - b.updated \in Nat
    OBVIOUS
<1>2. (t - b.updated) * Rate \in Nat
    BY <1>1, Constants, Products
<1>. QED BY <1>2, Constants DEF Refilled

\* One tick refills a bucket by at most Rate.
LEMMA RefillStep ==
    ASSUME NEW b, NEW t \in Nat, b.tokens \in Nat, b.tokens <= Capacity,
           b.updated \in Nat, b.updated <= t
    PROVE  Refilled(b, t + 1) <= Refilled(b, t) + Rate
<1>1. t - b.updated \in Nat /\ (t + 1) - b.updated = (t - b.updated) + 1
    OBVIOUS
<1>2. /\ (t - b.updated) * Rate \in Nat
      /\ ((t + 1) - b.updated) * Rate = (t - b.updated) * Rate + Rate
    BY <1>1, Constants, Products
<1>. QED BY <1>2, Constants DEF Refilled

\* A bucket that was just brought up to date holds what it holds.
LEMMA RefillNow ==
    ASSUME NEW b, NEW t \in Nat, b.tokens \in Nat, b.tokens <= Capacity, b.updated = t
    PROVE  Refilled(b, t) = b.tokens
<1>1. (t - b.updated) * Rate = 0
    BY Constants
<1>. QED BY <1>1, Constants DEF Refilled
-----------------------------------------------------------------------------
LEMMA InitInv == Init => IInv
<1>. SUFFICES ASSUME Init PROVE IInv
    OBVIOUS
<1>1. TypeOK
    BY DEF Init, TypeOK
<1>2. ASSUME NEW k \in Key
      PROVE  admitted[k] * TicksPerSec + Level(k) <= Capacity + (now - mark[k]) * Rate
    <2>1. admitted[k] * TicksPerSec = 0 /\ (now - mark[k]) * Rate = 0
        BY Constants DEF Init
    <2>2. Level(k) \in Nat /\ Level(k) <= Capacity
        BY <1>1, BucketType, RefillType DEF Level
    <2>. QED BY <2>1, <2>2, Constants
<1>. QED BY <1>1, <1>2 DEF IInv, TokenBalance

LEMMA TickInv == IInv /\ Tick => IInv'
<1>. SUFFICES ASSUME IInv, Tick PROVE IInv'
    OBVIOUS
<1>1. TypeOK'
    BY Constants DEF IInv, TypeOK, Tick, Capacity
<1>2. ASSUME NEW k \in Key
      PROVE  (admitted[k] * TicksPerSec + Level(k) <= Capacity + (now - mark[k]) * Rate)'
    <2>1. now \in Nat /\ mark[k] \in Nat /\ mark[k] <= now /\ admitted[k] \in Nat
        BY DEF IInv, TypeOK
    <2>2. now' = now + 1 /\ mark' = mark /\ admitted' = admitted /\ buckets' = buckets
        BY DEF Tick
    <2>3. admitted[k] * TicksPerSec \in Nat
        BY <2>1, Constants, Products
    <2>4. (now' - mark[k]) * Rate = (now - mark[k]) * Rate + Rate
        <3>1. now - mark[k] \in Nat /\ now' - mark[k] = (now - mark[k]) + 1
            BY <2>1, <2>2
        <3>. QED BY <3>1, Constants, Products
    <2>5. (now - mark[k]) * Rate \in Nat
        BY <2>1, Constants, Products
    <2>6. Level(k)' <= Level(k) + Rate /\ Level(k) \in Nat /\ Level(k)' \in Nat
        <3>1. CASE k \in DOMAIN buckets
            <4>1. Level(k) = Refilled(buckets[k], now) /\ Level(k)' = Refilled(buckets[k], now + 1)
                BY <3>1, <2>2 DEF Level, Bucket, Refilled, Capacity
            <4>2. /\ buckets[k].tokens \in Nat /\ buckets[k].tokens <= Capacity
                  /\ buckets[k].updated \in Nat /\ buckets[k].updated <= now
                BY <3>1 DEF IInv, TypeOK
            <4>3. now + 1 \in Nat /\ buckets[k].updated <= now + 1
                BY <2>1, <4>2
            <4>. QED BY <4>1, <4>2, <4>3, <2>1, RefillStep, RefillType
        <3>2. CASE k \notin DOMAIN buckets
            <4>1. /\ Level(k) = Refilled([tokens |-> Capacity, updated |-> now], now)
                  /\ Level(k)' = Refilled([tokens |-> Capacity, updated |-> now'], now')
                BY <3>2, <2>2 DEF Level, Bucket, Refilled, Capacity
            <4>2. Level(k) = Capacity /\ Level(k)' = Capacity
                BY <4>1, <2>1, <2>2, Constants, RefillNow
            <4>. QED BY <4>2, Constants
        <3>. QED BY <3>1, <3>2
    <2>7. admitted[k] * TicksPerSec + Level(k) <= Capacity + (now - mark[k]) * Rate
        BY DEF IInv, TokenBalance
    <2>8. Capacity' = Capacity
        BY DEF Capacity
    <2>9. admitted[k] * TicksPerSec + Level(k)' <= Capacity + (now' - mark[k]) * Rate
        BY <2>3, <2>4, <2>5, <2>6, <2>7, Constants
    <2>. QED BY <2>2, <2>8, <2>9
<1>. QED BY <1>1, <1>2 DEF IInv, TokenBalance

LEMMA LimitedInv ==
    ASSUME IInv, NEW tenant \in Tenant \cup {None}, NEW host \in Host, NEW path \in Path,
           Limited(tenant, host, path)
    PROVE  IInv'
<1> DEFINE c == ClientKey(tenant, host)
           left == Refilled(Bucket(c), now)
           allowed == left >= TicksPerSec
           after == IF allowed THEN left - TicksPerSec ELSE left
<1>1. c \in Key
    BY KeyOfClient
<1>2. left \in Nat /\ left <= Capacity /\ now \in Nat
    BY <1>1, BucketType, RefillType DEF IInv
<1>3. after \in Nat /\ after <= Capacity
    BY <1>2, Constants
<1>4. /\ buckets' = [d \in DOMAIN buckets \cup {c} |->
                       IF d = c THEN [tokens |-> after, updated |-> now] ELSE buckets[d]]
      /\ admitted' = [admitted EXCEPT ![c] = @ + (IF allowed THEN 1 ELSE 0)]
      /\ reply' \in {200, 429}
      /\ now' = now /\ mark' = mark
    BY DEF Limited
<1> HIDE DEF c, left, allowed, after
<1>5. TypeOK'
    <2>1. DOMAIN buckets' \subseteq Key
        BY <1>1, <1>4 DEF IInv, TypeOK
    <2>2. ASSUME NEW d \in DOMAIN buckets'
          PROVE  /\ buckets'[d] \in [tokens: Nat, updated: Nat]
                 /\ buckets'[d].tokens <= Capacity /\ buckets'[d].updated <= now'
        BY <1>2, <1>3, <1>4, <2>2 DEF IInv, TypeOK
    <2>3. admitted' \in [Key -> Nat]
        <3>1. (IF allowed THEN 1 ELSE 0) \in Nat
            OBVIOUS
        <3>. QED BY <1>1, <1>4, <3>1 DEF IInv, TypeOK
    <2>4. mark' \in [Key -> Nat] /\ (\A k \in Key : mark'[k] <= now') /\ now' \in Nat
        BY <1>4 DEF IInv, TypeOK
    <2>. QED BY <1>4, <2>1, <2>2, <2>3, <2>4, ZenonT(30) DEF TypeOK, Capacity
<1>6. ASSUME NEW k \in Key
      PROVE  admitted'[k] * TicksPerSec + Level(k)' <= Capacity + (now' - mark'[k]) * Rate
    <2>1. admitted[k] * TicksPerSec + Level(k) <= Capacity + (now - mark[k]) * Rate
        BY DEF IInv, TokenBalance
    <2>2. CASE k # c
        <3>1. admitted'[k] = admitted[k]
            BY <1>4, <2>2 DEF IInv, TypeOK
        <3>2. Level(k)' = Level(k)
            BY <1>4, <2>2 DEF Level, Refilled, Bucket, Capacity
        <3>. QED BY <1>4, <2>1, <3>1, <3>2
    <2>3. CASE k = c
        <3>1. Level(k)' = after
            <4>1. Level(k)' = Refilled([tokens |-> after, updated |-> now], now)
                BY <1>4, <2>3 DEF Level, Refilled, Bucket, Capacity
            <4>. QED BY <4>1, <1>2, <1>3, RefillNow
        <3>2. Level(k) = left
            BY <2>3 DEF Level, left
        <3>3. admitted[k] \in Nat /\ admitted[k] * TicksPerSec \in Nat
            BY Constants, Products DEF IInv, TypeOK
        <3>4. /\ now - mark[k] \in Nat /\ (now - mark[k]) * Rate \in Nat
              /\ now' = now /\ mark'[k] = mark[k]
            <4>1. now - mark[k] \in Nat
                BY <1>2 DEF IInv, TypeOK
            <4>. QED BY <1>4, <4>1, Constants, Products
        <3>5. CASE allowed
            <4>1. after = left - TicksPerSec
                BY <3>5 DEF after
            <4>2. admitted'[k] = admitted[k] + 1
                BY <1>4, <2>3, <3>5 DEF IInv, TypeOK
            <4>3. admitted'[k] * TicksPerSec = admitted[k] * TicksPerSec + TicksPerSec
                BY <3>3, <4>2, Constants, Products
            <4>. QED BY <1>2, <2>1, <3>1, <3>2, <3>3, <3>4, <4>1, <4>3, Constants
        <3>6. CASE ~allowed
            <4>1. after = left /\ admitted'[k] = admitted[k]
                BY <1>4, <2>3, <3>3, <3>6 DEF IInv, TypeOK, after
            <4>. QED BY <2>1, <3>1, <3>2, <3>4, <4>1
        <3>. QED BY <3>5, <3>6
    <2>. QED BY <2>2, <2>3
<1>. QED BY <1>5, <1>6 DEF IInv, TokenBalance, Capacity

LEMMA ExemptInv ==
    ASSUME IInv, NEW path \in Path, Exempt(path)
    PROVE  IInv'
<1>1. TypeOK'
    BY DEF IInv, TypeOK, Exempt, Capacity
<1>2. \A k \in Key : Level(k)' = Level(k)
    BY DEF Exempt, Level, Refilled, Bucket, Capacity
<1>. QED BY <1>1, <1>2 DEF IInv, TokenBalance, Exempt, Capacity

LEMMA WatchInv ==
    ASSUME IInv, NEW w \in Key, Watch(w)
    PROVE  IInv'
<1>1. TypeOK'
    BY DEF IInv, TypeOK, Watch, Capacity
<1>2. ASSUME NEW k \in Key
      PROVE  admitted'[k] * TicksPerSec + Level(k)' <= Capacity + (now' - mark'[k]) * Rate
    <2>1. Level(k)' = Level(k) /\ now' = now
        BY DEF Watch, Level, Refilled, Bucket, Capacity
    <2>2. CASE k # w
        BY <2>1, <2>2 DEF IInv, TypeOK, TokenBalance, Watch
    <2>3. CASE k = w
        <3>1. admitted'[k] = 0 /\ mark'[k] = now /\ now \in Nat
            BY <2>3 DEF IInv, TypeOK, Watch
        <3>2. admitted'[k] * TicksPerSec = 0 /\ (now' - mark'[k]) * Rate = 0
            BY <2>1, <3>1, Constants
        <3>3. Level(k) \in Nat /\ Level(k) <= Capacity
            BY BucketType, RefillType DEF IInv, Level
        <3>. QED BY <2>1, <3>2, <3>3, Constants
    <2>. QED BY <2>2, <2>3
<1>. QED BY <1>1, <1>2 DEF IInv, TokenBalance, Capacity

LEMMA StutterInv == IInv /\ UNCHANGED vars => IInv'
BY DEF IInv, TypeOK, TokenBalance, Level, Refilled, Bucket, Capacity, vars

\* The invariant of the limiter is inductive.
LEMMA InvInductive == Spec => []IInv
<1>1. Init => IInv
    BY InitInv
<1>2. IInv /\ [Next]_vars => IInv'
    <2>. SUFFICES ASSUME IInv, [Next]_vars PROVE IInv'
        OBVIOUS
    <2>1. ASSUME NEW tenant \in Tenant \cup {None}, NEW host \in Host, NEW path \in Path,
                 Limited(tenant, host, path) \/ Exempt(path)
          PROVE  IInv'
        BY <2>1, LimitedInv, ExemptInv
    <2>2. CASE Tick
        BY <2>2, TickInv
    <2>3. ASSUME NEW k \in Key, Watch(k) PROVE IInv'
        BY <2>3, WatchInv
    <2>4. CASE UNCHANGED vars
        BY <2>4, StutterInv
    <2>. QED BY <2>1, <2>2, <2>3, <2>4 DEF Next
<1>. QED BY <1>1, <1>2, PTL DEF Spec

\* Buckets never hold more than their capacity nor are ahead of the clock.
THEOREM LimiterTypeCorrect == Spec => []TypeOK
<1>1. IInv => TypeOK
    BY DEF IInv
<1>. QED BY <1>1, InvInductive, PTL

\* No window of time, wherever it starts, admits more requests of a key than a
\* full bucket and what that time refills.
THEOREM WindowsAreBounded == Spec => []WindowBound
<1>1. IInv => WindowBound
    <2>. SUFFICES ASSUME IInv, NEW k \in Key
                  PROVE  admitted[k] * TicksPerSec <= Capacity + (now - mark[k]) * Rate
        BY DEF WindowBound
    <2>1. Level(k) \in Nat
        BY BucketType, RefillType DEF IInv, Level
    <2>2. admitted[k] * TicksPerSec \in Nat
        BY Constants, Products DEF IInv, TypeOK
    <2>3. (now - mark[k]) * Rate \in Nat
        <3>1. now - mark[k] \in Nat
            BY DEF IInv, TypeOK
        <3>. QED BY <3>1, Constants, Products
    <2>. QED BY <2>1, <2>2, <2>3, Constants DEF IInv, TokenBalance
<1>. QED BY <1>1, InvInductive, PTL

LEMMA ProductGrows ==
    ASSUME NEW a \in Nat, NEW b \in Nat, NEW d \in Nat, a >= d
    PROVE  a * b >= d * b
<1>1. a - d \in Nat /\ (a - d) * b \in Nat
    BY Products
<1>2. a * b = d * b + (a - d) * b
    <2>1. a = d + (a - d)
        OBVIOUS
    <2>. QED BY SMT
<1>. QED BY <1>1, <1>2, Products

\* A request is rejected only if its key was asked for within the last second:
\* the one second of Retry-After is enough for any rate.
THEOREM RetryAfterSuffices == Spec => RetryAfterIsEnough
<1>1. ASSUME TypeOK, NEW tenant \in Tenant \cup {None}, NEW host \in Host, NEW path \in Path,
             Limited(tenant, host, path), reply' = 429
      PROVE  LET k == ClientKey(tenant, host)
             IN  k \in DOMAIN buckets /\ now - buckets[k].updated < TicksPerSec
    <2> DEFINE k == ClientKey(tenant, host)
    <2>1. k \in Key
        BY KeyOfClient
    <2>2. ~(Refilled(Bucket(k), now) >= TicksPerSec)
        BY <1>1 DEF Limited
    <2> HIDE DEF k
    <2>3. k \in DOMAIN buckets
        <3>1. SUFFICES ASSUME k \notin DOMAIN buckets PROVE FALSE
            OBVIOUS
        <3>2. Bucket(k) = [tokens |-> Capacity, updated |-> now]
            BY <3>1 DEF Bucket
        <3>3. Refilled(Bucket(k), now) = Capacity
            BY <1>1, <2>1, <3>2, BucketType, RefillNow
        <3>. QED BY <2>2, <3>3, Constants
    <2>4. now - buckets[k].updated < TicksPerSec
        <3>1. /\ Bucket(k) = buckets[k]
              /\ buckets[k].tokens \in Nat /\ buckets[k].updated \in Nat
              /\ buckets[k].updated <= now /\ now \in Nat
            BY <1>1, <2>1, <2>3, BucketType DEF Bucket
        <3>2. SUFFICES ASSUME now - buckets[k].updated >= TicksPerSec PROVE FALSE
            BY <3>1, Constants
        <3>3. now - buckets[k].updated \in Nat
            BY <3>1
        <3>4. (now - buckets[k].updated) * Rate >= TicksPerSec * Rate
            BY <3>2, <3>3, Constants, ProductGrows
        <3>5. TicksPerSec * Rate = Capacity /\ (now - buckets[k].updated) * Rate \in Nat
            BY <3>3, Constants, Products DEF Capacity
        <3>6. Refilled(Bucket(k), now) = Capacity
            BY <3>1, <3>4, <3>5, Constants DEF Refilled
        <3>. QED BY <2>2, <3>6, Constants
    <2>. QED BY <2>3, <2>4 DEF k
<1>2. TypeOK /\ [Next]_vars =>
        [\A tenant \in Tenant \cup {None}, host \in Host, path \in Path :
            Limited(tenant, host, path) /\ reply' = 429 =>
                LET k == ClientKey(tenant, host)
                IN  k \in DOMAIN buckets /\ now - buckets[k].updated < TicksPerSec]_vars
    BY <1>1
<1>. QED BY <1>2, LimiterTypeCorrect, PTL DEF Spec, RetryAfterIsEnough
=============================================================================
