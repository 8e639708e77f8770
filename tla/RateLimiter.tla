---------------------------- MODULE RateLimiter ----------------------------
(***************************************************************************)
(* RateLimitMiddleware: one token bucket per client key, refilled lazily.  *)
(* A second has TicksPerSec ticks.  Tokens are counted in TicksPerSec-ths, *)
(* so that a tick refills Rate units and a request costs TicksPerSec, and  *)
(* all arithmetic is exact (the code's floats differ by rounding only).    *)
(***************************************************************************)
EXTENDS Integers

CONSTANTS
    Tenant,         \* values of the X-Tenant-Id header
    Host,           \* client addresses
    ExemptPath,     \* exempt_paths
    OtherPath,      \* every other path
    Rate,           \* rate_limit_rps
    TicksPerSec,
    Horizon,        \* bound on the clock
    None

ASSUME RateAssumption ==
    /\ Rate \in Nat \ {0} /\ TicksPerSec \in Nat \ {0} /\ Horizon \in Nat
    /\ None \notin Tenant
    /\ ExemptPath \cap OtherPath = {}

VARIABLES
    now,        \* time.monotonic()
    buckets,    \* _buckets: client key -> tokens and time of the last refill
    reply,      \* the status of the last reply, 200 or 429
    mark,       \* observer: the window it watches for each key starts here
    admitted    \* observer: requests of the key admitted since mark

vars == <<now, buckets, reply, mark, admitted>>

Key == [tenant: Tenant, host: {None}] \cup [tenant: {None}, host: Host]
Path == ExemptPath \cup OtherPath

\* The tenant header when there is one, else the client's address.
ClientKey(tenant, host) ==
    IF tenant # None THEN [tenant |-> tenant, host |-> None]
                     ELSE [tenant |-> None, host |-> host]

\* A capacity that forgets the unit tokens are counted in.
CapacityUnscaled == Rate

Capacity == Rate * TicksPerSec

\* A refill without the cap.
RefilledUncapped(b, t) == b.tokens + (t - b.updated) * Rate

\* min(capacity, tokens + elapsed * refill_per_sec), at time t
Refilled(b, t) ==
    IF b.tokens + (t - b.updated) * Rate < Capacity
    THEN b.tokens + (t - b.updated) * Rate ELSE Capacity

Bucket(k) ==
    IF k \in DOMAIN buckets THEN buckets[k] ELSE [tokens |-> Capacity, updated |-> now]

Init ==
    /\ now = 0
    /\ buckets = [k \in {} |-> {}]
    /\ reply = None
    /\ mark = [k \in Key |-> 0]
    /\ admitted = [k \in Key |-> 0]

\* dispatch() of a request that is not exempt.
Limited(tenant, host, path) ==
    LET k == ClientKey(tenant, host)
        tokens == Refilled(Bucket(k), now)
        allowed == tokens >= TicksPerSec
    IN  /\ path \in OtherPath
        /\ buckets' = [c \in DOMAIN buckets \cup {k} |->
                         IF c = k
                         THEN [tokens |-> IF allowed THEN tokens - TicksPerSec ELSE tokens,
                               updated |-> now]
                         ELSE buckets[c]]
        /\ reply' = IF allowed THEN 200 ELSE 429
        /\ admitted' = [admitted EXCEPT ![k] = @ + (IF allowed THEN 1 ELSE 0)]
        /\ UNCHANGED <<now, mark>>

\* An exempt path is served whatever the bucket holds.
Exempt(path) ==
    /\ path \in ExemptPath
    /\ reply' = 200
    /\ UNCHANGED <<now, buckets, mark, admitted>>

Tick ==
    /\ now < Horizon
    /\ now' = now + 1
    /\ UNCHANGED <<buckets, reply, mark, admitted>>

\* The observer starts to watch a window of key k now.
Watch(k) ==
    /\ mark' = [mark EXCEPT ![k] = now]
    /\ admitted' = [admitted EXCEPT ![k] = 0]
    /\ UNCHANGED <<now, buckets, reply>>

Next ==
    \/ \E tenant \in Tenant \cup {None}, host \in Host, path \in Path :
          Limited(tenant, host, path) \/ Exempt(path)
    \/ Tick
    \/ \E k \in Key : Watch(k)

Spec == Init /\ [][Next]_vars
-----------------------------------------------------------------------------
TypeOK ==
    /\ now \in Nat
    /\ DOMAIN buckets \subseteq Key
    /\ \A k \in DOMAIN buckets : /\ buckets[k] \in [tokens: Nat, updated: Nat]
                                 /\ buckets[k].tokens <= Capacity
                                 /\ buckets[k].updated <= now
    /\ reply \in {200, 429, None}
    /\ mark \in [Key -> Nat] /\ \A k \in Key : mark[k] <= now
    /\ admitted \in [Key -> Nat]

\* In every window, wherever it starts, a client key is admitted at most a
\* full bucket and what the elapsed time refills: no interleaving of requests,
\* idle times and lazy refills gains it more.
WindowBound ==
    \A k \in Key :
        admitted[k] * TicksPerSec <= Capacity + (now - mark[k]) * Rate

\* The Retry-After of a 429 is one second, and that is enough: a request is
\* rejected only if its key was asked for less than a second before.
RetryAfterIsEnough ==
    [][\A tenant \in Tenant \cup {None}, host \in Host, path \in Path :
          Limited(tenant, host, path) /\ reply' = 429 =>
              LET k == ClientKey(tenant, host)
              IN  k \in DOMAIN buckets /\ now - buckets[k].updated < TicksPerSec]_vars
=============================================================================
