--------------------------- MODULE TtlClassifier ---------------------------
(***************************************************************************)
(* TtlClassifier and the TTL policy the proxy is built with: the freshness *)
(* class of a prompt, the seconds an answer to it may be served, and the   *)
(* tags its entry carries.                                                 *)
(***************************************************************************)
EXTENDS Integers, Prompts

CONSTANTS LongTtl, ShortTtl     \* default_ttl_seconds, short_ttl_seconds

ASSUME TtlAssumption == LongTtl \in Int /\ ShortTtl \in Int

TtlClass == {"no_cache", "short", "long"}

\* Volatile patterns win over time-sensitive keywords; every other prompt,
\* whether it matches a stable-knowledge keyword or not, is long-lived.
Classify(p) ==
    IF "volatile" \in Traits[p] THEN "no_cache"
    ELSE IF "time_sensitive" \in Traits[p] THEN "short"
    ELSE "long"

TtlSeconds(p) == [no_cache |-> 0, short |-> ShortTtl, long |-> LongTtl][Classify(p)]

\* TtlDecision.tag of each class.
TtlTag == [no_cache |-> "ttl:no_cache", short |-> "ttl:short", long |-> "ttl:long"]

\* build_ttl_policy: the caller's cache_tags followed by the classifier's tag.
PolicyTags(p, cacheTags) == cacheTags \cup {TtlTag[Classify(p)]}
=============================================================================
