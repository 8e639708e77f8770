---------------------------- MODULE MemoryStore ----------------------------
(***************************************************************************)
(* InMemoryVectorStore: a dictionary of cache entries searched by exact    *)
(* cosine similarity.  Its methods never await anything, so each one is    *)
(* atomic to the other coroutines of the process.  An entry keeps its age  *)
(* instead of its creation time; ages stop growing once past the TTL.      *)
(* Expired entries are skipped by search and stay in the dictionary.       *)
(***************************************************************************)
EXTENDS Integers, FiniteSets

CONSTANTS
    Similarity,     \* Similarity[p][q]: cosine of prompts p and q, in thousandths
    Unset             \* a filter dimension left at None

VARIABLE entries    \* _entries: entry id -> cache entry

StoreInit == entries = [i \in {} |-> {}]

\* An expiry that comes one unit late.
IsExpiredLate(e) == e.ttl <= 0 \/ e.age > e.ttl + 1

\* ttl_seconds <= 0 or age_seconds > ttl_seconds
IsExpired(e) == e.ttl <= 0 \/ e.age > e.ttl

\* A search that forgets to skip the expired entries.
EntriesOfAnyAge(namespace) == {i \in DOMAIN entries : entries[i].namespace = namespace}

LiveEntries(namespace) ==
    {i \in DOMAIN entries : entries[i].namespace = namespace /\ ~IsExpired(entries[i])}

\* What matches[0] of search(namespace, embed(prompt)) may be: top_k sorts by
\* score alone, so any live entry of the highest score can come first.
Best(namespace, prompt) ==
    LET live == LiveEntries(namespace)
        score(i) == Similarity[prompt][entries[i].prompt]
    IN  {i \in live : \A j \in live : score(j) <= score(i)}

Upsert(id, entry) ==
    entries' = [i \in DOMAIN entries \cup {id} |-> IF i = id THEN entry ELSE entries[i]]

\* A hit count that marks the entry as hit and does not accumulate.
MarkHit(id) ==
    entries' = IF id \in DOMAIN entries THEN [entries EXCEPT ![id].hits = 1] ELSE entries

IncrementHit(id) ==
    entries' = IF id \in DOMAIN entries
               THEN [entries EXCEPT ![id].hits = @ + 1]
               ELSE entries

\* A filter is [model, system_hash, tag]; every dimension that is given must match.
Matches(e, f) ==
    /\ f.model \in {Unset, e.model}
    /\ f.system_hash \in {Unset, e.system_hash}
    /\ f.tag = Unset \/ f.tag \in e.tags

Without(ids) == [i \in DOMAIN entries \ ids |-> entries[i]]

\* With no dimension given nothing is deleted.
Delete(f) ==
    entries' = IF f.model = Unset /\ f.system_hash = Unset /\ f.tag = Unset
               THEN entries
               ELSE Without({i \in DOMAIN entries : Matches(entries[i], f)})

Clear == entries' = Without(DOMAIN entries)

\* One unit of wall-clock time passes.
Tick ==
    /\ \E i \in DOMAIN entries : ~IsExpired(entries[i])
    /\ entries' = [i \in DOMAIN entries |->
                     IF IsExpired(entries[i]) THEN entries[i]
                     ELSE [entries[i] EXCEPT !.age = @ + 1]]
=============================================================================
