-------------------------- MODULE RedisVectorStore --------------------------
(***************************************************************************)
(* RedisVectorStore at the grain of Redis commands.  Each command is       *)
(* atomic, a method is not: between two commands of one coroutine come the *)
(* commands of the other coroutines and replicas, the expiry of keys, and  *)
(* the cancellation or crash of the process that was going to send the     *)
(* next one.  Time is counted in units of which entry i lives Ttl[i].      *)
(***************************************************************************)
EXTENDS Integers, FiniteSets

CONSTANTS
    Entry,      \* entry ids, each upserted by one coroutine of its own
    Reader,     \* lookups
    Purger,     \* calls of delete and clear
    Target,     \* Target[p]: the entries the query of purger p matches
    Clearer,    \* the purgers whose query is "*"
    Ttl,        \* Ttl[i]: ttl_seconds of entry i, 0 one that is never given an expiry
    PageLimit,  \* the 10_000 of _delete_matching
    NoTtl,      \* a key without expiry
    None

VARIABLES
    key,        \* the hashes in Redis: entry id -> indexed fields present, hit_count, expiry
    writer,     \* progress of each upsert
    reader,     \* progress of each lookup: found entry, hit_count it has read
    purger      \* progress of each purge: the page it has read; found is history, what
                \* its query matched, which no code keeps

ASSUME RedisAssumption ==
    /\ Target \in [Purger -> SUBSET Entry]
    /\ Clearer \subseteq Purger /\ \A p \in Clearer : Target[p] = Entry
    /\ Ttl \in [Entry -> Nat] /\ PageLimit \in Nat \ {0}
    /\ NoTtl \notin Nat /\ None \notin Entry
    /\ IsFiniteSet(Entry) /\ IsFiniteSet(Reader)

vars == <<key, writer, reader, purger>>

Init ==
    /\ key = [i \in {} |-> {}]
    /\ writer = [i \in Entry |-> "new"]
    /\ reader = [r \in Reader |-> [at |-> "search", entry |-> None, hits |-> 0]]
    /\ purger = [p \in Purger |-> [at |-> "query", found |-> {}, page |-> {}]]

Exists(i) == i \in DOMAIN key
Put(i, hash) == key' = [j \in DOMAIN key \cup {i} |-> IF j = i THEN hash ELSE key[j]]
Drop(ids) == key' = [j \in DOMAIN key \ ids |-> key[j]]

\* A hash is in the index, under its namespace, tags and embedding, when it
\* has those fields.
Indexed == {i \in DOMAIN key : key[i].indexed}

\* upsert: HSET of the whole mapping, which leaves the key without expiry ...
HSet(i) ==
    /\ writer[i] = "new"
    /\ writer' = [writer EXCEPT ![i] = "hset"]
    /\ Put(i, [indexed |-> TRUE, hits |-> 0, ttl |-> NoTtl])
    /\ UNCHANGED <<reader, purger>>

\* An expiry that is sent rounded up.
ExpireRoundedUp(i) ==
    /\ writer[i] = "hset"
    /\ writer' = [writer EXCEPT ![i] = "stored"]
    /\ IF Exists(i) /\ Ttl[i] > 0 THEN Put(i, [key[i] EXCEPT !.ttl = Ttl[i] + 1])
       ELSE UNCHANGED key
    /\ UNCHANGED <<reader, purger>>

\* ... then EXPIRE, if the entry has a time to live; it does nothing to a key
\* that has been deleted meanwhile.
Expire(i) ==
    /\ writer[i] = "hset"
    /\ writer' = [writer EXCEPT ![i] = "stored"]
    /\ IF Exists(i) /\ Ttl[i] > 0 THEN Put(i, [key[i] EXCEPT !.ttl = Ttl[i]])
       ELSE UNCHANGED key
    /\ UNCHANGED <<reader, purger>>

\* The coroutine is cancelled, the connection is lost, or the process dies.
UpsertDies(i) ==
    /\ writer[i] \in {"new", "hset"}
    /\ writer' = [writer EXCEPT ![i] = IF @ = "new" THEN "failed" ELSE "abandoned"]
    /\ UNCHANGED <<key, reader, purger>>

\* search: the KNN query answers with indexed entries; this one is the best.
Search(r, i) ==
    /\ reader[r].at = "search" /\ i \in Indexed
    /\ reader' = [reader EXCEPT ![r] = [at |-> "get", entry |-> i, hits |-> 0]]
    /\ UNCHANGED <<key, writer, purger>>

\* A count that is incremented when it is read and again when it is written.
GetHitsCounted(r) ==
    LET i == reader[r].entry
    IN  /\ reader[r].at = "get"
        /\ reader' = [reader EXCEPT ![r] =
              IF Exists(i) THEN [at |-> "set", entry |-> i, hits |-> key[i].hits + 1]
                           ELSE [at |-> "gone", entry |-> i, hits |-> 0]]
        /\ UNCHANGED <<key, writer, purger>>

\* increment_hit: HGET of the document, gone if the key is ...
GetHits(r) ==
    LET i == reader[r].entry
    IN  /\ reader[r].at = "get"
        /\ reader' = [reader EXCEPT ![r] =
              IF Exists(i) THEN [at |-> "set", entry |-> i, hits |-> key[i].hits]
                           ELSE [at |-> "gone", entry |-> i, hits |-> 0]]
        /\ UNCHANGED <<key, writer, purger>>

\* A count that is saved by writing the whole entry anew.
SetHitsRewrites(r) ==
    /\ reader[r].at = "set"
    /\ reader' = [reader EXCEPT ![r].at = "counted"]
    /\ Put(reader[r].entry, [indexed |-> TRUE, hits |-> reader[r].hits + 1, ttl |-> NoTtl])
    /\ UNCHANGED <<writer, purger>>

\* A count that renews the expiry, as a least-recently-used cache would.
SetHitsRenews(r) ==
    LET i == reader[r].entry
    IN  /\ reader[r].at = "set"
        /\ reader' = [reader EXCEPT ![r].at = "counted"]
        /\ IF Exists(i) THEN Put(i, [key[i] EXCEPT !.hits = reader[r].hits + 1, !.ttl = Ttl[i]])
           ELSE UNCHANGED key
        /\ UNCHANGED <<writer, purger>>

\* ... then HSET of the document alone, which creates the key if it has gone.
SetHits(r) ==
    LET i == reader[r].entry
    IN  /\ reader[r].at = "set"
        /\ reader' = [reader EXCEPT ![r].at = "counted"]
        /\ Put(i, IF Exists(i) THEN [key[i] EXCEPT !.hits = reader[r].hits + 1]
                  ELSE [indexed |-> FALSE, hits |-> reader[r].hits + 1, ttl |-> NoTtl])
        /\ UNCHANGED <<writer, purger>>

LookupDies(r) ==
    /\ reader[r].at \in {"get", "set"}
    /\ reader' = [reader EXCEPT ![r].at = "dead"]
    /\ UNCHANGED <<key, writer, purger>>

\* Whether "*" also matches a hash without any indexed field is RediSearch's
\* business: both answers are possible here.
Matched(p) == {Target[p] \cap Indexed} \cup (IF p \in Clearer THEN {DOMAIN key} ELSE {})

\* _delete_matching: one page of the ids that match ...
Query(p) ==
    /\ purger[p].at = "query"
    /\ \E found \in Matched(p) : \E page \in SUBSET found :
          /\ Cardinality(page) = IF Cardinality(found) < PageLimit
                                 THEN Cardinality(found) ELSE PageLimit
          /\ purger' = [purger EXCEPT ![p] =
                [at |-> IF page = {} THEN "done" ELSE "del", found |-> found, page |-> page]]
    /\ UNCHANGED <<key, writer, reader>>

\* ... then one DEL of the keys on it; the result is the size of the page.
Del(p) ==
    /\ purger[p].at = "del"
    /\ Drop(purger[p].page)
    /\ purger' = [purger EXCEPT ![p].at = "done"]
    /\ UNCHANGED <<writer, reader>>

PurgeDies(p) ==
    /\ purger[p].at = "del"
    /\ purger' = [purger EXCEPT ![p].at = "dead"]
    /\ UNCHANGED <<key, writer, reader>>

\* A unit of time passes; Redis removes the keys whose time is up.
Tick ==
    LET up == {i \in DOMAIN key : key[i].ttl = 1}
    IN  /\ \E i \in DOMAIN key : key[i].ttl # NoTtl
        /\ key' = [i \in DOMAIN key \ up |->
                     IF key[i].ttl = NoTtl THEN key[i] ELSE [key[i] EXCEPT !.ttl = @ - 1]]
        /\ UNCHANGED <<writer, reader, purger>>

Next ==
    \/ \E i \in Entry : HSet(i) \/ Expire(i) \/ UpsertDies(i)
    \/ \E r \in Reader : \/ \E i \in Entry : Search(r, i)
                         \/ GetHits(r) \/ SetHits(r) \/ LookupDies(r)
    \/ \E p \in Purger : Query(p) \/ Del(p) \/ PurgeDies(p)
    \/ Tick

Spec == Init /\ [][Next]_vars

\* Time passes, whatever the clients do.
FairSpec == Spec /\ WF_vars(Tick)
-----------------------------------------------------------------------------
TypeOK ==
    /\ DOMAIN key \subseteq Entry
    /\ \A i \in DOMAIN key :
          key[i] \in [indexed: BOOLEAN, hits: Nat, ttl: (1..Ttl[i]) \cup {NoTtl}]
    /\ writer \in [Entry -> {"new", "hset", "stored", "failed", "abandoned"}]
    /\ reader \in [Reader -> [at: {"search", "get", "set", "gone", "counted", "dead"},
                              entry: Entry \cup {None}, hits: Nat]]
    /\ purger \in [Purger -> [at: {"query", "del", "done", "dead"},
                              found: SUBSET Entry, page: SUBSET Entry]]

\* The contract of the interface survives the races between commands: a hit
\* count written to a key that has just expired or been purged brings the key
\* back, but not as an entry a search can return.
HasBeenSet == {i \in Entry : writer[i] \in {"hset", "stored", "abandoned"}}
Contract == INSTANCE VectorStore WITH
    Id <- Entry, Reader <- Reader, NoEntry <- None,
    visible <- Indexed,
    retired <- HasBeenSet \ Indexed,
    found <- [r \in Reader |-> reader[r].entry]
ImplementsVectorStore == Contract!Spec

\* Counting a hit never prolongs an entry: an expiry, once set, only runs down.
ExpiryOnlyRunsDown ==
    [][\A i \in DOMAIN key \cap DOMAIN key' :
          key[i].ttl # NoTtl => key'[i].ttl # NoTtl /\ key'[i].ttl <= key[i].ttl]_vars

\* An entry with a time to live that searches can return has no expiry only while
\* its upsert is under way or after it died half-way; a key without the indexed
\* fields was left by a lookup whose entry went away under it.
UnexpiringIsExplained ==
    \A i \in DOMAIN key :
        /\ key[i].indexed /\ key[i].ttl = NoTtl /\ Ttl[i] > 0 =>
              writer[i] \in {"hset", "abandoned"}
        /\ ~key[i].indexed => \E r \in Reader : reader[r].entry = i /\ reader[r].at = "counted"

\* hit_count never exceeds the number of lookups that counted the entry.
HitsNotInflated ==
    \A i \in DOMAIN key :
        key[i].hits <= Cardinality({r \in Reader : reader[r].entry = i /\ reader[r].at = "counted"})

\* Once its upsert has returned, an entry with a time to live stops being served
\* some day, however often it is hit.
StoredEntryExpires ==
    \A i \in Entry : writer[i] = "stored" /\ Ttl[i] > 0 ~> i \notin Indexed
-----------------------------------------------------------------------------
\* "cache the successful response with a freshness-based TTL": no entry that
\* can be served is left without one once its upsert is over.
EveryEntryHasTtl ==
    \A i \in Indexed :
        Ttl[i] > 0 /\ writer[i] \in {"stored", "abandoned"} => key[i].ttl # NoTtl

\* "Delete every entry in the index": when clear has returned, no entry its query
\* found is left in the index (an id is upserted once, so none has come back).
ClearDeletesAll ==
    \A p \in Clearer : purger[p].at = "done" => purger[p].found \cap Indexed = {}
=============================================================================
