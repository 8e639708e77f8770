----------------------- MODULE RedisVectorStoreProofs -----------------------
(***************************************************************************)
(* The invariants of the Redis store, for any number of entries, lookups   *)
(* and purges, any page and any time to live, and the proof that it keeps  *)
(* the contract VectorStore although its methods are not atomic.           *)
(***************************************************************************)
EXTENDS RedisVectorStore, FiniteSetTheorems, TLAPS

Hash(i) == [indexed: BOOLEAN, hits: Nat, ttl: (1..Ttl[i]) \cup {NoTtl}]
Purge == [at: {"query", "del", "done", "dead"}, found: SUBSET Entry, page: SUBSET Entry]

\* The lookups that have counted their hit on an entry.
CountedOf(lookups, i) ==
    {r \in Reader : lookups[r].entry = i /\ lookups[r].at = "counted"}
Counted(i) == CountedOf(reader, i)

\* Nobody writes a key before its upsert does, and until EXPIRE has been sent
\* the key has no expiry.
WriterFirst ==
    \A i \in Entry :
        /\ writer[i] \in {"new", "failed"} => i \notin DOMAIN key
        /\ writer[i] = "hset" /\ i \in DOMAIN key => key[i].ttl = NoTtl

\* A lookup found nothing yet or an entry that had been stored, and the count it
\* is about to write counts lookups that have been counted.
ReaderSound ==
    \A r \in Reader :
        /\ reader[r].at = "search" <=> reader[r].entry = None
        /\ reader[r].at # "search" => reader[r].entry \in HasBeenSet
        /\ reader[r].at = "set" => reader[r].hits <= Cardinality(Counted(reader[r].entry))

IInv == TypeOK /\ WriterFirst /\ ReaderSound /\ UnexpiringIsExplained /\ HitsNotInflated
-----------------------------------------------------------------------------
LEMMA CountType ==
    \A S : S \subseteq Reader => IsFiniteSet(S) /\ Cardinality(S) \in Nat
BY RedisAssumption, FS_Subset, FS_CardinalityType

LEMMA CountOneMore ==
    \A S, r : S \subseteq Reader /\ r \in Reader \ S => Cardinality(S \cup {r}) = Cardinality(S) + 1
BY CountType, FS_AddElement

LEMMA InitInv == Init => IInv
<1>. SUFFICES ASSUME Init PROVE IInv
    OBVIOUS
<1>1. TypeOK
    BY RedisAssumption DEF Init, TypeOK
<1>2. WriterFirst /\ UnexpiringIsExplained /\ HitsNotInflated
    BY DEF Init, WriterFirst, UnexpiringIsExplained, HitsNotInflated
<1>3. ReaderSound
    BY DEF Init, ReaderSound
<1>. QED BY <1>1, <1>2, <1>3 DEF IInv

\* A hash that is written where it may be leaves the hashes well typed.
LEMMA PutType ==
    ASSUME TypeOK, NEW i \in Entry, NEW hash \in Hash(i), Put(i, hash)
    PROVE  /\ DOMAIN key' = DOMAIN key \cup {i}
           /\ key'[i] = hash
           /\ \A j \in DOMAIN key \ {i} : key'[j] = key[j]
           /\ DOMAIN key' \subseteq Entry
           /\ \A j \in DOMAIN key' : key'[j] \in Hash(j)
BY DEF TypeOK, Put, Hash
-----------------------------------------------------------------------------
(* The steps of an upsert. *)

LEMMA HSetInv == ASSUME IInv, NEW i \in Entry, HSet(i) PROVE IInv'
<1> DEFINE hash == [indexed |-> TRUE, hits |-> 0, ttl |-> NoTtl]
<1>1. /\ writer[i] = "new" /\ writer' = [writer EXCEPT ![i] = "hset"]
      /\ reader' = reader /\ purger' = purger /\ Put(i, hash) /\ hash \in Hash(i)
    BY DEF HSet, Hash
<1>2. /\ DOMAIN key' = DOMAIN key \cup {i} /\ key'[i] = hash
      /\ \A j \in DOMAIN key \ {i} : key'[j] = key[j]
      /\ DOMAIN key' \subseteq Entry /\ \A j \in DOMAIN key' : key'[j] \in Hash(j)
    BY <1>1, PutType DEF IInv
<1>3. i \notin DOMAIN key
    BY <1>1 DEF IInv, WriterFirst
<1>4. TypeOK'
    BY <1>1, <1>2 DEF IInv, TypeOK, Hash
<1>5. WriterFirst'
    BY <1>1, <1>2 DEF IInv, TypeOK, WriterFirst
<1>6. ReaderSound'
    BY <1>1 DEF IInv, TypeOK, ReaderSound, HasBeenSet, Counted
<1>7. UnexpiringIsExplained'
    BY <1>1, <1>2 DEF IInv, TypeOK, UnexpiringIsExplained
<1>8. HitsNotInflated'
    <2>1. \A j : Counted(j)' = Counted(j)
        BY <1>1 DEF Counted
    <2>2. \A j \in DOMAIN key' : key'[j].hits <= Cardinality(Counted(j))
        <3>1. key'[i].hits <= Cardinality(Counted(i))
            BY <1>2, CountType DEF Counted, CountedOf
        <3>. QED BY <3>1, <1>2 DEF IInv, HitsNotInflated, Counted, CountedOf
    <2>. QED BY <2>2, <1>1 DEF HitsNotInflated, Counted, CountedOf
<1>. QED BY <1>4, <1>5, <1>6, <1>7, <1>8 DEF IInv

LEMMA ExpireInv == ASSUME IInv, NEW i \in Entry, Expire(i) PROVE IInv'
<1>1. /\ writer[i] = "hset" /\ writer' = [writer EXCEPT ![i] = "stored"]
      /\ reader' = reader /\ purger' = purger
    BY DEF Expire
<1>2. /\ DOMAIN key' = DOMAIN key /\ \A j \in DOMAIN key' : key'[j] \in Hash(j)
      /\ \A j \in DOMAIN key \ {i} : key'[j] = key[j]
      /\ i \in DOMAIN key => /\ key'[i].ttl = IF Ttl[i] > 0 THEN Ttl[i] ELSE NoTtl
                             /\ key'[i].indexed = key[i].indexed /\ key'[i].hits = key[i].hits
    <2>1. CASE Exists(i) /\ Ttl[i] > 0
        <3> DEFINE hash == [key[i] EXCEPT !.ttl = Ttl[i]]
        <3>1. key[i] \in Hash(i)
            BY <2>1 DEF IInv, TypeOK, Hash, Exists
        <3>2. Ttl[i] \in 1..Ttl[i]
            BY <2>1, RedisAssumption
        <3>3. /\ hash \in Hash(i) /\ hash.ttl = Ttl[i]
              /\ hash.indexed = key[i].indexed /\ hash.hits = key[i].hits
            BY <3>1, <3>2 DEF Hash
        <3>4. Put(i, hash)
            BY <2>1 DEF Expire
        <3> HIDE DEF hash
        <3>. QED BY <2>1, <3>3, <3>4, PutType DEF IInv, Exists
    <2>2. CASE ~(Exists(i) /\ Ttl[i] > 0)
        <3>1. key' = key
            BY <2>2 DEF Expire
        <3>2. i \in DOMAIN key => key[i].ttl = NoTtl
            BY <1>1 DEF IInv, WriterFirst
        <3>. QED BY <2>2, <3>1, <3>2 DEF IInv, TypeOK, Hash, Exists
    <2>. QED BY <2>1, <2>2
<1>3. Ttl[i] # NoTtl
    BY RedisAssumption
<1>4. TypeOK'
    BY <1>1, <1>2 DEF IInv, TypeOK, Hash
<1>5. WriterFirst'
    BY <1>1, <1>2 DEF IInv, TypeOK, WriterFirst
<1>6. ReaderSound'
    BY <1>1 DEF IInv, TypeOK, ReaderSound, HasBeenSet, Counted
<1>7. UnexpiringIsExplained'
    BY <1>1, <1>2, <1>3 DEF IInv, TypeOK, UnexpiringIsExplained
<1>8. HitsNotInflated'
    <2>1. \A j \in DOMAIN key' : key'[j].hits = key[j].hits
        BY <1>2
    <2>. QED BY <2>1, <1>1, <1>2 DEF IInv, HitsNotInflated
<1>. QED BY <1>4, <1>5, <1>6, <1>7, <1>8 DEF IInv

LEMMA UpsertDiesInv == ASSUME IInv, NEW i \in Entry, UpsertDies(i) PROVE IInv'
<1>1. /\ writer[i] \in {"new", "hset"} /\ key' = key /\ reader' = reader /\ purger' = purger
      /\ writer' = [writer EXCEPT ![i] = IF writer[i] = "new" THEN "failed" ELSE "abandoned"]
    BY DEF UpsertDies
<1>2. TypeOK' /\ WriterFirst'
    BY <1>1 DEF IInv, TypeOK, WriterFirst
<1>3. ReaderSound'
    BY <1>1 DEF IInv, TypeOK, ReaderSound, HasBeenSet, Counted
<1>4. UnexpiringIsExplained'
    BY <1>1 DEF IInv, TypeOK, UnexpiringIsExplained, WriterFirst
<1>5. HitsNotInflated'
    BY <1>1 DEF IInv, HitsNotInflated
<1>. QED BY <1>2, <1>3, <1>4, <1>5 DEF IInv
-----------------------------------------------------------------------------
(* The steps of a lookup. *)

\* A lookup that neither reads nor writes a count moves no other part.
LEMMA LookupMoves ==
    ASSUME IInv, NEW r \in Reader, NEW to, reader' = [reader EXCEPT ![r] = to],
           to \in [at: {"get", "set", "gone", "dead"}, entry: Entry, hits: Nat],
           to.entry \in HasBeenSet,
           to.at = "set" => to.hits <= Cardinality(Counted(to.entry)),
           reader[r].at # "counted",
           UNCHANGED <<key, writer, purger>>
    PROVE  IInv'
<1>1. \A j : CountedOf(reader', j) = CountedOf(reader, j)
    BY DEF IInv, TypeOK, CountedOf
<1>2. TypeOK'
    BY DEF IInv, TypeOK
<1>3. WriterFirst'
    BY DEF IInv, WriterFirst
<1>4. ReaderSound'
    <2>1. to.entry # None
        BY RedisAssumption
    <2>2. \A q \in Reader : reader'[q] = IF q = r THEN to ELSE reader[q]
        BY DEF IInv, TypeOK
    <2>3. HasBeenSet' = HasBeenSet
        BY DEF HasBeenSet
    <2>4. ASSUME NEW q \in Reader
          PROVE  /\ reader'[q].at = "search" <=> reader'[q].entry = None
                 /\ reader'[q].at # "search" => reader'[q].entry \in HasBeenSet
                 /\ reader'[q].at = "set" =>
                        reader'[q].hits <= Cardinality(CountedOf(reader', reader'[q].entry))
        <3>1. CASE q = r
            BY <1>1, <2>1, <2>2, <3>1 DEF Counted
        <3>2. CASE q # r
            <4>1. reader'[q] = reader[q]
                BY <2>2, <3>2
            <4>2. /\ reader[q].at = "search" <=> reader[q].entry = None
                  /\ reader[q].at # "search" => reader[q].entry \in HasBeenSet
                  /\ reader[q].at = "set" =>
                        reader[q].hits <= Cardinality(CountedOf(reader, reader[q].entry))
                BY DEF IInv, ReaderSound, Counted
            <4>. QED BY <1>1, <4>1, <4>2
        <3>. QED BY <3>1, <3>2
    <2>. QED BY <2>3, <2>4 DEF ReaderSound, Counted
<1>5. UnexpiringIsExplained'
    BY DEF IInv, TypeOK, UnexpiringIsExplained
<1>6. HitsNotInflated'
    BY <1>1 DEF IInv, HitsNotInflated, CountedOf
<1>. QED BY <1>2, <1>3, <1>4, <1>5, <1>6 DEF IInv

LEMMA SearchInv == ASSUME IInv, NEW r \in Reader, NEW i \in Entry, Search(r, i) PROVE IInv'
<1> DEFINE to == [at |-> "get", entry |-> i, hits |-> 0]
<1>1. to \in [at: {"get", "set", "gone", "dead"}, entry: Entry, hits: Nat]
    OBVIOUS
<1>2. i \in HasBeenSet
    BY DEF Search, Indexed, IInv, WriterFirst, HasBeenSet, TypeOK
<1>3. reader' = [reader EXCEPT ![r] = to] /\ UNCHANGED <<key, writer, purger>>
      /\ reader[r].at = "search"
    BY DEF Search
<1>4. to.entry = i /\ to.at = "get"
    OBVIOUS
<1> HIDE DEF to
<1>. QED BY <1>1, <1>2, <1>3, <1>4, LookupMoves

LEMMA GetHitsInv == ASSUME IInv, NEW r \in Reader, GetHits(r) PROVE IInv'
<1> DEFINE i == reader[r].entry
           to == IF Exists(i) THEN [at |-> "set", entry |-> i, hits |-> key[i].hits]
                 ELSE [at |-> "gone", entry |-> i, hits |-> 0]
<1>1. reader[r].at = "get" /\ i \in HasBeenSet /\ i \in Entry
    BY DEF GetHits, IInv, ReaderSound, HasBeenSet
<1>2. to \in [at: {"get", "set", "gone", "dead"}, entry: Entry, hits: Nat] /\ to.entry = i
    BY <1>1 DEF IInv, TypeOK, Exists
<1>3. to.at = "set" => to.hits <= Cardinality(Counted(i))
    BY DEF IInv, HitsNotInflated, Exists, Counted, CountedOf
<1>4. reader' = [reader EXCEPT ![r] = to] /\ UNCHANGED <<key, writer, purger>>
    BY DEF GetHits
<1> HIDE DEF to
<1>. QED BY <1>1, <1>2, <1>3, <1>4, LookupMoves

LEMMA LookupDiesInv == ASSUME IInv, NEW r \in Reader, LookupDies(r) PROVE IInv'
<1> DEFINE to == [reader[r] EXCEPT !.at = "dead"]
<1>1. reader[r].at \in {"get", "set"} /\ reader[r].entry \in HasBeenSet
    BY DEF LookupDies, IInv, ReaderSound
<1>2. to \in [at: {"get", "set", "gone", "dead"}, entry: Entry, hits: Nat]
      /\ to.entry = reader[r].entry /\ to.at = "dead"
    BY <1>1 DEF IInv, TypeOK, HasBeenSet
<1>3. reader' = [reader EXCEPT ![r] = to] /\ UNCHANGED <<key, writer, purger>>
    BY DEF LookupDies
<1> HIDE DEF to
<1>. QED BY <1>1, <1>2, <1>3, LookupMoves

\* What the HSET of a count leaves: the key as it was but for the count, or a
\* new key outside the index.
LEMMA SetHitsKey ==
    ASSUME IInv, NEW r \in Reader, SetHits(r)
    PROVE  /\ reader[r].at = "set" /\ reader[r].entry \in HasBeenSet
           /\ DOMAIN key' = DOMAIN key \cup {reader[r].entry}
           /\ DOMAIN key' \subseteq Entry /\ \A j \in DOMAIN key' : key'[j] \in Hash(j)
           /\ \A j \in DOMAIN key \ {reader[r].entry} : key'[j] = key[j]
           /\ key'[reader[r].entry].hits = reader[r].hits + 1
           /\ reader[r].entry \in DOMAIN key =>
                 /\ key'[reader[r].entry].indexed = key[reader[r].entry].indexed
                 /\ key'[reader[r].entry].ttl = key[reader[r].entry].ttl
           /\ reader[r].entry \notin DOMAIN key =>
                 /\ ~key'[reader[r].entry].indexed /\ key'[reader[r].entry].ttl = NoTtl
<1> DEFINE i == reader[r].entry
           hash == IF Exists(i) THEN [key[i] EXCEPT !.hits = reader[r].hits + 1]
                   ELSE [indexed |-> FALSE, hits |-> reader[r].hits + 1, ttl |-> NoTtl]
<1>1. reader[r].at = "set" /\ i \in HasBeenSet /\ i \in Entry /\ reader[r].hits \in Nat
    BY DEF SetHits, IInv, ReaderSound, HasBeenSet, TypeOK
<1>2. Exists(i) => key[i] \in Hash(i)
    BY DEF IInv, TypeOK, Hash, Exists
<1> HIDE DEF i
<1>3. hash \in Hash(i) /\ hash.hits = reader[r].hits + 1
      /\ (Exists(i) => hash.indexed = key[i].indexed /\ hash.ttl = key[i].ttl)
      /\ (~Exists(i) => ~hash.indexed /\ hash.ttl = NoTtl)
    <2>1. CASE Exists(i)
        BY <2>1, <1>1, <1>2 DEF Hash
    <2>2. CASE ~Exists(i)
        <3>1. hash = [indexed |-> FALSE, hits |-> reader[r].hits + 1, ttl |-> NoTtl]
            BY <2>2
        <3>2. reader[r].hits + 1 \in Nat
            BY <1>1
        <3> HIDE DEF hash
        <3>. QED BY <2>2, <3>1, <3>2 DEF Hash
    <2>. QED BY <2>1, <2>2
<1>4. Put(i, hash)
    BY DEF SetHits, i
<1> HIDE DEF hash
<1>. QED BY <1>1, <1>3, <1>4, PutType DEF IInv, Exists, i

LEMMA SetHitsInv == ASSUME IInv, NEW r \in Reader, SetHits(r) PROVE IInv'
<1>1. PICK i \in Entry : i = reader[r].entry
    BY SetHitsKey DEF HasBeenSet
<1>2. /\ writer' = writer /\ purger' = purger
      /\ reader'[r].at = "counted" /\ reader'[r].entry = i
      /\ \A q \in Reader \ {r} : reader'[q] = reader[q]
    BY <1>1 DEF SetHits, IInv, TypeOK
<1>3. /\ reader[r].at = "set" /\ i \in HasBeenSet
      /\ DOMAIN key' = DOMAIN key \cup {i}
      /\ DOMAIN key' \subseteq Entry /\ \A j \in DOMAIN key' : key'[j] \in Hash(j)
      /\ \A j \in DOMAIN key \ {i} : key'[j] = key[j]
      /\ key'[i].hits = reader[r].hits + 1
      /\ i \in DOMAIN key => key'[i].indexed = key[i].indexed /\ key'[i].ttl = key[i].ttl
      /\ i \notin DOMAIN key => ~key'[i].indexed /\ key'[i].ttl = NoTtl
    BY <1>1, SetHitsKey
<1>4. /\ CountedOf(reader', i) = CountedOf(reader, i) \cup {r}
      /\ \A j : j # i => CountedOf(reader', j) = CountedOf(reader, j)
    BY <1>1, <1>2, <1>3 DEF CountedOf
<1>5. /\ Cardinality(CountedOf(reader', i)) = Cardinality(CountedOf(reader, i)) + 1
      /\ Cardinality(CountedOf(reader, i)) \in Nat
    <2>1. CountedOf(reader, i) \subseteq Reader /\ r \in Reader \ CountedOf(reader, i)
        BY <1>3 DEF CountedOf
    <2>. QED BY <2>1, <1>4, CountOneMore, CountType
<1>6. TypeOK'
    <2>1. reader' \in [Reader -> [at: {"search", "get", "set", "gone", "counted", "dead"},
                                  entry: Entry \cup {None}, hits: Nat]]
        BY DEF IInv, TypeOK, SetHits
    <2>. QED BY <1>2, <1>3, <2>1 DEF IInv, TypeOK, Hash
<1>7. WriterFirst'
    BY <1>1, <1>2, <1>3 DEF IInv, WriterFirst, HasBeenSet
<1>8. ReaderSound'
    <2>1. HasBeenSet' = HasBeenSet
        BY <1>2 DEF HasBeenSet
    <2>2. ASSUME NEW q \in Reader
          PROVE  /\ reader'[q].at = "search" <=> reader'[q].entry = None
                 /\ reader'[q].at # "search" => reader'[q].entry \in HasBeenSet
        BY <1>1, <1>2, <1>3, RedisAssumption DEF IInv, ReaderSound
    <2>3. ASSUME NEW q \in Reader, reader'[q].at = "set"
          PROVE  reader'[q].hits <= Cardinality(CountedOf(reader', reader'[q].entry))
        <3>1. reader'[q] = reader[q]
            BY <1>2, <2>3
        <3>2. reader[q].hits <= Cardinality(CountedOf(reader, reader[q].entry)) /\ reader[q].hits \in Nat
            BY <2>3, <3>1 DEF IInv, ReaderSound, TypeOK, Counted
        <3>3. CASE reader[q].entry = i
            BY <1>5, <3>1, <3>2, <3>3
        <3>4. CASE reader[q].entry # i
            BY <1>4, <3>1, <3>2, <3>4
        <3>. QED BY <3>3, <3>4
    <2>. QED BY <2>1, <2>2, <2>3 DEF ReaderSound, Counted
<1>9. UnexpiringIsExplained'
    <2>1. ASSUME NEW j \in DOMAIN key'
          PROVE  key'[j].indexed /\ key'[j].ttl = NoTtl /\ Ttl[j] > 0 =>
                    writer[j] \in {"hset", "abandoned"}
        BY <1>3 DEF IInv, UnexpiringIsExplained
    <2>2. ASSUME NEW j \in DOMAIN key', ~key'[j].indexed
          PROVE  \E q \in Reader : reader'[q].entry = j /\ reader'[q].at = "counted"
        <3>1. CASE j = i
            BY <3>1, <1>2
        <3>2. CASE j # i
            <4>1. PICK q \in Reader : reader[q].entry = j /\ reader[q].at = "counted"
                BY <3>2, <1>3, <2>2 DEF IInv, UnexpiringIsExplained
            <4>2. q # r
                BY <4>1, <1>3
            <4>. QED BY <4>1, <4>2, <1>2
        <3>. QED BY <3>1, <3>2
    <2>. QED BY <2>1, <2>2, <1>2 DEF UnexpiringIsExplained
<1>10. HitsNotInflated'
    <2>1. ASSUME NEW j \in DOMAIN key' PROVE key'[j].hits <= Cardinality(CountedOf(reader', j))
        <3>1. CASE j = i
            <4>1. reader[r].hits <= Cardinality(CountedOf(reader, i)) /\ reader[r].hits \in Nat
                BY <1>1, <1>3 DEF IInv, ReaderSound, TypeOK, Counted
            <4>. QED BY <3>1, <4>1, <1>3, <1>5
        <3>2. CASE j # i
            <4>1. j \in DOMAIN key /\ key'[j] = key[j]
                BY <3>2, <1>3
            <4>2. key[j].hits <= Cardinality(CountedOf(reader, j))
                BY <4>1 DEF IInv, HitsNotInflated, CountedOf
            <4>. QED BY <3>2, <4>1, <4>2, <1>4
        <3>. QED BY <3>1, <3>2
    <2>. QED BY <2>1 DEF HitsNotInflated, CountedOf
<1>. QED BY <1>6, <1>7, <1>8, <1>9, <1>10 DEF IInv
-----------------------------------------------------------------------------
(* Purges and time. *)

\* A purge removes keys and touches none it leaves.
LEMMA DropInv ==
    ASSUME IInv, NEW ids, DOMAIN key' = DOMAIN key \ ids,
           \A i \in DOMAIN key' : key'[i] = key[i],
           purger' \in [Purger -> Purge],
           UNCHANGED <<writer, reader>>
    PROVE  IInv'
<1>1. TypeOK' /\ WriterFirst'
    BY DEF IInv, TypeOK, WriterFirst, Purge
<1>2. ReaderSound'
    BY DEF IInv, ReaderSound, HasBeenSet, Counted, CountedOf
<1>3. UnexpiringIsExplained' /\ HitsNotInflated'
    BY DEF IInv, UnexpiringIsExplained, HitsNotInflated
<1>. QED BY <1>1, <1>2, <1>3 DEF IInv

LEMMA SameKeysInv ==
    ASSUME IInv, UNCHANGED <<key, writer, reader>>,
           purger' \in [Purger -> Purge]
    PROVE  IInv'
<1>1. DOMAIN key' = DOMAIN key \ {} /\ \A i \in DOMAIN key' : key'[i] = key[i]
    OBVIOUS
<1>. QED BY <1>1, DropInv

LEMMA PurgeInv ==
    ASSUME IInv, NEW p \in Purger, Query(p) \/ Del(p) \/ PurgeDies(p)
    PROVE  IInv'
<1>1. CASE Query(p)
    <2>1. PICK found \in Matched(p) : \E page \in SUBSET found :
              purger' = [purger EXCEPT ![p] =
                  [at |-> IF page = {} THEN "done" ELSE "del", found |-> found, page |-> page]]
        BY <1>1 DEF Query
    <2>2. found \subseteq Entry
        BY DEF Matched, Indexed, IInv, TypeOK
    <2>3. purger' \in [Purger -> Purge]
        BY <2>1, <2>2 DEF IInv, TypeOK, Purge
    <2>4. UNCHANGED <<key, writer, reader>>
        BY <1>1 DEF Query
    <2>. QED BY <2>3, <2>4, SameKeysInv
<1>2. CASE Del(p)
    <2>1. purger' \in [Purger -> Purge]
        <3>1. purger[p] \in Purge
            BY DEF IInv, TypeOK, Purge
        <3>2. [purger[p] EXCEPT !.at = "done"] \in Purge
            BY <3>1 DEF Purge
        <3>3. purger' = [purger EXCEPT ![p] = [purger[p] EXCEPT !.at = "done"]]
            BY <1>2 DEF Del
        <3>. QED BY <3>2, <3>3 DEF IInv, TypeOK, Purge
    <2>. QED BY <1>2, <2>1, DropInv DEF Del, Drop
<1>3. CASE PurgeDies(p)
    <2>1. purger' \in [Purger -> Purge]
        <3>1. purger[p] \in Purge
            BY DEF IInv, TypeOK, Purge
        <3>2. [purger[p] EXCEPT !.at = "dead"] \in Purge
            BY <3>1 DEF Purge
        <3>3. purger' = [purger EXCEPT ![p] = [purger[p] EXCEPT !.at = "dead"]]
            BY <1>3 DEF PurgeDies
        <3>. QED BY <3>2, <3>3 DEF IInv, TypeOK, Purge
    <2>2. UNCHANGED <<key, writer, reader>>
        BY <1>3 DEF PurgeDies
    <2>. QED BY <2>1, <2>2, SameKeysInv
<1>. QED BY <1>1, <1>2, <1>3

\* What a unit of time leaves of a key.
LEMMA TickKey ==
    ASSUME IInv, Tick
    PROVE  /\ DOMAIN key' \subseteq DOMAIN key
           /\ \A i \in DOMAIN key' :
                 /\ key'[i] \in Hash(i)
                 /\ key'[i].indexed = key[i].indexed /\ key'[i].hits = key[i].hits
                 /\ key[i].ttl = NoTtl => key'[i].ttl = NoTtl
                 /\ key[i].ttl # NoTtl => key'[i].ttl # NoTtl /\ key'[i].ttl = key[i].ttl - 1
<1>1. DOMAIN key' \subseteq DOMAIN key
    BY DEF Tick
<1>. SUFFICES ASSUME NEW i \in DOMAIN key'
     PROVE /\ key'[i] \in Hash(i)
           /\ key'[i].indexed = key[i].indexed /\ key'[i].hits = key[i].hits
           /\ key[i].ttl = NoTtl => key'[i].ttl = NoTtl
           /\ key[i].ttl # NoTtl => key'[i].ttl # NoTtl /\ key'[i].ttl = key[i].ttl - 1
    BY <1>1
<1>2. key[i] \in Hash(i) /\ key[i].ttl # 1
    BY <1>1 DEF IInv, TypeOK, Hash, Tick
<1>3. CASE key[i].ttl = NoTtl
    BY <1>1, <1>2, <1>3 DEF Tick
<1>4. CASE key[i].ttl # NoTtl
    <2>1. key'[i] = [key[i] EXCEPT !.ttl = key[i].ttl - 1]
        BY <1>1, <1>4 DEF Tick
    <2>2. key[i].ttl \in 1..Ttl[i] /\ Ttl[i] \in Nat
        BY <1>1, <1>2, <1>4, RedisAssumption DEF IInv, TypeOK, Hash
    <2>3. key[i].ttl - 1 \in 1..Ttl[i]
        BY <1>2, <2>2
    <2>4. key[i].ttl - 1 # NoTtl
        BY <2>3, RedisAssumption
    <2>. QED BY <1>2, <1>4, <2>1, <2>3, <2>4 DEF Hash
<1>. QED BY <1>3, <1>4

LEMMA TickInv == ASSUME IInv, Tick PROVE IInv'
<1>1. UNCHANGED <<writer, reader, purger>>
    BY DEF Tick
<1>2. TypeOK'
    BY <1>1, TickKey DEF IInv, TypeOK, Hash
<1>3. WriterFirst'
    BY <1>1, TickKey DEF IInv, TypeOK, WriterFirst
<1>4. ReaderSound'
    BY <1>1 DEF IInv, ReaderSound, HasBeenSet, Counted, CountedOf
<1>5. UnexpiringIsExplained' /\ HitsNotInflated'
    BY <1>1, TickKey DEF IInv, UnexpiringIsExplained, HitsNotInflated
<1>. QED BY <1>2, <1>3, <1>4, <1>5 DEF IInv

LEMMA InvInductive == IInv /\ [Next]_vars => IInv'
<1>. SUFFICES ASSUME IInv, [Next]_vars PROVE IInv'
    OBVIOUS
<1>1. ASSUME NEW i \in Entry, HSet(i) \/ Expire(i) \/ UpsertDies(i) PROVE IInv'
    BY <1>1, HSetInv, ExpireInv, UpsertDiesInv
<1>2. ASSUME NEW r \in Reader, GetHits(r) \/ SetHits(r) \/ LookupDies(r) PROVE IInv'
    BY <1>2, GetHitsInv, SetHitsInv, LookupDiesInv
<1>3. ASSUME NEW r \in Reader, NEW i \in Entry, Search(r, i) PROVE IInv'
    BY <1>3, SearchInv
<1>4. CASE UNCHANGED vars
    BY <1>4, SameKeysInv DEF vars, IInv, TypeOK, Purge
<1>. QED BY <1>1, <1>2, <1>3, <1>4, PurgeInv, TickInv DEF Next

LEMMA InvHolds == Spec => []IInv
BY InitInv, InvInductive, PTL DEF Spec
-----------------------------------------------------------------------------
\* However the commands of upserts, lookups and purges interleave, and whichever
\* of them never come, hashes keep their shape and counts and expiries their
\* ranges.
THEOREM RedisTypeCorrect == Spec => []TypeOK
<1>1. IInv => TypeOK
    BY DEF IInv
<1>. QED BY <1>1, InvHolds, PTL

\* An entry that can be served lacks an expiry only during its upsert or after
\* it died half-way, and a key outside the index was left by a counted hit.
THEOREM UnexpiringExplained == Spec => []UnexpiringIsExplained
<1>1. IInv => UnexpiringIsExplained
    BY DEF IInv
<1>. QED BY <1>1, InvHolds, PTL

\* The read-modify-write of hit_count may lose hits and never invents any.
THEOREM HitsAreNotInflated == Spec => []HitsNotInflated
<1>1. IInv => HitsNotInflated
    BY DEF IInv
<1>. QED BY <1>1, InvHolds, PTL

\* Only EXPIRE sets an expiry, and it comes once, to a key that has none.
THEOREM ExpiryRunsDown == Spec => ExpiryOnlyRunsDown
<1>1. ASSUME IInv, [Next]_vars, NEW i \in DOMAIN key \cap DOMAIN key', key[i].ttl # NoTtl
      PROVE  key'[i].ttl # NoTtl /\ key'[i].ttl <= key[i].ttl
    <2>1. i \in Entry /\ key[i] \in Hash(i) /\ key[i].ttl \in 1..Ttl[i] /\ Ttl[i] \in Nat
        BY <1>1, RedisAssumption DEF IInv, TypeOK, Hash
    <2>2. key[i].ttl <= key[i].ttl
        BY <2>1
    <2>3. CASE key'[i] = key[i]
        BY <1>1, <2>2, <2>3
    <2>4. ASSUME NEW j \in Entry, HSet(j) PROVE key'[i] = key[i]
        <3>1. j # i
            BY <2>4, <1>1 DEF HSet, IInv, WriterFirst
        <3>. QED BY <3>1, <2>4 DEF HSet, Put
    <2>5. ASSUME NEW j \in Entry, Expire(j) PROVE key'[i] = key[i]
        <3>1. j # i
            BY <2>5, <1>1 DEF Expire, IInv, WriterFirst
        <3>. QED BY <3>1, <2>5 DEF Expire, Put
    <2>6. ASSUME NEW r \in Reader, SetHits(r) PROVE key'[i].ttl = key[i].ttl
        <3>1. CASE i = reader[r].entry
            BY <1>1, <2>6, <3>1, SetHitsKey
        <3>2. CASE i # reader[r].entry
            BY <1>1, <2>6, <3>2, SetHitsKey
        <3>. QED BY <3>1, <3>2
    <2>7. CASE Tick
        <3>1. key'[i].ttl # NoTtl /\ key'[i].ttl = key[i].ttl - 1
            BY <1>1, <2>7, TickKey
        <3>. QED BY <2>1, <3>1
    <2>8. ASSUME NEW p \in Purger, Del(p) PROVE key'[i] = key[i]
        BY <2>8 DEF Del, Drop
    <2>9. CASE UNCHANGED key
        BY <2>3, <2>9
    <2>10. \/ \E j \in Entry : HSet(j) \/ Expire(j)
           \/ \E r \in Reader : SetHits(r)
           \/ \E p \in Purger : Del(p)
           \/ Tick \/ UNCHANGED key
        BY <1>1 DEF Next, vars, UpsertDies, Search, GetHits, LookupDies, Query, PurgeDies
    <2>. QED BY <1>1, <2>2, <2>3, <2>4, <2>5, <2>6, <2>7, <2>8, <2>9, <2>10
<1>2. IInv /\ [Next]_vars =>
          [\A i \in DOMAIN key \cap DOMAIN key' :
              key[i].ttl # NoTtl => key'[i].ttl # NoTtl /\ key'[i].ttl <= key[i].ttl]_vars
    BY <1>1
<1>. QED BY <1>2, InvHolds, PTL DEF Spec, ExpiryOnlyRunsDown
-----------------------------------------------------------------------------
(* The refinement of VectorStore. *)

Found == [r \in Reader |-> reader[r].entry]
Retired == HasBeenSet \ Indexed

\* What is served has been set.
LEMMA IndexedWasSet == ASSUME IInv PROVE Indexed \subseteq HasBeenSet
BY DEF IInv, TypeOK, WriterFirst, Indexed, HasBeenSet

\* A step that sets no key for the first time and answers no lookup retires
\* what it takes from the index.
LEMMA RetireStep ==
    ASSUME IInv, Indexed' \subseteq Indexed, HasBeenSet' = HasBeenSet, Found' = Found
    PROVE  [Contract!Next]_Contract!storeVars
<1>1. PICK hidden : hidden = Indexed \ Indexed'
    OBVIOUS
<1>2. Indexed' = Indexed \ hidden /\ Retired' = Retired \cup hidden /\ hidden \in SUBSET Indexed
    BY <1>1, IndexedWasSet DEF Retired
<1>3. CASE hidden = {}
    BY <1>2, <1>3 DEF Contract!storeVars, Found, Retired
<1>4. CASE hidden # {}
    <2>1. Contract!Retire(hidden)
        BY <1>2, <1>4 DEF Contract!Retire, Found, Retired
    <2>. QED BY <1>2, <2>1 DEF Contract!Next
<1>. QED BY <1>3, <1>4

LEMMA AddStep == ASSUME IInv, NEW i \in Entry, HSet(i) PROVE Contract!Add(i)
<1>1. writer[i] = "new" /\ i \notin DOMAIN key
    BY DEF HSet, IInv, WriterFirst
<1>2. Indexed' = Indexed \cup {i}
    BY <1>1 DEF HSet, Put, Indexed
<1>3. HasBeenSet' = HasBeenSet \cup {i} /\ i \notin HasBeenSet
    BY <1>1 DEF HSet, HasBeenSet, IInv, TypeOK
<1>4. i \notin Indexed \cup Retired /\ Retired' = Retired
    BY <1>1, <1>2, <1>3 DEF Indexed, Retired
<1>5. Found' = Found
    BY DEF HSet, Found
<1>. QED BY <1>2, <1>4, <1>5 DEF Contract!Add, Found, Retired

LEMMA AnswerStep ==
    ASSUME IInv, NEW r \in Reader, NEW i \in Entry, Search(r, i)
    PROVE  Contract!Answer(r, i)
<1>1. Found[r] = None /\ i \in Indexed
    BY DEF Search, Found, IInv, ReaderSound
<1>2. Found' = [Found EXCEPT ![r] = i]
    BY DEF Search, Found, IInv, TypeOK
<1>3. Indexed' = Indexed /\ Retired' = Retired
    BY DEF Search, Indexed, Retired, HasBeenSet
<1>. QED BY <1>1, <1>2, <1>3 DEF Contract!Answer, Found, Retired

\* Whatever is not the HSet of an upsert or the answer of a search.
LEMMA OtherStep ==
    ASSUME IInv, [Next]_vars,
           \A i \in Entry : ~HSet(i),
           \A r \in Reader, i \in Entry : ~Search(r, i)
    PROVE  Indexed' \subseteq Indexed /\ HasBeenSet' = HasBeenSet /\ Found' = Found
<1>1. ASSUME NEW i \in Entry, Expire(i)
      PROVE  Indexed' \subseteq Indexed /\ HasBeenSet' = HasBeenSet /\ Found' = Found
    <2>1. Indexed' \subseteq Indexed
        <3>1. CASE Exists(i) /\ Ttl[i] > 0
            <4>1. key' = [j \in DOMAIN key \cup {i} |->
                            IF j = i THEN [key[i] EXCEPT !.ttl = Ttl[i]] ELSE key[j]]
                BY <1>1, <3>1 DEF Expire, Put
            <4>2. [key[i] EXCEPT !.ttl = Ttl[i]].indexed = key[i].indexed
                BY <3>1 DEF IInv, TypeOK, Exists
            <4>. QED BY <3>1, <4>1, <4>2 DEF Indexed, Exists
        <3>2. CASE ~(Exists(i) /\ Ttl[i] > 0)
            BY <1>1, <3>2 DEF Expire, Indexed
        <3>. QED BY <3>1, <3>2
    <2>. QED BY <1>1, <2>1 DEF Expire, HasBeenSet, Found, IInv, TypeOK
<1>2. ASSUME NEW i \in Entry, UpsertDies(i)
      PROVE  Indexed' \subseteq Indexed /\ HasBeenSet' = HasBeenSet /\ Found' = Found
    BY <1>2 DEF UpsertDies, Indexed, HasBeenSet, Found, IInv, TypeOK
<1>3. ASSUME NEW r \in Reader, GetHits(r) \/ LookupDies(r)
      PROVE  Indexed' \subseteq Indexed /\ HasBeenSet' = HasBeenSet /\ Found' = Found
    <2>1. Found' = Found
        BY <1>3 DEF GetHits, LookupDies, Found, IInv, TypeOK
    <2>. QED BY <1>3, <2>1 DEF GetHits, LookupDies, Indexed, HasBeenSet
<1>4. ASSUME NEW r \in Reader, SetHits(r)
      PROVE  Indexed' \subseteq Indexed /\ HasBeenSet' = HasBeenSet /\ Found' = Found
    <2>1. ASSUME NEW j \in DOMAIN key', key'[j].indexed PROVE j \in Indexed
        <3>1. CASE j = reader[r].entry
            BY <1>4, <2>1, <3>1, SetHitsKey DEF Indexed
        <3>2. CASE j # reader[r].entry
            BY <1>4, <2>1, <3>2, SetHitsKey DEF Indexed
        <3>. QED BY <3>1, <3>2
    <2>2. Indexed' \subseteq Indexed
        BY <2>1 DEF Indexed
    <2>3. Found' = Found /\ HasBeenSet' = HasBeenSet
        BY <1>4 DEF SetHits, Found, HasBeenSet, IInv, TypeOK
    <2>. QED BY <2>2, <2>3
<1>5. ASSUME NEW p \in Purger, Query(p) \/ Del(p) \/ PurgeDies(p)
      PROVE  Indexed' \subseteq Indexed /\ HasBeenSet' = HasBeenSet /\ Found' = Found
    BY <1>5 DEF Query, Del, PurgeDies, Drop, Indexed, HasBeenSet, Found
<1>6. ASSUME Tick
      PROVE  Indexed' \subseteq Indexed /\ HasBeenSet' = HasBeenSet /\ Found' = Found
    <2>1. Indexed' \subseteq Indexed
        BY <1>6, TickKey DEF Indexed
    <2>. QED BY <1>6, <2>1 DEF Tick, HasBeenSet, Found
<1>7. CASE UNCHANGED vars
    BY <1>7 DEF vars, Indexed, HasBeenSet, Found
<1>. QED BY <1>1, <1>2, <1>3, <1>4, <1>5, <1>6, <1>7 DEF Next

\* Seen through what searches may return, the races between commands cannot be
\* told from additions, retirements and answers that are atomic: an entry that
\* has gone never comes back.
THEOREM RedisImplementsVectorStore == Spec => ImplementsVectorStore
<1>1. Init => Contract!Init
    BY DEF Init, Contract!Init, Indexed, HasBeenSet
<1>2. IInv /\ [Next]_vars => [Contract!Next]_Contract!storeVars
    <2>. SUFFICES ASSUME IInv, [Next]_vars PROVE [Contract!Next]_Contract!storeVars
        OBVIOUS
    <2>1. ASSUME NEW i \in Entry, HSet(i) PROVE Contract!Next
        BY <2>1, AddStep DEF Contract!Next
    <2>2. ASSUME NEW r \in Reader, NEW i \in Entry, Search(r, i) PROVE Contract!Next
        BY <2>2, AnswerStep DEF Contract!Next
    <2>3. CASE (\A i \in Entry : ~HSet(i)) /\ (\A r \in Reader, i \in Entry : ~Search(r, i))
        BY <2>3, OtherStep, RetireStep
    <2>. QED BY <2>1, <2>2, <2>3
<1>. QED BY <1>1, <1>2, InvHolds, PTL DEF Spec, ImplementsVectorStore, Contract!Spec
=============================================================================
