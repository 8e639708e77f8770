------------------------- MODULE MCRedisVectorStore -------------------------
(***************************************************************************)
(* Small instances of RedisVectorStore: one purger clears everything, the  *)
(* other purges by a filter that matches one entry.  The other entry is    *)
(* one without a time to live, which the interface of the store accepts.   *)
(***************************************************************************)
EXTENDS RedisVectorStore, TLC

CONSTANTS e1, clear, delete

MCTarget == [p \in Purger |-> IF p = clear THEN Entry ELSE {e1}]

MCTtl == [i \in Entry |-> IF i = e1 THEN 2 ELSE 0]

Symmetric == Permutations(Reader)
=============================================================================
