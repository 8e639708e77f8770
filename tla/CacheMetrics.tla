---------------------------- MODULE CacheMetrics ----------------------------
(***************************************************************************)
(* The counters of CacheMetrics that the proxy drives: lookups, hits, and  *)
(* the hits whose tokens were credited as saved.  Histograms, labels and   *)
(* prices only refine these counts and are left out.                       *)
(***************************************************************************)
EXTENDS Integers

VARIABLE metrics

MetricsTypeOK == metrics \in [total: Nat, hits: Nat, misses: Nat, saved: Nat]

MetricsInit == metrics = [total |-> 0, hits |-> 0, misses |-> 0, saved |-> 0]

\* A total that is only counted on the miss branch.
RecordLookupMissTotal(m, status) ==
    IF status = "HIT" THEN [m EXCEPT !.hits = @ + 1]
                      ELSE [m EXCEPT !.total = @ + 1, !.misses = @ + 1]

RecordLookup(m, status) ==
    IF status = "HIT" THEN [m EXCEPT !.total = @ + 1, !.hits = @ + 1]
                      ELSE [m EXCEPT !.total = @ + 1, !.misses = @ + 1]

RecordSavings(m) == [m EXCEPT !.saved = @ + 1]
=============================================================================
