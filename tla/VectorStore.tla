---------------------------- MODULE VectorStore ----------------------------
(***************************************************************************)
(* What the VectorStore interface promises the proxy, whatever implements  *)
(* it.  An entry becomes visible once, when its upsert has taken effect.   *)
(* It stops being visible when it expires or is deleted, and never comes   *)
(* back, because entry ids are fresh uuids.  A lookup answers from an      *)
(* entry that is visible at that moment, and its answer does not change.   *)
(***************************************************************************)
CONSTANTS
    Id,         \* entry ids
    Reader,     \* lookups, each answered at most once
    NoEntry     \* what a lookup holds before it is answered: no id

VARIABLES
    visible,    \* ids a search may return
    retired,    \* ids that were visible and are not any more
    found       \* found[r]: the entry that answered lookup r

storeVars == <<visible, retired, found>>

Init ==
    /\ visible = {}
    /\ retired = {}
    /\ found = [r \in Reader |-> NoEntry]

Add(i) ==
    /\ i \notin visible \cup retired
    /\ visible' = visible \cup {i}
    /\ UNCHANGED <<retired, found>>

Retire(ids) ==
    /\ ids # {} /\ ids \subseteq visible
    /\ visible' = visible \ ids
    /\ retired' = retired \cup ids
    /\ UNCHANGED found

Answer(r, i) ==
    /\ found[r] = NoEntry
    /\ i \in visible
    /\ found' = [found EXCEPT ![r] = i]
    /\ UNCHANGED <<visible, retired>>

Next ==
    \/ \E i \in Id : Add(i)
    \/ \E ids \in SUBSET visible : Retire(ids)
    \/ \E r \in Reader, i \in Id : Answer(r, i)

Spec == Init /\ [][Next]_storeVars
=============================================================================
