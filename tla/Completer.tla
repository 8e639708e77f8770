----------------------------- MODULE Completer -----------------------------
(***************************************************************************)
(* What the proxy expects of anything that completes chat requests (the    *)
(* protocol Completer): a client is sent the parts of one generation, in   *)
(* order and without gaps, and the call is done only once it has them all; *)
(* a call that fails sends nothing more.                                   *)
(***************************************************************************)
EXTENDS Integers, Sequences

CONSTANTS
    Call,       \* chat requests
    Generation, \* names of the generations an upstream makes for one call
    Parts       \* parts of a generation

VARIABLES
    received,   \* received[c]: parts the client has, each of a generation
    verdict     \* "open", "done" or "failed"

Init ==
    /\ received = [c \in Call |-> <<>>]
    /\ verdict = [c \in Call |-> "open"]

\* The first n parts of generation g.
Prefix(g, n) == [k \in 1..n |-> [generation |-> g, part |-> k]]

\* The client gets the next part, or all that are left of them at once.
Forward(c) ==
    /\ verdict[c] = "open"
    /\ \E g \in Generation, n \in (Len(received[c]) + 1)..Parts :
          /\ received[c] = Prefix(g, Len(received[c]))
          /\ received' = [received EXCEPT ![c] = Prefix(g, n)]
    /\ \/ UNCHANGED verdict
       \/ Len(received'[c]) = Parts /\ verdict' = [verdict EXCEPT ![c] = "done"]

Finish(c) ==
    /\ verdict[c] = "open" /\ Len(received[c]) = Parts
    /\ verdict' = [verdict EXCEPT ![c] = "done"]
    /\ UNCHANGED received

Fail(c) ==
    /\ verdict[c] = "open"
    /\ verdict' = [verdict EXCEPT ![c] = "failed"]
    /\ UNCHANGED received

Next == \E c \in Call : Forward(c) \/ Finish(c) \/ Fail(c)

Spec == Init /\ [][Next]_<<received, verdict>>
=============================================================================
