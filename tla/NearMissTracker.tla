-------------------------- MODULE NearMissTracker --------------------------
(***************************************************************************)
(* NearMissTracker: the lookups that just failed to clear their threshold, *)
(* in a deque that forgets the oldest event once it is full.               *)
(***************************************************************************)
EXTENDS Integers, Sequences

CONSTANT NearMissCapacity   \* maxlen of the deque

VARIABLE events

ASSUME NearMissAssumption == NearMissCapacity \in Nat

NearMissInit == events = <<>>

\* A list in place of the deque.
RecordUnbounded(event) == events' = Append(events, event)

\* deque(maxlen).append; a deque of maxlen 0 drops everything.
Record(event) ==
    events' = IF NearMissCapacity = 0 THEN <<>>
              ELSE IF Len(events) < NearMissCapacity THEN Append(events, event)
              ELSE Append(Tail(events), event)
=============================================================================
