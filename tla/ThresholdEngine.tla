-------------------------- MODULE ThresholdEngine --------------------------
(***************************************************************************)
(* AdaptiveThresholdEngine: one similarity threshold per request category, *)
(* moved by feedback and clamped to the bounds of the category's policy.   *)
(***************************************************************************)
EXTENDS ThresholdPolicy, Prompts

VARIABLE current    \* current[c]: the threshold category c uses now

EngineTypeOK == current \in [Category -> Score]

EngineInit == current = Base

\* The first list that matches decides, in this order.
Categorize(p) ==
    IF "creative" \in Traits[p] THEN "creative"
    ELSE IF "programming" \in Traits[p] THEN "programming"
    ELSE IF "classification" \in Traits[p] THEN "classification"
    ELSE "general"

ThresholdForPrompt(p) == current[Categorize(p)]

RecordFeedback(c, falseHit) ==
    current' = [current EXCEPT ![c] = Adjust(c, @, falseHit)]
-----------------------------------------------------------------------------
\* No sequence of feedback moves a threshold out of its category's bounds
\* (the movement "is bounded so the engine self-corrects", and the tests call
\* record_feedback a hundred times in each direction).
WithinBounds ==
    \A c \in Category : Policy[c].minimum <= current[c] /\ current[c] <= Policy[c].maximum
=============================================================================
