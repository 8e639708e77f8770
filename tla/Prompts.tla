------------------------------ MODULE Prompts ------------------------------
(***************************************************************************)
(* The prompts of the chat requests.  The policies only ever ask of a      *)
(* prompt which of their keyword lists and regular expressions it matches, *)
(* so a prompt is an opaque value and Traits gives the lists it matches.   *)
(***************************************************************************)
CONSTANTS
    Prompt,     \* the texts latest_user_prompt can return
    Traits      \* Traits[p]: the pattern lists that prompt p matches

\* _CREATIVE_RE, _PROGRAMMING_KEYWORDS and _CLASSIFICATION_KEYWORDS of the
\* threshold engine; _NO_CACHE_PATTERNS, _SHORT_KEYWORDS of the TTL classifier.
PatternList ==
    {"creative", "programming", "classification", "volatile", "time_sensitive"}

ASSUME TraitsAssumption == Traits \in [Prompt -> SUBSET PatternList]
=============================================================================
