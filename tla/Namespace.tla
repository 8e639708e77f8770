----------------------------- MODULE Namespace -----------------------------
(***************************************************************************)
(* RequestSignature.namespace(): the scope of a cache entry.  The code     *)
(* hashes the dimensions into one string; here the namespace is the record *)
(* of what goes into the hash, SHA-256 being taken as injective.           *)
(***************************************************************************)
EXTENDS Integers

CONSTANTS
    Route,          \* Route[m]: the provider resolve_provider picks for model m
    SystemHash      \* SystemHash[s]: hash_system_prompt(s), blanks stripped first

\* Temperatures in hundredths, over the range the OpenAI API documents; the
\* request model itself takes any float.
Temperature == 0..200

\* The ties (0.15, 0.25, ...) whose binary value makes round(t, 1) go down.
RoundsDown == {15, 25, 35, 85, 95, 115, 125, 145, 165, 195}

\* round(t, 1), in tenths.
TemperatureBucket(t) == IF t \in RoundsDown THEN t \div 10 ELSE (t + 5) \div 10

\* A namespace that leaves max_tokens out.
NamespaceWithoutMaxTokens(r) ==
    [tenant |-> r.tenant, provider |-> Route[r.model], model |-> r.model,
     system_hash |-> SystemHash[r.system],
     temperature |-> TemperatureBucket(r.temperature)]

NamespaceOf(r) ==
    [tenant      |-> r.tenant,
     provider    |-> Route[r.model],
     model       |-> r.model,
     system_hash |-> SystemHash[r.system],
     temperature |-> TemperatureBucket(r.temperature),
     max_tokens  |-> r.max_tokens]
=============================================================================
