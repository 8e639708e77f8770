-------------------------- MODULE CacheValidator ---------------------------
(***************************************************************************)
(* CacheValidator: shadow replay of a sampled fraction of the hits.  The   *)
(* replay awaits the provider and two embeddings and only then counts, so  *)
(* one that fails on the way leaves no trace.                              *)
(***************************************************************************)
EXTENDS Integers

CONSTANT SampleRate     \* validation_sample_rate, in thousandths

VARIABLE validation     \* _validations, _drift, _false_hits

ASSUME SampleAssumption == SampleRate \in 0..1000

ValidationTypeOK ==
    validation \in [validations: Nat, drift: Nat, false_hits: Nat]

ValidationInit == validation = [validations |-> 0, drift |-> 0, false_hits |-> 0]

\* What should_validate may answer: random() < sample_rate, random() in [0, 1).
ShouldValidate ==
    {sampled \in BOOLEAN : IF sampled THEN SampleRate > 0 ELSE SampleRate < 1000}

\* validate(), once the fresh answer has been compared with the cached one.
Validate(drifted) ==
    validation' = IF drifted
                  THEN [validation EXCEPT !.validations = @ + 1, !.drift = @ + 1,
                                          !.false_hits = @ + 1]
                  ELSE [validation EXCEPT !.validations = @ + 1]
=============================================================================
