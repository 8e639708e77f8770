---------------------------- MODULE MCAnalytics ----------------------------
(***************************************************************************)
(* A small instance of Analytics for TLC.                                  *)
(***************************************************************************)
EXTENDS Analytics

MCPricing == [m \in {"gpt-4o"} |-> [input |-> 250, output |-> 1000]]

Looked(model, score, threshold, stream) ==
    [provider |-> IF model = "gpt-4o" THEN "openai" ELSE "ollama", model |-> model,
     stream |-> stream, score |-> score, threshold |-> threshold,
     prompt_tokens |-> 1, completion_tokens |-> 2]

\* Two near misses far apart, a near miss of a creative prompt outside the
\* bins, two hits and a miss in an empty namespace.
MCLookups ==
    {Looked("gpt-4o", 905, 950, TRUE), Looked("gpt-4o", 945, 950, TRUE),
     Looked("gpt-4o", 960, 950, FALSE), Looked("llama3", 1000, 985, TRUE),
     Looked("llama3", None, 950, FALSE)}

\* Scores on either side of every default threshold.
MCCase == [score: {895, 930, 960, 985}, expected: BOOLEAN]
MCSamples ==
    {<<c>> : c \in MCCase} \cup {<<c, d>> : c \in MCCase, d \in MCCase}
    \cup {<<[score |-> 895, expected |-> TRUE], [score |-> 930, expected |-> FALSE],
            [score |-> 960, expected |-> TRUE], [score |-> 985, expected |-> FALSE]>>}
=============================================================================
