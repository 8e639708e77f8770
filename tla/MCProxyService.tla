--------------------------- MODULE MCProxyService ---------------------------
(***************************************************************************)
(* Small instances of ProxyService for TLC: prompts whose similarities lie *)
(* on both sides of every threshold, and the requests that ask them.       *)
(***************************************************************************)
EXTENDS ProxyService, TLC

MCPrompt == {"http", "http2", "news", "live"}

MCTraits ==
    [http |-> {}, http2 |-> {}, news |-> {"time_sensitive"},
     live |-> {"volatile", "time_sensitive"}]

\* http and http2 match at 950 and are a near miss at 980; http and news are a
\* near miss at 950 and match at 920; live is as close to news as http2 to http.
MCClose ==
    {<<{"http", "http2"}, 960>>, <<{"http", "news"}, 930>>,
     <<{"news", "live"}, 960>>}

MCSimilarity ==
    [p \in MCPrompt |-> [q \in MCPrompt |->
        IF p = q THEN 1000
        ELSE IF \E c \in MCClose : c[1] = {p, q}
        THEN (CHOOSE c \in MCClose : c[1] = {p, q})[2]
        ELSE 500]]

\* The default policies, without movement.
FixedPolicy ==
    [classification |-> [base |-> 910, minimum |-> 880, maximum |-> 950, step |-> 0],
     programming |-> [base |-> 950, minimum |-> 930, maximum |-> 980, step |-> 0],
     creative |-> [base |-> 985, minimum |-> 970, maximum |-> 995, step |-> 0],
     general |-> [base |-> 950, minimum |-> 920, maximum |-> 980, step |-> 0]]
\* One feedback step of the general category leads from each bound to the other
\* and is clamped when it starts at the base; the other categories stay put.
MovingPolicy == [FixedPolicy EXCEPT !["general"].step = 60]

MCRoute == [m \in {"gpt-4o", "claude-3"} |-> IF m = "gpt-4o" THEN "openai" ELSE "anthropic"]
MCSystemHash == [s \in {"", "helpful", " helpful "} |-> IF s = "" THEN "no-system" ELSE "5f2b"]

Ask(prompt) ==
    [model |-> "gpt-4o", system |-> "helpful", temperature |-> 70, top_p |-> 100,
     max_tokens |-> None, tenant |-> "default", prompt |-> prompt, tags |-> {},
     stream |-> FALSE]

Streamed(r) == [r EXCEPT !.stream = TRUE]

\* Requests that share a namespace and differ in prompt, class and transport.
MixedRequests == {Ask("http"), Streamed(Ask("http2")), [Ask("news") EXCEPT !.tags = {"docs"}]}
LiveRequests == MixedRequests \cup {Streamed(Ask("live"))}

\* The same prompt under every difference the namespace is to keep apart, and
\* under the two it does not: blanks around the system prompt and a
\* temperature that rounds to the same tenth.
ScopedRequests ==
    {Ask("http"), [Ask("http2") EXCEPT !.system = " helpful ", !.temperature = 74],
     [Ask("http") EXCEPT !.temperature = 75], [Ask("http") EXCEPT !.system = ""],
     [Ask("http") EXCEPT !.tenant = "acme"], [Ask("http") EXCEPT !.model = "claude-3"],
     [Ask("http") EXCEPT !.max_tokens = 16]}

PairRequests == ScopedRequests \cup {Streamed(Ask("http2")), Streamed(Ask("live"))}

\* Two requests that differ in top_p only.
TopPRequests == {Ask("http"), [Ask("http") EXCEPT !.top_p = 50]}

Symmetric == Permutations(Task)
=============================================================================
