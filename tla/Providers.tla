----------------------------- MODULE Providers -----------------------------
(***************************************************************************)
(* The upstream side of a chat request that misses the cache: embed the    *)
(* prompt, let the router choose the provider, obtain a connection of its  *)
(* HTTP client, send the request, and either buffer the answer (complete)  *)
(* or forward it as it comes (stream), then embed again to store it.  Each *)
(* wait may fail, and what is tried again and what the client is told      *)
(* depends on where.  The upstream and the connection pool of httpx are    *)
(* external: they answer, fail, time out or lose an answer as they like.   *)
(***************************************************************************)
EXTENDS Integers, Sequences, FiniteSets

CONSTANTS
    Call,           \* chat requests in flight
    Request,        \* [provider, stream]: what resolve_provider and the body say
    Configured,     \* providers the router was built with
    Native,         \* providers that override stream(): openai, ollama
    Local,          \* completers that use no network: echo
    PoolSize,       \* connections of one provider's HTTP client
    MaxAttempts,    \* stop_after_attempt
    StatusCode,     \* error statuses an upstream answers with
    Parts,          \* parts of a generation
    None

ASSUME ProvidersAssumption ==
    /\ \A r \in Request : DOMAIN r = {"provider", "stream"} /\ r.stream \in BOOLEAN
    /\ None \notin Request
    /\ Configured \cap Local = {}
    /\ PoolSize \in Nat \ {0} /\ MaxAttempts \in Nat \ {0} /\ Parts \in Nat \ {0}
    /\ StatusCode \subseteq 400..599

VARIABLES
    pc,         \* where the coroutine of a call waits, or how it ended
    request,
    attempts,   \* attempts of the retried function the call is in
    generated,  \* generations the upstream has made for the call
    lost,       \* ... of which no answer came back
    received,   \* parts the client has been sent
    http,       \* status the client has seen; 0 before any
    open        \* calls that hold a connection of their provider's client

vars == <<pc, request, attempts, generated, lost, received, http, open>>

Ended == {"done", "incomplete", "raised", "aborted", "closed"}
PC == {"idle", "embed", "connect", "sent", "generated", "streaming", "replaying",
       "store", "leaving"} \cup Ended

Init ==
    /\ pc = [c \in Call |-> "idle"]
    /\ request = [c \in Call |-> None]
    /\ attempts = [c \in Call |-> 0]
    /\ generated = [c \in Call |-> 0]
    /\ lost = [c \in Call |-> 0]
    /\ received = [c \in Call |-> <<>>]
    /\ http = [c \in Call |-> 0]
    /\ open = {}

Goes(c, to) == pc' = [pc EXCEPT ![c] = to]
InUse(p) == {c \in open : request[c].provider = p}
NativeStream(c) == request[c].stream /\ request[c].provider \in Native

WholeOf(g) == [k \in 1..Parts |-> [generation |-> g, part |-> k]]

\* A handler that passes every status through.
ClientStatusAsIs(code) == code

\* 5xx statuses are reported as 502, 4xx pass through.
ClientStatus(code) == IF code < 500 THEN code ELSE 502

\* An exception leaves the handler: the client gets a status, or its stream is cut.
Raise(c, status) ==
    IF http[c] = 200 THEN Goes(c, "aborted") /\ UNCHANGED http
    ELSE Goes(c, "raised") /\ http' = [http EXCEPT ![c] = status]

Begin(c, r) ==
    /\ pc[c] = "idle"
    /\ Goes(c, "embed")
    /\ request' = [request EXCEPT ![c] = r]
    /\ attempts' = [attempts EXCEPT ![c] = 1]
    /\ UNCHANGED <<generated, lost, received, http, open>>

\* The lookup found nothing.  stream() has returned and its 200 is sent before
\* the router is asked; complete() asks it at once.
Dispatch(c) ==
    /\ pc[c] = "embed" /\ request[c].provider \in Configured
    /\ Goes(c, "connect")
    /\ attempts' = [attempts EXCEPT ![c] = 1]
    /\ http' = [http EXCEPT ![c] = IF request[c].stream THEN 200 ELSE 0]
    /\ UNCHANGED <<request, generated, lost, received, open>>

\* The router has no provider of that name: a ProviderError with status 400.
DispatchNowhere(c) ==
    /\ pc[c] = "embed" /\ request[c].provider \notin Configured \cup Local
    /\ IF request[c].stream
       THEN Goes(c, "aborted") /\ http' = [http EXCEPT ![c] = 200]
       ELSE Raise(c, 400)
    /\ UNCHANGED <<request, attempts, generated, lost, received, open>>

\* What follows a whole buffered answer: the client of complete() has it once it
\* is stored or the TTL policy decides not to; that of stream() gets its parts.
AfterAnswer(c, g) ==
    \/ /\ request[c].stream
       /\ Goes(c, "replaying")
       /\ http' = [http EXCEPT ![c] = 200]
       /\ UNCHANGED received
    \/ /\ ~request[c].stream
       /\ Goes(c, "store")
       /\ UNCHANGED <<received, http>>
    \/ /\ ~request[c].stream
       /\ Goes(c, "done")
       /\ received' = [received EXCEPT ![c] = WholeOf(g)]
       /\ http' = [http EXCEPT ![c] = 200]

\* EchoCompleter answers without a wait.
DispatchLocally(c) ==
    /\ pc[c] = "embed" /\ request[c].provider \in Local
    /\ attempts' = [attempts EXCEPT ![c] = 1]
    /\ generated' = [generated EXCEPT ![c] = 1]
    /\ AfterAnswer(c, 1)
    /\ UNCHANGED <<request, lost, open>>

\* embed_batch is tried again after transport errors and after error statuses
\* of any kind; the last exception is one no handler knows.
EmbeddingFails(c) ==
    /\ pc[c] \in {"embed", "store"}
    /\ IF attempts[c] < MaxAttempts
       THEN attempts' = [attempts EXCEPT ![c] = @ + 1] /\ UNCHANGED <<pc, http>>
       ELSE Raise(c, 500) /\ UNCHANGED attempts
    /\ UNCHANGED <<request, generated, lost, received, open>>

\* A body that is no embedding is not tried again.
EmbeddingUnreadable(c) ==
    /\ pc[c] \in {"embed", "store"}
    /\ Raise(c, 500)
    /\ UNCHANGED <<request, attempts, generated, lost, received, open>>

Connect(c) ==
    /\ pc[c] = "connect" /\ Cardinality(InUse(request[c].provider)) < PoolSize
    /\ Goes(c, "sent")
    /\ open' = open \cup {c}
    /\ UNCHANGED <<request, attempts, generated, lost, received, http>>

\* The upstream makes a generation, whether or not its answer will arrive.
Generate(c) ==
    /\ pc[c] = "sent"
    /\ Goes(c, "generated")
    /\ generated' = [generated EXCEPT ![c] = @ + 1]
    /\ UNCHANGED <<request, attempts, lost, received, http, open>>

Release(c) == open' = open \ {c}
Loses(c) == lost' = [lost EXCEPT ![c] = IF pc[c] = "generated" THEN @ + 1 ELSE @]

\* A retry that does not count the attempts the upstream never answered.
RetryOrRaiseUncounted(c) ==
    IF attempts[c] < MaxAttempts /\ ~NativeStream(c)
    THEN /\ Goes(c, "connect") /\ UNCHANGED http
         /\ attempts' = [attempts EXCEPT ![c] = IF pc[c] = "generated" THEN @ + 1 ELSE @]
    ELSE Raise(c, 500) /\ UNCHANGED attempts

\* @retry is on complete(), which the base class's stream() calls too; a native
\* stream() has none.
RetryOrRaise(c) ==
    IF attempts[c] < MaxAttempts /\ ~NativeStream(c)
    THEN Goes(c, "connect") /\ attempts' = [attempts EXCEPT ![c] = @ + 1] /\ UNCHANGED http
    ELSE Raise(c, 500) /\ UNCHANGED attempts

\* httpx.TransportError: no connection in time, refused, reset, read timeout.
TransportError(c) ==
    /\ pc[c] \in {"connect", "sent", "generated"}
    /\ RetryOrRaise(c) /\ Release(c) /\ Loses(c)
    /\ UNCHANGED <<request, generated, received>>

\* ProviderError, raised at once: for complete() the handler turns it into a
\* status, for stream() it comes after the 200.
ErrorStatus(c, code) ==
    /\ pc[c] \in {"sent", "generated"}
    /\ Raise(c, ClientStatus(code)) /\ Release(c) /\ Loses(c)
    /\ UNCHANGED <<request, attempts, generated, received>>

\* An answer that does not validate and is asked for again.
UnreadableRetried(c) ==
    /\ pc[c] \in {"sent", "generated"} /\ ~NativeStream(c)
    /\ RetryOrRaise(c) /\ Release(c)
    /\ UNCHANGED <<request, generated, lost, received>>

\* The answer, to a generation or not, does not validate; the exception is not a
\* TransportError.
Unreadable(c) ==
    /\ pc[c] \in {"sent", "generated"} /\ ~NativeStream(c)
    /\ Raise(c, 500) /\ Release(c)
    /\ UNCHANGED <<request, attempts, generated, lost, received>>

\* complete() of the provider returns.
Answer(c) ==
    /\ pc[c] = "generated" /\ ~NativeStream(c)
    /\ Release(c)
    /\ attempts' = [attempts EXCEPT ![c] = 1]
    /\ AfterAnswer(c, generated[c])
    /\ UNCHANGED <<request, generated, lost>>

\* A native stream has been accepted: the body follows.
StreamOpens(c) ==
    /\ pc[c] = "generated" /\ NativeStream(c)
    /\ Goes(c, "streaming")
    /\ UNCHANGED <<request, attempts, generated, lost, received, http, open>>

Chunk(c) ==
    /\ pc[c] \in {"streaming", "replaying"} /\ Len(received[c]) < Parts
    /\ received' = [received EXCEPT
           ![c] = Append(@, [generation |-> generated[c], part |-> Len(@) + 1])]
    /\ UNCHANGED <<pc, request, attempts, generated, lost, http, open>>

\* The stream closes, after its [DONE] or before it.
StreamEnds(c) ==
    /\ pc[c] \in {"streaming", "replaying"}
    /\ \/ Len(received[c]) = Parts /\ \E to \in {"store", "done"} : Goes(c, to)
       \/ pc[c] = "streaming" /\ Goes(c, "incomplete")
    /\ Release(c)
    /\ attempts' = [attempts EXCEPT ![c] = 1]
    /\ UNCHANGED <<request, generated, lost, received, http>>

\* A broken stream that is asked for again and forwarded from where it was.
StreamBreaksResumed(c) ==
    /\ pc[c] = "streaming"
    /\ IF attempts[c] < MaxAttempts
       THEN Goes(c, "connect") /\ attempts' = [attempts EXCEPT ![c] = @ + 1]
       ELSE Goes(c, "aborted") /\ UNCHANGED attempts
    /\ Release(c)
    /\ UNCHANGED <<request, generated, lost, received, http>>

\* Nothing of a stream that breaks is asked for again.
StreamBreaks(c) ==
    /\ pc[c] = "streaming"
    /\ Goes(c, "aborted") /\ Release(c)
    /\ UNCHANGED <<request, attempts, generated, lost, received, http>>

\* The assembler of miss_body cannot read a chunk and raises before the chunk is
\* passed on; the provider's generator, left in its loop, is finalized later.
AssemblyFails(c) ==
    /\ pc[c] = "streaming"
    /\ Goes(c, "leaving")
    /\ UNCHANGED <<request, attempts, generated, lost, received, http, open>>

\* The second embedding has come and the answer is stored.
Stored(c) ==
    /\ pc[c] = "store"
    /\ Goes(c, "done")
    /\ received' = [received EXCEPT ![c] = WholeOf(generated[c])]
    /\ http' = [http EXCEPT ![c] = 200]
    /\ UNCHANGED <<request, attempts, generated, lost, open>>

\* A cancelled stream that never lets go of its connection.
FinalizeLeaks(c) ==
    /\ pc[c] = "leaving"
    /\ Goes(c, "closed")
    /\ UNCHANGED <<request, attempts, generated, lost, received, http, open>>

\* The client of a stream is gone and its body is cancelled; the generators
\* under it let go of the connection when they are finalized.
Disconnect(c) ==
    /\ http[c] = 200 /\ request[c].stream /\ pc[c] \notin Ended \cup {"leaving"}
    /\ Goes(c, "leaving")
    /\ UNCHANGED <<request, attempts, generated, lost, received, http, open>>

Finalize(c) ==
    /\ pc[c] = "leaving"
    /\ Goes(c, "closed") /\ Release(c)
    /\ UNCHANGED <<request, attempts, generated, lost, received, http>>

Progress(c) ==
    \/ Dispatch(c) \/ DispatchNowhere(c) \/ DispatchLocally(c)
    \/ EmbeddingFails(c) \/ EmbeddingUnreadable(c)
    \/ Connect(c) \/ Generate(c) \/ TransportError(c)
    \/ \E code \in StatusCode : ErrorStatus(c, code)
    \/ Unreadable(c) \/ Answer(c)
    \/ StreamOpens(c) \/ Chunk(c) \/ StreamEnds(c) \/ StreamBreaks(c) \/ AssemblyFails(c)
    \/ Stored(c) \/ Finalize(c)

AllEnded == (\A c \in Call : pc[c] \in Ended) /\ UNCHANGED vars

Next ==
    \/ \E c \in Call : Progress(c) \/ Disconnect(c) \/ \E r \in Request : Begin(c, r)
    \/ AllEnded

Spec == Init /\ [][Next]_vars

\* Each wait of a coroutine ends: the HTTP clients have timeouts (also for a
\* connection of the pool), and garbage generators are finalized by the loop.
FairSpec == Spec /\ \A c \in Call : WF_vars(Progress(c))
-----------------------------------------------------------------------------
Received == UNION {[1..n -> [generation: 1..MaxAttempts, part: 1..Parts]] : n \in 0..Parts}

TypeOK ==
    /\ pc \in [Call -> PC]
    /\ request \in [Call -> Request \cup {None}]
    /\ attempts \in [Call -> 0..MaxAttempts]
    /\ generated \in [Call -> 0..MaxAttempts]
    /\ lost \in [Call -> 0..MaxAttempts]
    /\ received \in [Call -> Received]
    /\ http \in [Call -> {0, 200, 400, 500, 502} \cup (StatusCode \cap 400..499)]
    /\ open \subseteq Call

\* A generation is paid for again only when the answer of the one before it was
\* lost on the way, and never for a stream that is passed through: a client
\* that got its answer paid for the lost ones besides its own, no more.
PaidOnce ==
    \A c \in Call :
        /\ generated[c] <= lost[c] + 1
        /\ request[c] # None /\ NativeStream(c) => generated[c] <= 1
        /\ pc[c] = "done" => generated[c] = lost[c] + 1

\* No provider's client has more connections open than its pool allows, each is
\* held by a call that is still using it, and a call that ended in whichever
\* way holds none.
PoolSound ==
    /\ \A c \in open : pc[c] \in {"sent", "generated", "streaming", "leaving"}
    /\ \A p \in Configured : Cardinality(InUse(p)) <= PoolSize

\* The providers keep what the protocol Completer promises, with their retries,
\* their two ways to stream and the failures of the embeddings around them.
Verdict(c) ==
    IF pc[c] = "done" THEN "done"
    ELSE IF pc[c] \in Ended \cup {"leaving"} THEN "failed"
    ELSE "open"
Contract == INSTANCE Completer WITH
    Generation <- 1..MaxAttempts, verdict <- [c \in Call |-> Verdict(c)]
ImplementsCompleter == Contract!Spec

\* Every call ends, also when others hold all connections of its provider.
CallEnds == \A c \in Call : pc[c] = "embed" ~> pc[c] \in Ended
=============================================================================
