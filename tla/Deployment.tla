----------------------------- MODULE Deployment -----------------------------
(***************************************************************************)
(* Replicas of the service over one Redis: they start (lifespan and        *)
(* ensure_index), serve, are drained and shut down, crash and are started  *)
(* again, while Redis goes away and comes back, perhaps without its data.  *)
(* Each replica has a threshold engine of its own.  Redis, the process     *)
(* supervisor ("restart: unless-stopped") and the draining of requests by  *)
(* the web server are external.  Outages, crashes and shutdowns are        *)
(* counted against MaxMishaps.                                             *)
(***************************************************************************)
EXTENDS ThresholdPolicy

CONSTANTS
    Replica,
    MaxInFlight,    \* bound on the requests of one replica
    MaxMishaps      \* bound on what goes wrong or is shut down

ASSUME DeploymentAssumption == MaxInFlight \in Nat /\ MaxMishaps \in Nat

VARIABLES
    redis,      \* "up" or "down"
    index,      \* whether the search index exists in Redis
    pc,         \* where the process of a replica is
    engine,     \* the thresholds of its engine
    inflight,   \* requests it has accepted and not answered
    replays,    \* its detached replays
    closed,     \* clients it has closed
    mishaps

vars == <<redis, index, pc, engine, inflight, replays, closed, mishaps>>

Client == {"completer", "embeddings", "store"}

Init ==
    /\ redis = "up" /\ index = FALSE
    /\ pc = [r \in Replica |-> "stopped"]
    /\ engine = [r \in Replica |-> Base]
    /\ inflight = [r \in Replica |-> 0]
    /\ replays = [r \in Replica |-> 0]
    /\ closed = [r \in Replica |-> {}]
    /\ mishaps = 0

Goes(r, to) == pc' = [pc EXCEPT ![r] = to]
Mishap == mishaps < MaxMishaps /\ mishaps' = mishaps + 1

\* The process starts: its clients are built and ensure_index asks for the index.
Start(r) ==
    /\ pc[r] = "stopped"
    /\ Goes(r, "probing")
    /\ closed' = [closed EXCEPT ![r] = {}]
    /\ UNCHANGED <<redis, index, engine, inflight, replays, mishaps>>

\* The rest of lifespan: a new engine, and the application accepts requests.
Serves(r) ==
    /\ Goes(r, "serving")
    /\ engine' = [engine EXCEPT ![r] = Base]

\* A start-up that creates the index without looking for it.
ProbeSkipped(r) ==
    /\ pc[r] = "probing"
    /\ Goes(r, "creating") /\ UNCHANGED engine
    /\ UNCHANGED <<redis, index, inflight, replays, closed, mishaps>>

\* Any exception of info() is taken for a missing index.
Probe(r) ==
    /\ pc[r] = "probing"
    /\ IF redis = "up" /\ index THEN Serves(r)
       ELSE Goes(r, "creating") /\ UNCHANGED engine
    /\ UNCHANGED <<redis, index, inflight, replays, closed, mishaps>>

\* info() fails for another reason while Redis is up and has the index.
ProbeFails(r) ==
    /\ pc[r] = "probing" /\ Mishap
    /\ Goes(r, "creating")
    /\ UNCHANGED <<redis, index, engine, inflight, replays, closed>>

\* create_index fails when Redis is away or another replica was first; the
\* exception leaves lifespan and the process exits.
Create(r) ==
    /\ pc[r] = "creating"
    /\ IF redis = "up" /\ ~index
       THEN Serves(r) /\ index' = TRUE
       ELSE Goes(r, "stopped") /\ UNCHANGED <<engine, index>>
    /\ UNCHANGED <<redis, inflight, replays, closed, mishaps>>

\* GET /readyz: 503 before start-up, then whether count() succeeds.
Ready(r) == pc[r] \in {"serving", "draining"} /\ redis = "up" /\ index

Accept(r) ==
    /\ pc[r] = "serving" /\ inflight[r] < MaxInFlight
    /\ inflight' = [inflight EXCEPT ![r] = @ + 1]
    /\ UNCHANGED <<redis, index, pc, engine, replays, closed, mishaps>>

\* A request ends, and a hit of a ready store may leave a detached replay.
Respond(r) ==
    /\ inflight[r] > 0
    /\ inflight' = [inflight EXCEPT ![r] = @ - 1]
    /\ \/ UNCHANGED replays
       \/ Ready(r) /\ replays[r] < MaxInFlight
          /\ replays' = [replays EXCEPT ![r] = @ + 1]
    /\ UNCHANGED <<redis, index, pc, engine, closed, mishaps>>

\* A replay ends; one whose clients have been closed raises and is swallowed.
ReplayEnds(r) ==
    /\ replays[r] > 0
    /\ replays' = [replays EXCEPT ![r] = @ - 1]
    /\ UNCHANGED <<redis, index, pc, engine, inflight, closed, mishaps>>

Feedback(r, c, falseHit) ==
    /\ pc[r] = "serving"
    /\ engine' = [engine EXCEPT ![r][c] = Adjust(c, @, falseHit)]
    /\ UNCHANGED <<redis, index, pc, inflight, replays, closed, mishaps>>

\* The process is told to stop.
Terminate(r) ==
    /\ pc[r] = "serving" /\ Mishap
    /\ Goes(r, "draining")
    /\ UNCHANGED <<redis, index, engine, inflight, replays, closed>>

\* A shutdown that closes the clients as soon as the process is told to stop.
CloseAtOnce(r, client) ==
    /\ pc[r] = "draining"
    /\ client = IF closed[r] = {} THEN "completer"
                ELSE IF closed[r] = {"completer"} THEN "embeddings" ELSE "store"
    /\ closed' = [closed EXCEPT ![r] = @ \cup {client}]
    /\ IF client = "store" THEN Goes(r, "stopped") ELSE UNCHANGED pc
    /\ UNCHANGED <<redis, index, engine, inflight, replays, mishaps>>

\* Once the server has drained its requests lifespan goes on: it closes the
\* completer, the embeddings, and the store.
Close(r, client) ==
    /\ pc[r] = "draining" /\ inflight[r] = 0
    /\ client = IF closed[r] = {} THEN "completer"
                ELSE IF closed[r] = {"completer"} THEN "embeddings" ELSE "store"
    /\ closed' = [closed EXCEPT ![r] = @ \cup {client}]
    /\ IF client = "store"
       THEN Goes(r, "stopped") /\ replays' = [replays EXCEPT ![r] = 0]
       ELSE UNCHANGED <<pc, replays>>
    /\ UNCHANGED <<redis, index, engine, inflight, mishaps>>

\* The process dies wherever it is, with everything it had in memory.
Crash(r) ==
    /\ pc[r] # "stopped" /\ Mishap
    /\ Goes(r, "stopped")
    /\ inflight' = [inflight EXCEPT ![r] = 0]
    /\ replays' = [replays EXCEPT ![r] = 0]
    /\ UNCHANGED <<redis, index, engine, closed>>

\* Redis goes away, and may have lost its data when it is back.
Outage ==
    /\ redis = "up" /\ Mishap
    /\ redis' = "down"
    /\ index' \in {index, FALSE}
    /\ UNCHANGED <<pc, engine, inflight, replays, closed>>

Recovery ==
    /\ redis = "down"
    /\ redis' = "up"
    /\ UNCHANGED <<index, pc, engine, inflight, replays, closed, mishaps>>

ProcessStep(r) ==
    \/ Start(r) \/ Probe(r) \/ Create(r)
    \/ Respond(r)
    \/ \E client \in Client : Close(r, client)

Next ==
    \/ \E r \in Replica :
          \/ ProcessStep(r)
          \/ Accept(r) \/ ReplayEnds(r)
          \/ ProbeFails(r) \/ Terminate(r) \/ Crash(r)
          \/ \E c \in Category, falseHit \in BOOLEAN : Feedback(r, c, falseHit)
    \/ Outage \/ Recovery

Spec == Init /\ [][Next]_vars

\* The supervisor starts what has stopped, what a process awaits while it
\* starts, answers and shuts down ends, and Redis is brought back.
FairSpec ==
    /\ Spec /\ WF_vars(Recovery)
    /\ \A r \in Replica :
          /\ WF_vars(Start(r)) /\ WF_vars(Probe(r)) /\ WF_vars(Create(r))
          /\ WF_vars(Respond(r))
          /\ WF_vars(\E client \in Client : Close(r, client))
-----------------------------------------------------------------------------
\* The type invariant; the bounds of each policy hold in every replica.
TypeOK ==
    /\ redis \in {"up", "down"} /\ index \in BOOLEAN
    /\ pc \in [Replica -> {"stopped", "probing", "creating", "serving", "draining"}]
    /\ engine \in [Replica -> [Category -> Score]]
    /\ \A r \in Replica, c \in Category :
          engine[r][c] \in Policy[c].minimum..Policy[c].maximum
    /\ inflight \in [Replica -> 0..MaxInFlight]
    /\ replays \in [Replica -> 0..MaxInFlight]
    /\ closed \in [Replica -> SUBSET Client]
    /\ mishaps \in 0..MaxMishaps

\* Shutting down takes nothing from a request: while a replica still has one
\* its clients are open, so only detached replays can find them closed; and a
\* replica that has stopped has neither.
ShutdownIsGraceful ==
    \A r \in Replica :
        /\ closed[r] # {} => inflight[r] = 0
        /\ pc[r] \in {"stopped", "probing", "creating"} =>
              inflight[r] = 0 /\ replays[r] = 0

\* However replicas race for the index, crash, or start while Redis is away,
\* once nothing more goes wrong they all serve, and they are all ready unless
\* Redis came back without the index: the replica that starts next makes it.
EveryReplicaServes ==
    /\ \A r \in Replica : <>[](pc[r] = "serving")
    /\ <>[](index => \A r \in Replica : Ready(r))
-----------------------------------------------------------------------------
\* "The service is stateless; all shared state lives in Redis": two replicas
\* treat a prompt alike.
ReplicasAgree ==
    \A r, s \in Replica :
        pc[r] = "serving" /\ pc[s] = "serving" => engine[r] = engine[s]
=============================================================================
