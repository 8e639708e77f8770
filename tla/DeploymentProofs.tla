-------------------------- MODULE DeploymentProofs --------------------------
(***************************************************************************)
(* Type correctness of Deployment and its graceful shutdown, for any       *)
(* number of replicas, requests and mishaps and any threshold policies.    *)
(***************************************************************************)
EXTENDS Deployment, TLAPS

\* A process that starts has closed nothing, and serves with all it has built.
ClosedOnTheWayOut ==
    \A r \in Replica : pc[r] \in {"probing", "creating", "serving"} => closed[r] = {}

IInv == TypeOK /\ ShutdownIsGraceful /\ ClosedOnTheWayOut
-----------------------------------------------------------------------------
\* What a clamp between two scores returns.
LEMMA ClampBounds ==
    ASSUME NEW low \in Score, NEW high \in Score, low <= high, NEW t \in Int
    PROVE  /\ Smaller(high, Larger(low, t)) \in Score
           /\ Smaller(high, Larger(low, t)) \in low..high
BY SMTT(30) DEF Score, Smaller, Larger

LEMMA AdjustStaysInBounds ==
    ASSUME NEW c \in Category, NEW threshold \in Score, NEW falseHit \in BOOLEAN
    PROVE  /\ Adjust(c, threshold, falseHit) \in Score
           /\ Adjust(c, threshold, falseHit) \in Policy[c].minimum..Policy[c].maximum
<1>1. Policy[c] \in CategoryPolicy
    BY PolicyAssumption
<1>2. /\ Policy[c].base \in Score /\ Policy[c].minimum \in Score
      /\ Policy[c].maximum \in Score /\ Policy[c].step \in Score
    BY <1>1 DEF CategoryPolicy
<1>3. Policy[c].minimum <= Policy[c].base /\ Policy[c].base <= Policy[c].maximum
    BY PolicyAssumption
<1>4. Policy[c].minimum <= Policy[c].maximum
    <2>1. \A low, base, high \in Score : low <= base /\ base <= high => low <= high
        BY DEF Score
    <2>. QED BY <1>2, <1>3, <2>1
<1>5. ASSUME NEW t \in Int
      PROVE  Clamp(c, t) \in Score /\ Clamp(c, t) \in Policy[c].minimum..Policy[c].maximum
    BY <1>2, <1>4, <1>5, ClampBounds DEF Clamp
<1>6. \A step \in Score : threshold + step \in Int /\ threshold + (-step) \in Int
    BY DEF Score
<1>7. CASE falseHit
    <2>1. Adjust(c, threshold, falseHit) = Clamp(c, threshold + Policy[c].step)
        BY <1>7 DEF Adjust
    <2>. QED BY <2>1, <1>2, <1>5, <1>6
<1>8. CASE ~falseHit
    <2>1. Adjust(c, threshold, falseHit) = Clamp(c, threshold + (-Policy[c].step))
        BY <1>8 DEF Adjust
    <2>. QED BY <2>1, <1>2, <1>5, <1>6
<1>. QED BY <1>7, <1>8

LEMMA BaseType ==
    /\ Base \in [Category -> Score]
    /\ \A c \in Category : Base[c] \in Policy[c].minimum..Policy[c].maximum
<1>. SUFFICES ASSUME NEW c \in Category
              PROVE  Policy[c].base \in Score /\ Policy[c].base \in Policy[c].minimum..Policy[c].maximum
    BY DEF Base
<1>1. Policy[c] \in CategoryPolicy
    BY PolicyAssumption
<1>2. PICK low \in Score, base \in Score, high \in Score :
          low = Policy[c].minimum /\ base = Policy[c].base /\ high = Policy[c].maximum
    BY <1>1 DEF CategoryPolicy
<1>3. low <= base /\ base <= high
    BY <1>2, PolicyAssumption
<1>4. base \in low..high
    BY <1>3 DEF Score
<1>. QED BY <1>2, <1>4

LEMMA InitInv == Init => IInv
<1>. SUFFICES ASSUME Init PROVE IInv
    OBVIOUS
<1>1. /\ engine \in [Replica -> [Category -> Score]]
      /\ \A r \in Replica, c \in Category :
            engine[r][c] \in Policy[c].minimum..Policy[c].maximum
    BY BaseType DEF Init
<1>2. /\ pc \in [Replica -> {"stopped", "probing", "creating", "serving", "draining"}]
      /\ closed \in [Replica -> SUBSET Client]
      /\ redis \in {"up", "down"} /\ index \in BOOLEAN
    BY DEF Init
<1>3. /\ inflight \in [Replica -> 0..MaxInFlight] /\ replays \in [Replica -> 0..MaxInFlight]
      /\ mishaps \in 0..MaxMishaps
    BY DeploymentAssumption DEF Init
<1>4. ShutdownIsGraceful /\ ClosedOnTheWayOut
    BY DEF Init, ShutdownIsGraceful, ClosedOnTheWayOut
<1>. QED BY <1>1, <1>2, <1>3, <1>4 DEF IInv, TypeOK

\* The type of what is assigned to the variables of one replica.
LEMMA EngineStep ==
    ASSUME TypeOK, NEW r \in Replica, NEW thresholds \in [Category -> Score],
           \A c \in Category : thresholds[c] \in Policy[c].minimum..Policy[c].maximum,
           engine' = [engine EXCEPT ![r] = thresholds]
    PROVE  /\ engine' \in [Replica -> [Category -> Score]]
           /\ \A s \in Replica, c \in Category :
                 engine'[s][c] \in Policy[c].minimum..Policy[c].maximum
BY DEF TypeOK

LEMMA StartInv == ASSUME IInv, NEW r \in Replica, Start(r) PROVE IInv'
<1>1. TypeOK'
    BY DEF IInv, TypeOK, Start, Goes
<1>2. ShutdownIsGraceful' /\ ClosedOnTheWayOut'
    BY DEF IInv, TypeOK, ShutdownIsGraceful, ClosedOnTheWayOut, Start, Goes
<1>. QED BY <1>1, <1>2 DEF IInv

LEMMA ServesType ==
    ASSUME TypeOK, NEW r \in Replica, Serves(r)
    PROVE  /\ engine' \in [Replica -> [Category -> Score]]
           /\ \A s \in Replica, c \in Category :
                 engine'[s][c] \in Policy[c].minimum..Policy[c].maximum
           /\ pc' = [pc EXCEPT ![r] = "serving"]
BY BaseType, EngineStep DEF Serves, Goes

LEMMA ProbeInv == ASSUME IInv, NEW r \in Replica, Probe(r) PROVE IInv'
<1>1. TypeOK'
    <2>1. CASE Serves(r)
        BY <2>1, ServesType DEF IInv, TypeOK, Probe
    <2>2. CASE Goes(r, "creating") /\ UNCHANGED engine
        BY <2>2 DEF IInv, TypeOK, Probe, Goes
    <2>. QED BY <2>1, <2>2 DEF Probe
<1>2. ShutdownIsGraceful' /\ ClosedOnTheWayOut'
    BY DEF IInv, TypeOK, ShutdownIsGraceful, ClosedOnTheWayOut, Probe, Serves, Goes
<1>. QED BY <1>1, <1>2 DEF IInv

LEMMA CreateInv == ASSUME IInv, NEW r \in Replica, Create(r) PROVE IInv'
<1>1. TypeOK'
    <2>1. CASE Serves(r) /\ index' = TRUE
        BY <2>1, ServesType DEF IInv, TypeOK, Create
    <2>2. CASE Goes(r, "stopped") /\ UNCHANGED <<engine, index>>
        BY <2>2 DEF IInv, TypeOK, Create, Goes
    <2>. QED BY <2>1, <2>2 DEF Create
<1>2. ShutdownIsGraceful' /\ ClosedOnTheWayOut'
    BY DEF IInv, TypeOK, ShutdownIsGraceful, ClosedOnTheWayOut, Create, Serves, Goes
<1>. QED BY <1>1, <1>2 DEF IInv

LEMMA AcceptInv == ASSUME IInv, NEW r \in Replica, Accept(r) PROVE IInv'
<1>1. TypeOK'
    BY DeploymentAssumption DEF IInv, TypeOK, Accept
<1>2. ShutdownIsGraceful' /\ ClosedOnTheWayOut'
    BY DEF IInv, TypeOK, ShutdownIsGraceful, ClosedOnTheWayOut, Accept
<1>. QED BY <1>1, <1>2 DEF IInv

LEMMA RespondInv == ASSUME IInv, NEW r \in Replica, Respond(r) PROVE IInv'
<1>1. TypeOK'
    <2>1. inflight' \in [Replica -> 0..MaxInFlight]
        BY DeploymentAssumption DEF IInv, TypeOK, Respond
    <2>2. replays' \in [Replica -> 0..MaxInFlight]
        BY DeploymentAssumption, SMTT(30) DEF IInv, TypeOK, Respond
    <2>. QED BY <2>1, <2>2 DEF IInv, TypeOK, Respond
<1>2. ShutdownIsGraceful' /\ ClosedOnTheWayOut'
    BY DEF IInv, TypeOK, ShutdownIsGraceful, ClosedOnTheWayOut, Respond, Ready
<1>. QED BY <1>1, <1>2 DEF IInv

LEMMA ReplayEndsInv == ASSUME IInv, NEW r \in Replica, ReplayEnds(r) PROVE IInv'
<1>1. TypeOK'
    BY DeploymentAssumption DEF IInv, TypeOK, ReplayEnds
<1>2. ShutdownIsGraceful' /\ ClosedOnTheWayOut'
    BY DEF IInv, TypeOK, ShutdownIsGraceful, ClosedOnTheWayOut, ReplayEnds
<1>. QED BY <1>1, <1>2 DEF IInv

LEMMA FeedbackInv ==
    ASSUME IInv, NEW r \in Replica, NEW c \in Category, NEW falseHit \in BOOLEAN,
           Feedback(r, c, falseHit)
    PROVE  IInv'
<1>1. PICK thresholds \in [Category -> Score] :
          /\ \A d \in Category : thresholds[d] \in Policy[d].minimum..Policy[d].maximum
          /\ engine' = [engine EXCEPT ![r] = thresholds]
    <2> DEFINE thresholds == [engine[r] EXCEPT ![c] = Adjust(c, engine[r][c], falseHit)]
    <2>1. engine[r] \in [Category -> Score]
        BY DEF IInv, TypeOK
    <2>2. /\ Adjust(c, engine[r][c], falseHit) \in Score
          /\ Adjust(c, engine[r][c], falseHit) \in Policy[c].minimum..Policy[c].maximum
        BY <2>1, AdjustStaysInBounds
    <2>3. engine' = [engine EXCEPT ![r] = thresholds]
        BY DEF Feedback, IInv, TypeOK
    <2>4. thresholds \in [Category -> Score]
        BY <2>1, <2>2
    <2>5. \A d \in Category : thresholds[d] \in Policy[d].minimum..Policy[d].maximum
        BY <2>1, <2>2 DEF IInv, TypeOK
    <2>. QED BY <2>3, <2>4, <2>5
<1>2. TypeOK'
    BY <1>1, EngineStep DEF IInv, TypeOK, Feedback
<1>3. ShutdownIsGraceful' /\ ClosedOnTheWayOut'
    BY DEF IInv, ShutdownIsGraceful, ClosedOnTheWayOut, Feedback
<1>. QED BY <1>2, <1>3 DEF IInv

LEMMA CloseInv ==
    ASSUME IInv, NEW r \in Replica, NEW client \in Client, Close(r, client)
    PROVE  IInv'
<1>1. TypeOK'
    BY DeploymentAssumption DEF IInv, TypeOK, Close, Goes
<1>2. ShutdownIsGraceful' /\ ClosedOnTheWayOut'
    BY DEF IInv, TypeOK, ShutdownIsGraceful, ClosedOnTheWayOut, Close, Goes
<1>. QED BY <1>1, <1>2 DEF IInv

\* What may go wrong at any time takes no requests along that it does not end.
LEMMA MishapInv ==
    ASSUME IInv, NEW r \in Replica, ProbeFails(r) \/ Terminate(r) \/ Crash(r)
    PROVE  IInv'
<1>1. mishaps' \in 0..MaxMishaps
    BY DeploymentAssumption DEF IInv, TypeOK, ProbeFails, Terminate, Crash, Mishap
<1>2. TypeOK'
    <2>1. CASE ProbeFails(r)
        BY <2>1, <1>1 DEF IInv, TypeOK, ProbeFails, Goes
    <2>2. CASE Terminate(r)
        BY <2>2, <1>1 DEF IInv, TypeOK, Terminate, Goes
    <2>3. CASE Crash(r)
        <3>1. /\ inflight' \in [Replica -> 0..MaxInFlight]
              /\ replays' \in [Replica -> 0..MaxInFlight]
            BY <2>3, DeploymentAssumption DEF IInv, TypeOK, Crash
        <3>. QED BY <2>3, <3>1, <1>1 DEF IInv, TypeOK, Crash, Goes
    <2>. QED BY <2>1, <2>2, <2>3
<1>3. ShutdownIsGraceful' /\ ClosedOnTheWayOut'
    BY ZenonT(30) DEF IInv, TypeOK, ShutdownIsGraceful, ClosedOnTheWayOut,
           ProbeFails, Terminate, Crash, Goes
<1>. QED BY <1>2, <1>3 DEF IInv

LEMMA RedisInv == ASSUME IInv, Outage \/ Recovery PROVE IInv'
<1>1. TypeOK'
    <2>1. CASE Outage
        <3>1. mishaps' \in 0..MaxMishaps
            BY <2>1, DeploymentAssumption DEF IInv, TypeOK, Outage, Mishap
        <3>2. redis' \in {"up", "down"} /\ index' \in BOOLEAN
            BY <2>1 DEF IInv, TypeOK, Outage
        <3>3. UNCHANGED <<pc, engine, inflight, replays, closed>>
            BY <2>1 DEF Outage
        <3>. QED BY <3>1, <3>2, <3>3 DEF IInv, TypeOK
    <2>2. CASE Recovery
        BY <2>2 DEF IInv, TypeOK, Recovery
    <2>. QED BY <2>1, <2>2
<1>2. ShutdownIsGraceful' /\ ClosedOnTheWayOut'
    BY DEF IInv, ShutdownIsGraceful, ClosedOnTheWayOut, Outage, Recovery
<1>. QED BY <1>1, <1>2 DEF IInv

LEMMA InvInductive == Spec => []IInv
<1>1. Init => IInv
    BY InitInv
<1>2. IInv /\ [Next]_vars => IInv'
    <2>. SUFFICES ASSUME IInv, [Next]_vars PROVE IInv'
        OBVIOUS
    <2>1. ASSUME NEW r \in Replica, ProcessStep(r) PROVE IInv'
        BY <2>1, StartInv, ProbeInv, CreateInv, RespondInv, CloseInv DEF ProcessStep
    <2>2. ASSUME NEW r \in Replica, Accept(r) \/ ReplayEnds(r) PROVE IInv'
        BY <2>2, AcceptInv, ReplayEndsInv
    <2>3. ASSUME NEW r \in Replica, ProbeFails(r) \/ Terminate(r) \/ Crash(r) PROVE IInv'
        BY <2>3, MishapInv
    <2>4. ASSUME NEW r \in Replica, NEW c \in Category, NEW falseHit \in BOOLEAN,
                 Feedback(r, c, falseHit)
          PROVE  IInv'
        BY <2>4, FeedbackInv
    <2>5. CASE Outage \/ Recovery
        BY <2>5, RedisInv
    <2>6. CASE UNCHANGED vars
        BY <2>6 DEF vars, IInv, TypeOK, ShutdownIsGraceful, ClosedOnTheWayOut
    <2>. QED BY <2>1, <2>2, <2>3, <2>4, <2>5, <2>6 DEF Next
<1>. QED BY <1>1, <1>2, PTL DEF Spec

\* In every replica every threshold stays within the bounds of its category,
\* and requests, replays and mishaps stay within theirs.
THEOREM DeploymentTypeCorrect == Spec => []TypeOK
<1>1. IInv => TypeOK
    BY DEF IInv
<1>. QED BY <1>1, InvInductive, PTL

\* No request in flight ever finds a client closed, and nothing runs in a
\* process that has stopped.
THEOREM ShutdownsAreGraceful == Spec => []ShutdownIsGraceful
<1>1. IInv => ShutdownIsGraceful
    BY DEF IInv
<1>. QED BY <1>1, InvInductive, PTL
=============================================================================
