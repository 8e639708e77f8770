-------------------------- MODULE ProvidersProofs --------------------------
(***************************************************************************)
(* The invariants of Providers, for any number of calls, attempts, parts   *)
(* and connections, and the proof that it keeps the contract Completer.    *)
(***************************************************************************)
EXTENDS Providers, FiniteSetTheorems, TLAPS

Status == {0, 200, 400, 500, 502} \cup (StatusCode \cap 400..499)
Holding == {"sent", "generated", "streaming", "leaving"}
Prefix(g, n) == Contract!Prefix(g, n)

\* What is true of one call: where it is, its request, attempts, generations,
\* lost generations and what its client was sent.  While it is still trying,
\* every generation but the current one is lost and every lost one has cost an
\* attempt; what the client has is the beginning of the last generation.
Sound(at, r, a, g, l, s) ==
    /\ at = "idle" <=> r = None
    /\ l \in Nat /\ l <= g /\ g <= l + 1 /\ g <= MaxAttempts
    /\ at \in {"idle", "embed"} => g = 0
    /\ at \in {"connect", "sent"} => g = l /\ l < a
    /\ at = "generated" => g = l + 1 /\ l < a
    /\ at \in {"streaming", "replaying", "store", "done"} => g = l + 1
    /\ at \in {"streaming", "replaying"} => r.stream
    /\ r # None /\ r.stream /\ r.provider \in Native =>
          g <= 1 /\ (at \in {"connect", "sent"} => g = 0)
    /\ \E n \in 0..Parts : s = Prefix(g, n)
    /\ g = 0 \/ at \in {"idle", "embed", "connect", "sent", "generated"} => s = <<>>
    /\ at = "store" => IF r.stream THEN s = Prefix(g, Parts) ELSE s = <<>>

CallSound(c) ==
    /\ Sound(pc[c], request[c], attempts[c], generated[c], lost[c], received[c])
    /\ pc[c] = "idle" => http[c] = 0

PoolInv == IsFiniteSet(open) /\ PoolSound

IInv == TypeOK /\ (\A c \in Call : CallSound(c)) /\ PoolInv
-----------------------------------------------------------------------------
(* The parts of a generation. *)

LEMMA NoParts == \A g : Prefix(g, 0) = <<>>
BY DEF Prefix, Contract!Prefix

LEMMA PrefixLen == ASSUME NEW g, NEW n \in Nat PROVE Len(Prefix(g, n)) = n
BY DEF Prefix, Contract!Prefix

LEMMA PrefixType ==
    ASSUME NEW g \in 1..MaxAttempts, NEW n \in 0..Parts PROVE Prefix(g, n) \in Received
BY ProvidersAssumption DEF Prefix, Contract!Prefix, Received

LEMMA NothingReceived == <<>> \in Received
BY PrefixType, NoParts, ProvidersAssumption

LEMMA NextPart ==
    ASSUME NEW g, NEW n \in Nat
    PROVE  Append(Prefix(g, n), [generation |-> g, part |-> n + 1]) = Prefix(g, n + 1)
BY DEF Prefix, Contract!Prefix

LEMMA WholePrefix == \A g : WholeOf(g) = Prefix(g, Parts)
BY DEF WholeOf, Prefix, Contract!Prefix
-----------------------------------------------------------------------------
(* Steps of one call. *)

\* A step that concerns no call but c, and leaves each variable well typed.
Others(c) ==
    /\ pc' \in [Call -> PC] /\ request' \in [Call -> Request \cup {None}]
    /\ attempts' \in [Call -> 0..MaxAttempts]
    /\ generated' \in [Call -> Int] /\ lost' \in [Call -> Int]
    /\ received' = [d \in Call |-> received'[d]]
    /\ http' \in [Call -> Status]
    /\ \A d \in Call \ {c} :
          /\ pc'[d] = pc[d] /\ request'[d] = request[d] /\ attempts'[d] = attempts[d]
          /\ generated'[d] = generated[d] /\ lost'[d] = lost[d]
          /\ received'[d] = received[d] /\ http'[d] = http[d]

LEMMA SoundType ==
    ASSUME NEW at, NEW r, NEW a, NEW g \in Int, NEW l \in Int, NEW s,
           Sound(at, r, a, g, l, s)
    PROVE  g \in 0..MaxAttempts /\ l \in 0..MaxAttempts /\ s \in Received
<1>1. g \in 0..MaxAttempts /\ l \in 0..MaxAttempts
    BY ProvidersAssumption DEF Sound
<1>2. PICK n \in 0..Parts : s = Prefix(g, n)
    BY DEF Sound
<1>3. CASE g = 0
    BY <1>1, <1>3, NothingReceived DEF Sound
<1>. QED BY <1>1, <1>2, <1>3, PrefixType

LEMMA StepInv ==
    ASSUME IInv, NEW c \in Call, Others(c), CallSound(c)', PoolInv', open' \subseteq Call
    PROVE  IInv'
<1>1. ASSUME NEW d \in Call PROVE CallSound(d)'
    <2>1. CASE d = c
        BY <2>1
    <2>2. CASE d # c
        BY <2>2 DEF Others, CallSound, IInv
    <2>. QED BY <2>1, <2>2
<1>2. ASSUME NEW d \in Call
      PROVE  generated'[d] \in 0..MaxAttempts /\ lost'[d] \in 0..MaxAttempts /\ received'[d] \in Received
    BY <1>1, SoundType DEF Others, CallSound
<1>3. TypeOK'
    BY <1>2 DEF Others, TypeOK, Status
<1>. QED BY <1>1, <1>3 DEF IInv

\* No connection is taken, and the call lets its own go or still uses it.
LEMMA PoolKept ==
    ASSUME IInv, NEW c \in Call, Others(c),
           \/ open' = open /\ request'[c] = request[c] /\ (c \in open => pc'[c] \in Holding)
           \/ open' = open \ {c}
    PROVE  PoolInv' /\ open' \subseteq Call
<1>1. open' \subseteq open /\ \A d \in open' : request'[d] = request[d] /\ pc'[d] \in Holding
    BY DEF IInv, TypeOK, PoolInv, PoolSound, Holding, Others
<1>2. IsFiniteSet(open')
    BY <1>1, FS_Subset DEF IInv, PoolInv
<1>3. ASSUME NEW p \in Configured PROVE Cardinality(InUse(p)') <= PoolSize
    <2>1. PICK S, T : S = InUse(p)' /\ T = InUse(p)
        OBVIOUS
    <2>2. S \subseteq T /\ T \subseteq open
        BY <1>1, <2>1 DEF InUse
    <2>3. IsFiniteSet(S) /\ IsFiniteSet(T) /\ Cardinality(S) <= Cardinality(T)
        BY <2>2, FS_Subset DEF IInv, PoolInv
    <2>4. Cardinality(S) \in Nat /\ Cardinality(T) \in Nat /\ Cardinality(T) <= PoolSize
        BY <2>1, <2>3, FS_CardinalityType DEF IInv, PoolInv, PoolSound
    <2>. QED BY <2>1, <2>3, <2>4, ProvidersAssumption
<1>. QED BY <1>1, <1>2, <1>3 DEF PoolInv, PoolSound, Holding, IInv, TypeOK

LEMMA InitInv == Init => IInv
<1>. SUFFICES ASSUME Init PROVE IInv
    OBVIOUS
<1>1. \A c \in Call : CallSound(c)
    BY NoParts, ProvidersAssumption DEF Init, CallSound, Sound
<1>2. TypeOK
    BY NothingReceived, ProvidersAssumption DEF Init, TypeOK, PC
<1>3. PoolInv
    <2>1. \A p : InUse(p) = {}
        BY DEF Init, InUse
    <2>2. \A p : Cardinality(InUse(p)) <= PoolSize
        BY <2>1, FS_EmptySet, ProvidersAssumption
    <2>. QED BY <2>2, FS_EmptySet DEF Init, PoolInv, PoolSound
<1>. QED BY <1>1, <1>2, <1>3 DEF IInv

LEMMA BeginInv == ASSUME IInv, NEW c \in Call, NEW r \in Request, Begin(c, r) PROVE Others(c) /\ IInv'
<1>1. Others(c)
    BY ProvidersAssumption DEF Begin, Goes, Others, IInv, TypeOK, PC, Status
<1>2. CallSound(c)'
    BY ProvidersAssumption DEF Begin, Goes, IInv, TypeOK, CallSound, Sound
<1>3. c \notin open
    BY DEF Begin, IInv, PoolInv, PoolSound
<1>4. open' = open \ {c}
    BY <1>3 DEF Begin
<1>. QED BY <1>1, <1>2, <1>4, PoolKept, StepInv

LEMMA DispatchInv == ASSUME IInv, NEW c \in Call, Dispatch(c) PROVE Others(c) /\ IInv'
<1>1. Others(c)
    BY ProvidersAssumption DEF Dispatch, Goes, Others, IInv, TypeOK, PC, Status
<1>2. CallSound(c)'
    BY ProvidersAssumption DEF Dispatch, Goes, IInv, TypeOK, CallSound, Sound
<1>3. c \notin open
    BY DEF Dispatch, IInv, PoolInv, PoolSound
<1>4. open' = open \ {c}
    BY <1>3 DEF Dispatch
<1>. QED BY <1>1, <1>2, <1>4, PoolKept, StepInv

LEMMA RaiseType ==
    ASSUME IInv, NEW c \in Call, NEW status \in Status, Raise(c, status)
    PROVE  /\ pc' = [pc EXCEPT ![c] = pc'[c]] /\ pc' \in [Call -> PC]
           /\ pc'[c] \in {"raised", "aborted"}
           /\ http' \in [Call -> Status] /\ \A d \in Call \ {c} : http'[d] = http[d]
BY DEF Raise, Goes, IInv, TypeOK, PC, Ended, Status

LEMMA DispatchNowhereInv == ASSUME IInv, NEW c \in Call, DispatchNowhere(c) PROVE Others(c) /\ IInv'
<1>1. /\ pc' \in [Call -> PC] /\ pc'[c] \in {"raised", "aborted"}
      /\ \A d \in Call \ {c} : pc'[d] = pc[d]
      /\ http' \in [Call -> Status] /\ \A d \in Call \ {c} : http'[d] = http[d]
    BY DEF DispatchNowhere, Raise, Goes, IInv, TypeOK, PC, Ended, Status
<1>2. Others(c)
    BY <1>1 DEF DispatchNowhere, Others, IInv, TypeOK
<1>3. CallSound(c)'
    BY <1>1 DEF DispatchNowhere, IInv, CallSound, Sound
<1>4. c \notin open
    BY DEF DispatchNowhere, IInv, PoolInv, PoolSound
<1>5. open' = open \ {c}
    BY <1>4 DEF DispatchNowhere
<1>. QED BY <1>2, <1>3, <1>5, PoolKept, StepInv

\* What one client receives leaves what the others have alone.
LEMMA ReceivedMoves ==
    ASSUME IInv, NEW c \in Call, NEW v, received' = [received EXCEPT ![c] = v]
    PROVE  /\ received' = [d \in Call |-> received'[d]] /\ received'[c] = v
           /\ \A d \in Call \ {c} : received'[d] = received[d]
<1>1. received = [d \in Call |-> received[d]]
    BY DEF IInv, TypeOK
<1>2. received' = [d \in Call |-> IF d = c THEN v ELSE received[d]]
    BY <1>1
<1>. QED BY <1>2

\* What AfterAnswer makes of a sound call with a new answer.
LEMMA AnswerSound ==
    ASSUME IInv, NEW c \in Call, NEW g \in 1..MaxAttempts, AfterAnswer(c, g), received[c] = <<>>
    PROVE  /\ pc' \in [Call -> PC] /\ http' \in [Call -> Status]
           /\ received' = [d \in Call |-> received'[d]]
           /\ \A d \in Call \ {c} :
                 pc'[d] = pc[d] /\ http'[d] = http[d] /\ received'[d] = received[d]
           /\ \/ pc'[c] = "replaying" /\ request[c].stream /\ received'[c] = <<>>
              \/ pc'[c] = "store" /\ ~request[c].stream /\ received'[c] = <<>>
              \/ pc'[c] = "done" /\ ~request[c].stream /\ received'[c] = Prefix(g, Parts)
<1>1. CASE request[c].stream /\ Goes(c, "replaying") /\ http' = [http EXCEPT ![c] = 200]
           /\ UNCHANGED received
    BY <1>1, SMTT(30) DEF Goes, IInv, TypeOK, PC, Status
<1>2. CASE ~request[c].stream /\ Goes(c, "store") /\ UNCHANGED <<received, http>>
    BY <1>2, SMTT(30) DEF Goes, IInv, TypeOK, PC, Status
<1>3. CASE ~request[c].stream /\ Goes(c, "done") /\ http' = [http EXCEPT ![c] = 200]
           /\ received' = [received EXCEPT ![c] = WholeOf(g)]
    <2>1. /\ pc' \in [Call -> PC] /\ http' \in [Call -> Status] /\ pc'[c] = "done"
          /\ \A d \in Call \ {c} : pc'[d] = pc[d] /\ http'[d] = http[d]
        BY <1>3, SMTT(30) DEF Goes, IInv, TypeOK, PC, Ended, Status
    <2>2. /\ received' = [d \in Call |-> received'[d]] /\ received'[c] = WholeOf(g)
          /\ \A d \in Call \ {c} : received'[d] = received[d]
        BY <1>3, ReceivedMoves
    <2>. QED BY <1>3, <2>1, <2>2, WholePrefix
<1>. QED BY <1>1, <1>2, <1>3 DEF AfterAnswer

LEMMA DispatchLocallyInv == ASSUME IInv, NEW c \in Call, DispatchLocally(c) PROVE Others(c) /\ IInv'
<1>1. /\ pc[c] = "embed" /\ attempts' = [attempts EXCEPT ![c] = 1]
      /\ generated' = [generated EXCEPT ![c] = 1] /\ UNCHANGED <<request, lost, open>>
      /\ AfterAnswer(c, 1)
    BY DEF DispatchLocally
<1>2. /\ request[c] \in Request /\ generated[c] = 0 /\ lost[c] = 0 /\ received[c] = <<>>
    BY <1>1 DEF IInv, CallSound, Sound, TypeOK
<1>3. /\ pc' \in [Call -> PC] /\ http' \in [Call -> Status]
      /\ received' = [d \in Call |-> received'[d]]
      /\ \A d \in Call \ {c} :
                 pc'[d] = pc[d] /\ http'[d] = http[d] /\ received'[d] = received[d]
      /\ \/ pc'[c] = "replaying" /\ request[c].stream /\ received'[c] = <<>>
         \/ pc'[c] = "store" /\ ~request[c].stream /\ received'[c] = <<>>
         \/ pc'[c] = "done" /\ ~request[c].stream /\ received'[c] = Prefix(1, Parts)
    BY <1>1, <1>2, AnswerSound, ProvidersAssumption
<1>4. Others(c)
    <2>1. /\ attempts' \in [Call -> 0..MaxAttempts] /\ generated' \in [Call -> Int]
          /\ lost' \in [Call -> Int] /\ request' \in [Call -> Request \cup {None}]
        BY <1>1, ProvidersAssumption DEF IInv, TypeOK
    <2>2. \A d \in Call \ {c} :
              /\ request'[d] = request[d] /\ attempts'[d] = attempts[d]
              /\ generated'[d] = generated[d] /\ lost'[d] = lost[d]
        BY <1>1 DEF IInv, TypeOK
    <2>. QED BY <1>3, <2>1, <2>2 DEF Others
<1>5. CallSound(c)'
    <2>1. generated'[c] = 1 /\ lost'[c] = 0 /\ request'[c] = request[c] /\ request[c] # None
        BY <1>1, <1>2, ProvidersAssumption DEF IInv, TypeOK
    <2>2. Prefix(1, 0) = <<>> /\ 0 \in 0..Parts /\ Parts \in 0..Parts /\ 1 <= MaxAttempts
        BY NoParts, ProvidersAssumption
    <2>. QED BY <1>3, <2>1, <2>2 DEF CallSound, Sound
<1>6. c \notin open
    BY <1>1 DEF IInv, PoolInv, PoolSound
<1>7. open' = open \ {c}
    BY <1>1, <1>6
<1>. QED BY <1>4, <1>5, <1>7, PoolKept, StepInv

\* Embedding again costs an attempt and no generation.
LEMMA EmbeddingFailsInv ==
    ASSUME IInv, NEW c \in Call, EmbeddingFails(c) \/ EmbeddingUnreadable(c)
    PROVE  Others(c) /\ IInv'
<1>1. /\ pc[c] \in {"embed", "store"}
      /\ UNCHANGED <<request, generated, lost, received, open>>
      /\ \/ /\ attempts[c] < MaxAttempts
            /\ attempts' = [attempts EXCEPT ![c] = attempts[c] + 1] /\ UNCHANGED <<pc, http>>
         \/ Raise(c, 500) /\ UNCHANGED attempts
    BY DEF EmbeddingFails, EmbeddingUnreadable
<1>2. /\ pc' \in [Call -> PC] /\ pc'[c] \in {"raised", "aborted", pc[c]}
      /\ http' \in [Call -> Status]
      /\ \A d \in Call \ {c} : pc'[d] = pc[d] /\ http'[d] = http[d]
    BY <1>1 DEF Raise, Goes, IInv, TypeOK, PC, Ended, Status
<1>3. /\ attempts' \in [Call -> 0..MaxAttempts]
      /\ \A d \in Call \ {c} : attempts'[d] = attempts[d]
    BY <1>1, ProvidersAssumption DEF IInv, TypeOK
<1>4. Others(c)
    BY <1>1, <1>2, <1>3 DEF Others, IInv, TypeOK
<1>5. CallSound(c)'
    BY <1>1, <1>2 DEF IInv, CallSound, Sound
<1>6. c \notin open
    BY <1>1 DEF IInv, PoolInv, PoolSound
<1>7. open' = open \ {c}
    BY <1>1, <1>6
<1>. QED BY <1>4, <1>5, <1>7, PoolKept, StepInv

LEMMA ConnectInv == ASSUME IInv, NEW c \in Call, Connect(c) PROVE Others(c) /\ IInv'
<1>1. /\ pc[c] = "connect" /\ pc' = [pc EXCEPT ![c] = "sent"] /\ open' = open \cup {c}
      /\ UNCHANGED <<request, attempts, generated, lost, received, http>>
      /\ Cardinality(InUse(request[c].provider)) < PoolSize
    BY DEF Connect, Goes
<1>2. Others(c)
    BY <1>1 DEF Others, IInv, TypeOK, PC, Status
<1>3. CallSound(c)'
    <2>1. pc'[c] = "sent"
        BY <1>1 DEF IInv, TypeOK
    <2>. QED BY <1>1, <2>1 DEF IInv, CallSound, Sound
<1>4. c \notin open
    BY <1>1 DEF IInv, PoolInv, PoolSound
<1>5. IsFiniteSet(open')
    BY <1>1, FS_AddElement DEF IInv, PoolInv
<1>6. \A d \in open' : pc'[d] \in Holding
    BY <1>1 DEF IInv, TypeOK, PoolInv, PoolSound, Holding
<1>7. ASSUME NEW p \in Configured PROVE Cardinality(InUse(p)') <= PoolSize
    <2>1. PICK S, T : S = InUse(p)' /\ T = InUse(p)
        OBVIOUS
    <2>2. IsFiniteSet(T) /\ Cardinality(T) \in Nat /\ Cardinality(T) <= PoolSize
        <3>1. T \subseteq open
            BY <2>1 DEF InUse
        <3>. QED BY <2>1, <3>1, FS_Subset, FS_CardinalityType DEF IInv, PoolInv, PoolSound
    <2>3. CASE request[c].provider = p
        <3>1. S = T \cup {c} /\ c \notin T
            BY <1>1, <1>4, <2>1, <2>3 DEF InUse
        <3>2. Cardinality(S) = Cardinality(T) + 1
            BY <2>2, <3>1, FS_AddElement
        <3>. QED BY <1>1, <2>1, <2>2, <2>3, <3>2, ProvidersAssumption
    <2>4. CASE request[c].provider # p
        <3>1. S = T
            BY <1>1, <2>1, <2>4 DEF InUse
        <3>. QED BY <2>1, <2>2, <3>1
    <2>. QED BY <2>3, <2>4
<1>8. PoolInv'
    BY <1>5, <1>6, <1>7 DEF PoolInv, PoolSound, Holding
<1>9. open' \subseteq Call
    BY <1>1 DEF IInv, TypeOK
<1>. QED BY <1>2, <1>3, <1>8, <1>9, StepInv

LEMMA GenerateInv == ASSUME IInv, NEW c \in Call, Generate(c) PROVE Others(c) /\ IInv'
<1>1. /\ pc[c] = "sent" /\ pc' = [pc EXCEPT ![c] = "generated"]
      /\ generated' = [generated EXCEPT ![c] = generated[c] + 1]
      /\ UNCHANGED <<request, attempts, lost, received, http, open>>
    BY DEF Generate, Goes
<1>2. pc' \in [Call -> PC] /\ generated' \in [Call -> Int]
    BY <1>1 DEF IInv, TypeOK, PC
<1>3. Others(c)
    BY <1>1, <1>2 DEF Others, IInv, TypeOK, Status
<1>4. CallSound(c)'
    <2>1. pc'[c] = "generated" /\ generated'[c] = generated[c] + 1
        BY <1>1 DEF IInv, TypeOK
    <2>2. Prefix(generated[c] + 1, 0) = <<>> /\ 0 \in 0..Parts
        BY NoParts, ProvidersAssumption
    <2>3. attempts[c] \in 0..MaxAttempts /\ generated[c] \in 0..MaxAttempts
        BY DEF IInv, TypeOK
    <2>4. generated[c] = lost[c] /\ lost[c] < attempts[c] /\ received[c] = <<>> /\ lost[c] \in Nat
        BY <1>1 DEF IInv, CallSound, Sound
    <2>. QED BY <1>1, <2>1, <2>2, <2>3, <2>4, ProvidersAssumption DEF IInv, CallSound, Sound
<1>5. c \in open => pc'[c] \in Holding
    BY <1>1 DEF IInv, TypeOK, Holding
<1>. QED BY <1>1, <1>3, <1>4, <1>5, PoolKept, StepInv

\* An attempt that ended without an answer.
LEMMA TransportErrorInv == ASSUME IInv, NEW c \in Call, TransportError(c) PROVE Others(c) /\ IInv'
<1>1. /\ pc[c] \in {"connect", "sent", "generated"} /\ open' = open \ {c}
      /\ lost' = [lost EXCEPT ![c] = IF pc[c] = "generated" THEN lost[c] + 1 ELSE lost[c]]
      /\ UNCHANGED <<request, generated, received>>
      /\ \/ /\ attempts[c] < MaxAttempts /\ ~NativeStream(c) /\ Goes(c, "connect")
            /\ attempts' = [attempts EXCEPT ![c] = attempts[c] + 1] /\ UNCHANGED http
         \/ Raise(c, 500) /\ UNCHANGED attempts
    BY DEF TransportError, RetryOrRaise, Release, Loses
<1>2. /\ pc' \in [Call -> PC] /\ http' \in [Call -> Status]
      /\ \A d \in Call \ {c} : pc'[d] = pc[d] /\ http'[d] = http[d]
    BY <1>1 DEF Raise, Goes, IInv, TypeOK, PC, Ended, Status
<1>3. /\ attempts' \in [Call -> 0..MaxAttempts] /\ lost' \in [Call -> Int]
      /\ \A d \in Call \ {c} : attempts'[d] = attempts[d] /\ lost'[d] = lost[d]
    BY <1>1, ProvidersAssumption DEF IInv, TypeOK
<1>4. Others(c)
    BY <1>1, <1>2, <1>3 DEF Others, IInv, TypeOK
<1>5. CallSound(c)'
    <2>1. lost'[c] = IF pc[c] = "generated" THEN lost[c] + 1 ELSE lost[c]
        BY <1>1 DEF IInv, TypeOK
    <2>2. \/ pc'[c] = "connect" /\ ~NativeStream(c) /\ attempts'[c] = attempts[c] + 1
          \/ pc'[c] \in {"raised", "aborted"} /\ attempts'[c] = attempts[c]
        BY <1>1 DEF Raise, Goes, IInv, TypeOK
    <2>3. attempts[c] \in 0..MaxAttempts /\ generated[c] \in 0..MaxAttempts
        BY DEF IInv, TypeOK
    <2>. QED BY <1>1, <2>1, <2>2, <2>3, ProvidersAssumption, SMTT(90)
            DEF IInv, CallSound, Sound, NativeStream
<1>. QED BY <1>1, <1>4, <1>5, PoolKept, StepInv

LEMMA StatusType == \A code \in StatusCode : ClientStatus(code) \in Status
BY ProvidersAssumption DEF ClientStatus, Status

\* An answer that is an error, or no answer at all to whoever asked.
LEMMA RaisedInv ==
    ASSUME IInv, NEW c \in Call, Unreadable(c) \/ \E code \in StatusCode : ErrorStatus(c, code)
    PROVE  Others(c) /\ IInv'
<1>1. PICK status \in Status : Raise(c, status)
    BY StatusType DEF ErrorStatus, Unreadable, Status
<1>2. /\ pc[c] \in {"sent", "generated"} /\ open' = open \ {c}
      /\ lost' \in {lost, [lost EXCEPT ![c] = IF pc[c] = "generated" THEN lost[c] + 1 ELSE lost[c]]}
      /\ UNCHANGED <<request, attempts, generated, received>>
    BY DEF ErrorStatus, Unreadable, Release, Loses
<1>3. /\ pc' \in [Call -> PC] /\ http' \in [Call -> Status] /\ pc'[c] \in {"raised", "aborted"}
      /\ \A d \in Call \ {c} : pc'[d] = pc[d] /\ http'[d] = http[d]
    BY <1>1 DEF Raise, Goes, IInv, TypeOK, PC, Ended, Status
<1>4. /\ lost' \in [Call -> Int] /\ \A d \in Call \ {c} : lost'[d] = lost[d]
      /\ lost'[c] \in {lost[c], IF pc[c] = "generated" THEN lost[c] + 1 ELSE lost[c]}
    BY <1>2 DEF IInv, TypeOK
<1>5. Others(c)
    BY <1>2, <1>3, <1>4 DEF Others, IInv, TypeOK
<1>6. CallSound(c)'
    BY <1>2, <1>3, <1>4 DEF IInv, CallSound, Sound
<1>. QED BY <1>2, <1>5, <1>6, PoolKept, StepInv

LEMMA AnswerInv == ASSUME IInv, NEW c \in Call, Answer(c) PROVE Others(c) /\ IInv'
<1>1. /\ pc[c] = "generated" /\ ~NativeStream(c) /\ attempts' = [attempts EXCEPT ![c] = 1]
      /\ UNCHANGED <<request, generated, lost>> /\ open' = open \ {c}
      /\ AfterAnswer(c, generated[c])
    BY DEF Answer, Release
<1>2. /\ generated[c] = lost[c] + 1 /\ lost[c] \in Nat /\ generated[c] \in 1..MaxAttempts
      /\ received[c] = <<>>
    BY <1>1 DEF IInv, CallSound, Sound, TypeOK
<1>3. /\ pc' \in [Call -> PC] /\ http' \in [Call -> Status]
      /\ received' = [d \in Call |-> received'[d]]
      /\ \A d \in Call \ {c} :
                 pc'[d] = pc[d] /\ http'[d] = http[d] /\ received'[d] = received[d]
      /\ \/ pc'[c] = "replaying" /\ request[c].stream /\ received'[c] = <<>>
         \/ pc'[c] = "store" /\ ~request[c].stream /\ received'[c] = <<>>
         \/ pc'[c] = "done" /\ ~request[c].stream /\ received'[c] = Prefix(generated[c], Parts)
    BY <1>1, <1>2, AnswerSound
<1>4. Others(c)
    <2>1. /\ attempts' \in [Call -> 0..MaxAttempts]
          /\ \A d \in Call \ {c} : attempts'[d] = attempts[d]
        BY <1>1, ProvidersAssumption DEF IInv, TypeOK
    <2>. QED BY <1>1, <1>3, <2>1 DEF Others, IInv, TypeOK
<1>5. CallSound(c)'
    <2>1. 0 \in 0..Parts /\ Parts \in 0..Parts /\ Prefix(generated[c], 0) = <<>>
        BY NoParts, ProvidersAssumption
    <2>2. attempts'[c] = 1
        BY <1>1 DEF IInv, TypeOK
    <2>. QED BY <1>1, <1>2, <1>3, <2>1, <2>2 DEF IInv, CallSound, Sound, NativeStream
<1>. QED BY <1>1, <1>4, <1>5, PoolKept, StepInv

LEMMA StreamOpensInv == ASSUME IInv, NEW c \in Call, StreamOpens(c) PROVE Others(c) /\ IInv'
<1>1. Others(c)
    BY DEF StreamOpens, Goes, Others, IInv, TypeOK, PC, Status
<1>2. pc[c] = "generated" /\ NativeStream(c) /\ pc'[c] = "streaming"
    BY DEF StreamOpens, Goes, IInv, TypeOK
<1>3. CallSound(c)'
    BY <1>2 DEF StreamOpens, IInv, CallSound, Sound, NativeStream
<1>4. open' = open /\ request' = request
    BY DEF StreamOpens
<1>. QED BY <1>1, <1>2, <1>3, <1>4, PoolKept, StepInv DEF Holding

\* A chunk is the next part of the generation that is sent.
LEMMA ChunkSends ==
    ASSUME IInv, NEW c \in Call, Chunk(c)
    PROVE  \E n \in 0..(Parts - 1) :
               received[c] = Prefix(generated[c], n) /\ received'[c] = Prefix(generated[c], n + 1)
<1>1. PICK n \in 0..Parts : received[c] = Prefix(generated[c], n)
    BY DEF IInv, CallSound, Sound
<1>2. n < Parts
    BY <1>1, PrefixLen, ProvidersAssumption DEF Chunk
<1>3. received'[c] = Append(Prefix(generated[c], n), [generation |-> generated[c], part |-> n + 1])
    BY <1>1, PrefixLen DEF Chunk, IInv, TypeOK
<1>. QED BY <1>1, <1>2, <1>3, NextPart, ProvidersAssumption

LEMMA ChunkInv == ASSUME IInv, NEW c \in Call, Chunk(c) PROVE Others(c) /\ IInv'
<1>1. /\ pc[c] \in {"streaming", "replaying"}
      /\ UNCHANGED <<pc, request, attempts, generated, lost, http, open>>
      /\ received' = [d \in Call |-> received'[d]]
      /\ \A d \in Call \ {c} : received'[d] = received[d]
    BY ReceivedMoves DEF Chunk
<1>2. Others(c)
    BY <1>1 DEF Others, IInv, TypeOK, Status
<1>3. CallSound(c)'
    <2>1. PICK n \in 0..(Parts - 1) : received'[c] = Prefix(generated[c], n + 1)
        BY ChunkSends
    <2>2. n + 1 \in 0..Parts
        BY ProvidersAssumption
    <2>3. generated[c] = lost[c] + 1 /\ lost[c] \in Nat
        BY <1>1 DEF IInv, CallSound, Sound
    <2>. QED BY <1>1, <2>1, <2>2, <2>3 DEF IInv, CallSound, Sound
<1>4. c \in open => pc'[c] \in Holding
    BY <1>1 DEF IInv, PoolInv, PoolSound, Holding
<1>. QED BY <1>1, <1>2, <1>3, <1>4, PoolKept, StepInv

\* The ends of a stream and of a call.
LEMMA StreamEndsInv ==
    ASSUME IInv, NEW c \in Call,
           \/ StreamEnds(c) \/ StreamBreaks(c) \/ AssemblyFails(c)
           \/ Disconnect(c) \/ Finalize(c)
    PROVE  Others(c) /\ IInv'
<1>1. /\ pc' \in [Call -> PC] /\ \A d \in Call \ {c} : pc'[d] = pc[d]
      /\ attempts' \in [Call -> 0..MaxAttempts] /\ \A d \in Call \ {c} : attempts'[d] = attempts[d]
      /\ UNCHANGED <<request, generated, lost, received, http>>
    <2>1. CASE StreamEnds(c)
        <3>1. PICK to \in {"store", "done", "incomplete"} : pc' = [pc EXCEPT ![c] = to]
            BY <2>1 DEF StreamEnds, Goes
        <3>2. pc' \in [Call -> PC] /\ \A d \in Call \ {c} : pc'[d] = pc[d]
            BY <3>1 DEF IInv, TypeOK, PC, Ended
        <3>3. attempts' = [attempts EXCEPT ![c] = 1]
            BY <2>1 DEF StreamEnds
        <3>4. /\ attempts' \in [Call -> 0..MaxAttempts]
              /\ \A d \in Call \ {c} : attempts'[d] = attempts[d]
            BY <3>3, ProvidersAssumption DEF IInv, TypeOK
        <3>. QED BY <2>1, <3>2, <3>4 DEF StreamEnds
    <2>2. CASE StreamBreaks(c) \/ AssemblyFails(c) \/ Disconnect(c) \/ Finalize(c)
        BY <2>2 DEF StreamBreaks, AssemblyFails, Disconnect, Finalize, Goes, IInv, TypeOK, PC, Ended
    <2>. QED BY <2>1, <2>2
<1>2. Others(c)
    BY <1>1 DEF Others, IInv, TypeOK, Status
<1>3. \/ pc[c] \in {"streaming", "replaying"} /\ Len(received[c]) = Parts /\ pc'[c] \in {"store", "done"}
      \/ pc[c] # "idle" /\ pc'[c] \in {"incomplete", "aborted", "leaving", "closed"}
    <2>1. CASE StreamEnds(c)
        BY <2>1 DEF StreamEnds, Goes, IInv, TypeOK
    <2>2. CASE StreamBreaks(c) \/ AssemblyFails(c) \/ Finalize(c)
        BY <2>2 DEF StreamBreaks, AssemblyFails, Finalize, Goes, IInv, TypeOK
    <2>3. CASE Disconnect(c)
        BY <2>3 DEF Disconnect, Goes, IInv, TypeOK, CallSound
    <2>. QED BY <2>1, <2>2, <2>3
<1>4. CallSound(c)'
    <2>1. CASE pc[c] \in {"streaming", "replaying"} /\ Len(received[c]) = Parts
               /\ pc'[c] \in {"store", "done"}
        <3>1. received[c] = Prefix(generated[c], Parts)
            BY <2>1, PrefixLen DEF IInv, CallSound, Sound
        <3>. QED BY <1>1, <2>1, <3>1 DEF IInv, CallSound, Sound
    <2>2. CASE pc[c] # "idle" /\ pc'[c] \in {"incomplete", "aborted", "leaving", "closed"}
        BY <1>1, <2>2 DEF IInv, CallSound, Sound
    <2>. QED BY <1>3, <2>1, <2>2
<1>5. \/ open' = open /\ request'[c] = request[c] /\ pc'[c] \in Holding
      \/ open' = open \ {c}
    BY DEF StreamEnds, StreamBreaks, AssemblyFails, Disconnect, Finalize, Goes, Release,
           IInv, TypeOK, Holding
<1>. QED BY <1>2, <1>4, <1>5, PoolKept, StepInv

LEMMA StoredInv == ASSUME IInv, NEW c \in Call, Stored(c) PROVE Others(c) /\ IInv'
<1>1. /\ pc' \in [Call -> PC] /\ \A d \in Call \ {c} : pc'[d] = pc[d]
      /\ http' \in [Call -> Status] /\ \A d \in Call \ {c} : http'[d] = http[d]
      /\ UNCHANGED <<request, attempts, generated, lost, open>>
      /\ pc[c] = "store" /\ pc'[c] = "done"
    BY DEF Stored, Goes, IInv, TypeOK, PC, Ended, Status
<1>2. /\ received' = [d \in Call |-> received'[d]] /\ received'[c] = Prefix(generated[c], Parts)
      /\ \A d \in Call \ {c} : received'[d] = received[d]
    BY ReceivedMoves, WholePrefix DEF Stored
<1>3. Others(c)
    BY <1>1, <1>2 DEF Others, IInv, TypeOK
<1>4. CallSound(c)'
    <2>1. Parts \in 0..Parts
        BY ProvidersAssumption
    <2>2. generated[c] = lost[c] + 1 /\ lost[c] \in Nat
        BY <1>1 DEF IInv, CallSound, Sound
    <2>. QED BY <1>1, <1>2, <2>1, <2>2 DEF IInv, CallSound, Sound
<1>5. c \notin open
    BY <1>1 DEF IInv, PoolInv, PoolSound
<1>. QED BY <1>1, <1>3, <1>4, <1>5, PoolKept, StepInv
-----------------------------------------------------------------------------
LEMMA InvInductive == IInv /\ [Next]_vars => IInv'
<1>. SUFFICES ASSUME IInv, [Next]_vars PROVE IInv'
    OBVIOUS
<1>1. ASSUME NEW c \in Call, Progress(c) PROVE IInv'
    <2>1. CASE Dispatch(c) \/ DispatchNowhere(c) \/ DispatchLocally(c)
        BY <2>1, DispatchInv, DispatchNowhereInv, DispatchLocallyInv
    <2>2. CASE EmbeddingFails(c) \/ EmbeddingUnreadable(c)
        BY <2>2, EmbeddingFailsInv
    <2>3. CASE Connect(c) \/ Generate(c) \/ TransportError(c)
        BY <2>3, ConnectInv, GenerateInv, TransportErrorInv
    <2>4. ASSUME NEW code \in StatusCode, ErrorStatus(c, code) PROVE IInv'
        BY <2>4, RaisedInv
    <2>5. CASE Unreadable(c)
        BY <2>5, RaisedInv
    <2>6. CASE Answer(c) \/ StreamOpens(c) \/ Chunk(c)
        BY <2>6, AnswerInv, StreamOpensInv, ChunkInv
    <2>7. CASE StreamEnds(c) \/ StreamBreaks(c) \/ AssemblyFails(c) \/ Finalize(c)
        BY <2>7, StreamEndsInv
    <2>8. CASE Stored(c)
        BY <2>8, StoredInv
    <2>. QED BY <1>1, <2>1, <2>2, <2>3, <2>4, <2>5, <2>6, <2>7, <2>8 DEF Progress
<1>2. ASSUME NEW c \in Call, Disconnect(c) PROVE IInv'
    BY <1>2, StreamEndsInv
<1>3. ASSUME NEW c \in Call, NEW r \in Request, Begin(c, r) PROVE IInv'
    BY <1>3, BeginInv
<1>4. CASE UNCHANGED vars
    BY <1>4 DEF vars, IInv, TypeOK, CallSound, PoolInv, PoolSound, InUse
<1>. QED BY <1>1, <1>2, <1>3, <1>4 DEF Next, AllEnded

LEMMA InvHolds == Spec => []IInv
BY InitInv, InvInductive, PTL DEF Spec

\* With any attempts lost in any way, a call makes at most as many generations
\* as it has attempts, and its client has parts of them.
THEOREM ProvidersTypeCorrect == Spec => []TypeOK
<1>1. IInv => TypeOK
    BY DEF IInv
<1>. QED BY <1>1, InvHolds, PTL

\* Only a generation whose answer was lost is paid for again, and a client that
\* got its answer has paid for the lost ones and its own.
THEOREM GenerationsPaidOnce == Spec => []PaidOnce
<1>1. IInv => PaidOnce
    BY DEF IInv, CallSound, Sound, PaidOnce, NativeStream
<1>. QED BY <1>1, InvHolds, PTL

\* Connections never exceed the pool, and no call that has ended holds one.
THEOREM PoolsAreSound == Spec => []PoolSound
<1>1. IInv => PoolSound
    BY DEF IInv, PoolInv
<1>. QED BY <1>1, InvHolds, PTL
-----------------------------------------------------------------------------
(* The refinement of Completer. *)

VerdictNow == [c \in Call |-> Verdict(c)]

\* Steps that are seen through the verdicts and what the clients have.
LEMMA SeenStutter ==
    ASSUME NEW c \in Call, Others(c), IInv, Verdict(c)' = Verdict(c), received'[c] = received[c]
    PROVE  UNCHANGED <<received, VerdictNow>>
BY DEF Others, IInv, TypeOK, VerdictNow, Verdict

LEMMA SeenFail ==
    ASSUME NEW c \in Call, Others(c), IInv, Verdict(c) = "open", Verdict(c)' = "failed",
           received'[c] = received[c]
    PROVE  Contract!Fail(c)
<1>1. received' = received
    BY DEF Others, IInv, TypeOK
<1>2. VerdictNow' = [VerdictNow EXCEPT ![c] = "failed"] /\ VerdictNow[c] = "open"
    BY ZenonT(30) DEF Others, VerdictNow, Verdict
<1>. QED BY <1>1, <1>2 DEF Contract!Fail, VerdictNow

\* The client has all parts when the call is done.
LEMMA SeenDone ==
    ASSUME NEW c \in Call, Others(c), IInv, Verdict(c) = "open", Verdict(c)' = "done",
           generated[c] \in 0..MaxAttempts, generated'[c] \in 1..MaxAttempts,
           received[c] = <<>> \/ received[c] = Prefix(generated'[c], Parts),
           received'[c] = Prefix(generated'[c], Parts)
    PROVE  Contract!Forward(c) \/ Contract!Finish(c)
<1>1. VerdictNow' = [VerdictNow EXCEPT ![c] = "done"] /\ VerdictNow[c] = "open"
    BY ZenonT(30) DEF Others, VerdictNow, Verdict
<1>2. received' = [received EXCEPT ![c] = Prefix(generated'[c], Parts)]
    BY DEF Others, IInv, TypeOK
<1>3. Parts \in Nat \ {0} /\ Len(Prefix(generated'[c], Parts)) = Parts
    BY PrefixLen, ProvidersAssumption
<1>4. CASE received[c] = <<>>
    <2>1. Len(received[c]) = 0 /\ received[c] = Prefix(generated'[c], 0)
        BY <1>4, NoParts
    <2>2. Parts \in 1..Parts
        BY <1>3
    <2>3. received'[c] = Prefix(generated'[c], Parts)
        OBVIOUS
    <2>4. PICK g \in 1..MaxAttempts : g = generated'[c]
        OBVIOUS
    <2>5. received' = [received EXCEPT ![c] = Contract!Prefix(g, Parts)] /\ Len(received'[c]) = Parts
        BY <1>2, <1>3, <2>3, <2>4 DEF Prefix
    <2>6. received[c] = Contract!Prefix(g, Len(received[c])) /\ Parts \in (Len(received[c]) + 1)..Parts
        BY <1>3, <2>1, <2>2, <2>4 DEF Prefix
    <2>. QED BY <1>1, <2>5, <2>6 DEF Contract!Forward, VerdictNow
<1>5. CASE received[c] = Prefix(generated'[c], Parts)
    <2>1. received' = received
        BY <1>5 DEF Others, IInv, TypeOK
    <2>. QED BY <1>1, <1>3, <1>5, <2>1 DEF Contract!Finish, VerdictNow
<1>. QED BY <1>4, <1>5

LEMMA SeenChunk ==
    ASSUME NEW c \in Call, IInv, Chunk(c) PROVE Contract!Forward(c)
<1>1. PICK n \in 0..(Parts - 1) :
          received[c] = Prefix(generated[c], n) /\ received'[c] = Prefix(generated[c], n + 1)
    BY ChunkSends
<1>2. received' = [received EXCEPT ![c] = Prefix(generated[c], n + 1)]
    BY <1>1, ZenonT(30) DEF Chunk, IInv, TypeOK
<1>3. VerdictNow[c] = "open" /\ VerdictNow' = VerdictNow
    BY DEF Chunk, VerdictNow, Verdict, Ended
<1>4. Len(received[c]) = n /\ n + 1 \in (n + 1)..Parts
    BY <1>1, PrefixLen, ProvidersAssumption
<1>5. generated[c] \in 1..MaxAttempts
    BY DEF Chunk, IInv, TypeOK, CallSound, Sound
<1>. QED BY <1>1, <1>2, <1>3, <1>4, <1>5 DEF Contract!Forward, VerdictNow, Prefix

LEMMA SeenProgress ==
    ASSUME IInv, NEW c \in Call, Progress(c) \/ Disconnect(c) \/ \E r \in Request : Begin(c, r)
    PROVE  \/ UNCHANGED <<received, VerdictNow>>
           \/ Contract!Forward(c) \/ Contract!Finish(c) \/ Contract!Fail(c)
<1>. USE DEF Verdict, Ended
<1>1. ASSUME NEW r \in Request, Begin(c, r) PROVE UNCHANGED <<received, VerdictNow>>
    <2>1. Verdict(c)' = Verdict(c) /\ received' = received
        BY <1>1 DEF Begin, Goes, IInv, TypeOK
    <2>. QED BY <1>1, <2>1, BeginInv, SeenStutter
<1>2. CASE Dispatch(c)
    <2>1. Verdict(c)' = Verdict(c) /\ received' = received
        BY <1>2 DEF Dispatch, Goes, IInv, TypeOK
    <2>. QED BY <1>2, <2>1, DispatchInv, SeenStutter
<1>3. CASE DispatchNowhere(c)
    <2>1. Verdict(c) = "open" /\ Verdict(c)' = "failed" /\ received' = received
        BY <1>3 DEF DispatchNowhere, Raise, Goes, IInv, TypeOK
    <2>. QED BY <1>3, <2>1, DispatchNowhereInv, SeenFail
<1>4. CASE DispatchLocally(c) \/ Answer(c)
    <2>1. Others(c)
        BY <1>4, DispatchLocallyInv, AnswerInv
    <2>2. PICK g \in 1..MaxAttempts :
              AfterAnswer(c, g) /\ generated'[c] = g /\ received[c] = <<>> /\ Verdict(c) = "open"
        <3>1. CASE DispatchLocally(c)
            BY <3>1, ProvidersAssumption DEF DispatchLocally, IInv, TypeOK, CallSound, Sound
        <3>2. CASE Answer(c)
            BY <3>2 DEF Answer, IInv, TypeOK, CallSound, Sound
        <3>. QED BY <1>4, <3>1, <3>2
    <2>3. \/ pc'[c] \in {"replaying", "store"} /\ received'[c] = <<>>
          \/ pc'[c] = "done" /\ received'[c] = Prefix(g, Parts)
        BY <2>2, AnswerSound
    <2>4. generated[c] \in 0..MaxAttempts
        BY DEF IInv, TypeOK
    <2>5. CASE pc'[c] \in {"replaying", "store"} /\ received'[c] = <<>>
        BY <2>1, <2>2, <2>5, SeenStutter
    <2>6. CASE pc'[c] = "done" /\ received'[c] = Prefix(g, Parts)
        BY <2>1, <2>2, <2>4, <2>6, SeenDone
    <2>. QED BY <2>3, <2>5, <2>6
<1>5. CASE EmbeddingFails(c) \/ EmbeddingUnreadable(c)
    <2>1. received' = received
        BY <1>5 DEF EmbeddingFails, EmbeddingUnreadable
    <2>2. \/ pc'[c] = pc[c]
          \/ Verdict(c) = "open" /\ Verdict(c)' = "failed"
        BY <1>5 DEF EmbeddingFails, EmbeddingUnreadable, Raise, Goes, IInv, TypeOK
    <2>. QED BY <1>5, <2>1, <2>2, EmbeddingFailsInv, SeenStutter, SeenFail
<1>6. CASE Connect(c)
    <2>1. Verdict(c)' = Verdict(c) /\ received' = received
        BY <1>6 DEF Connect, Goes, IInv, TypeOK
    <2>. QED BY <1>6, <2>1, ConnectInv, SeenStutter
<1>7. CASE Generate(c)
    <2>1. Verdict(c)' = Verdict(c) /\ received' = received
        BY <1>7 DEF Generate, Goes, IInv, TypeOK
    <2>. QED BY <1>7, <2>1, GenerateInv, SeenStutter
<1>8. CASE TransportError(c)
    <2>1. received' = received
        BY <1>8 DEF TransportError
    <2>2. \/ Verdict(c)' = Verdict(c)
          \/ Verdict(c) = "open" /\ Verdict(c)' = "failed"
        BY <1>8 DEF TransportError, RetryOrRaise, Raise, Goes, IInv, TypeOK
    <2>. QED BY <1>8, <2>1, <2>2, TransportErrorInv, SeenStutter, SeenFail
<1>9. CASE Unreadable(c) \/ \E code \in StatusCode : ErrorStatus(c, code)
    <2>1. Verdict(c) = "open" /\ Verdict(c)' = "failed" /\ received' = received
        BY <1>9 DEF Unreadable, ErrorStatus, Raise, Goes, IInv, TypeOK
    <2>. QED BY <1>9, <2>1, RaisedInv, SeenFail
<1>10. CASE StreamOpens(c)
    <2>1. Verdict(c)' = Verdict(c) /\ received' = received
        BY <1>10 DEF StreamOpens, Goes, IInv, TypeOK
    <2>. QED BY <1>10, <2>1, StreamOpensInv, SeenStutter
<1>11. CASE Chunk(c)
    BY <1>11, SeenChunk
<1>12. CASE \/ StreamEnds(c) \/ StreamBreaks(c) \/ AssemblyFails(c)
            \/ Disconnect(c) \/ Finalize(c)
    <2>1. received' = received /\ generated' = generated
        BY <1>12 DEF StreamEnds, StreamBreaks, AssemblyFails, Disconnect, Finalize
    <2>2. \/ Verdict(c)' = Verdict(c)
          \/ Verdict(c) = "open" /\ Verdict(c)' = "failed"
          \/ /\ pc[c] \in {"streaming", "replaying"} /\ Len(received[c]) = Parts
             /\ Verdict(c) = "open" /\ Verdict(c)' = "done"
        BY <1>12 DEF StreamEnds, StreamBreaks, AssemblyFails, Disconnect, Finalize, Goes,
                     IInv, TypeOK
    <2>3. CASE Verdict(c)' = Verdict(c) \/ (Verdict(c) = "open" /\ Verdict(c)' = "failed")
        BY <1>12, <2>1, <2>3, StreamEndsInv, SeenStutter, SeenFail
    <2>4. CASE /\ pc[c] \in {"streaming", "replaying"} /\ Len(received[c]) = Parts
               /\ Verdict(c) = "open" /\ Verdict(c)' = "done"
        <3>1. received[c] = Prefix(generated[c], Parts) /\ generated[c] \in 1..MaxAttempts
            BY <2>4, PrefixLen DEF IInv, TypeOK, CallSound, Sound
        <3>. QED BY <1>12, <2>1, <2>4, <3>1, StreamEndsInv, SeenDone
    <2>. QED BY <2>2, <2>3, <2>4
<1>13. CASE Stored(c)
    <2>1. Verdict(c) = "open" /\ Verdict(c)' = "done" /\ generated' = generated
        BY <1>13 DEF Stored, Goes, IInv, TypeOK
    <2>2. received'[c] = Prefix(generated[c], Parts)
        BY <1>13, WholePrefix DEF Stored, IInv, TypeOK
    <2>3. received[c] \in {<<>>, Prefix(generated[c], Parts)} /\ generated[c] \in 1..MaxAttempts
        BY <1>13 DEF Stored, IInv, TypeOK, CallSound, Sound
    <2>. QED BY <1>13, <2>1, <2>2, <2>3, StoredInv, SeenDone
<1>. QED BY <1>1, <1>2, <1>3, <1>4, <1>5, <1>6, <1>7, <1>8, <1>9, <1>10, <1>11, <1>12, <1>13 DEF Progress

\* Retries, both ways to stream, disconnects and failed embeddings are hidden
\* from a client: it gets the parts of one generation in order, all of them
\* before its call is done, and nothing after a failure.
THEOREM ProvidersImplementCompleter == Spec => ImplementsCompleter
<1>1. Init => Contract!Init
    BY DEF Init, Contract!Init, Verdict, Ended
<1>2. IInv /\ [Next]_vars => [Contract!Next]_<<received, VerdictNow>>
    <2>. SUFFICES ASSUME IInv, Next PROVE [Contract!Next]_<<received, VerdictNow>>
        BY DEF vars, VerdictNow, Verdict
    <2>1. CASE UNCHANGED vars
        BY <2>1 DEF vars, VerdictNow, Verdict
    <2>. QED BY <2>1, SeenProgress DEF Next, AllEnded, Contract!Next
<1>. QED BY <1>1, <1>2, InvHolds, PTL DEF Spec, ImplementsCompleter, Contract!Spec, VerdictNow
=============================================================================
