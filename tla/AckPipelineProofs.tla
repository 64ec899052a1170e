-------------------------- MODULE AckPipelineProofs --------------------------
(***************************************************************************)
(* Proofs about AckPipeline, for every number of updates, batches, inputs  *)
(* and transfers, and every timeout.                                       *)
(***************************************************************************)
EXTENDS AckPipeline, FiniteSetTheorems, TLAPS

\* The outstanding acknowledgements are finitely many, each numbered below
\* the next one, and belong to batches opened so far.
AcksNumbered ==
  /\ IsFiniteSet(acks)
  /\ \A a \in acks : a.sn <= sn

\* The counter is below the age of the oldest unanswered batch until the
\* player is disconnected, and zero when there is none.
TicksBounded ==
  /\ \A p \in pending : p < ts
  /\ pending = {} => ticksSinceLastResponse = 0
  /\ pending # {} => \E p \in pending :
       ticksSinceLastResponse <= ts - p - (IF closed THEN 0 ELSE 1)

\* The inductive invariant.
IInv ==
  /\ TypeOK /\ AcksNumbered /\ TicksBounded
  /\ CountersMatchAcks /\ CorrectionFlagWillClear

\* What an acknowledgement added to a finite set of older ones does to the
\* counts the handlers keep.
LEMMA AddCount ==
  ASSUME NEW S, IsFiniteSet(S), NEW a, a \notin S, NEW kind
  PROVE  /\ IsFiniteSet(S \union {a})
         /\ Cardinality(Of(kind, S)) \in Nat
         /\ Cardinality(Of(kind, S \union {a})) =
              IF a.kind = kind THEN Cardinality(Of(kind, S)) + 1
              ELSE Cardinality(Of(kind, S))
<1>1. IsFiniteSet(Of(kind, S)) /\ Of(kind, S) \subseteq S
  BY FS_Subset DEF Of
<1>2. Cardinality(Of(kind, S)) \in Nat
  BY <1>1, FS_CardinalityType
<1>3. IsFiniteSet(S \union {a})
  BY FS_AddElement
<1>4. CASE a.kind = kind
  <2>1. Of(kind, S \union {a}) = Of(kind, S) \union {a}
    BY <1>4 DEF Of
  <2>2. a \notin Of(kind, S)
    BY DEF Of
  <2>3. Cardinality(Of(kind, S) \union {a}) = Cardinality(Of(kind, S)) + 1
    BY <1>1, <2>2, FS_AddElement
  <2> QED BY <1>2, <1>3, <1>4, <2>1, <2>3
<1>5. CASE a.kind # kind
  <2>1. Of(kind, S \union {a}) = Of(kind, S)
    BY <1>5 DEF Of
  <2> QED BY <1>2, <1>3, <1>5, <2>1
<1> QED BY <1>4, <1>5

\* Running part of a finite set of acknowledgements lowers a count by as many
\* as ran.
LEMMA RunCount ==
  ASSUME NEW S, IsFiniteSet(S), NEW R \in SUBSET S, NEW kind
  PROVE  /\ IsFiniteSet(S \ R)
         /\ Cardinality(Of(kind, S)) \in Nat
         /\ Cardinality(Of(kind, R)) \in Nat
         /\ Cardinality(Of(kind, S \ R)) =
              Cardinality(Of(kind, S)) - Cardinality(Of(kind, R))
<1>1. IsFiniteSet(Of(kind, S)) /\ IsFiniteSet(Of(kind, R)) /\ IsFiniteSet(S \ R)
  <2>1. Of(kind, S) \subseteq S /\ Of(kind, R) \subseteq S /\ S \ R \subseteq S
    BY DEF Of
  <2> QED BY <2>1, FS_Subset
<1>2. /\ Of(kind, S \ R) = Of(kind, S) \ Of(kind, R)
      /\ Of(kind, S) \cap Of(kind, R) = Of(kind, R)
  BY DEF Of
<1>3. Cardinality(Of(kind, S) \ Of(kind, R)) =
        Cardinality(Of(kind, S)) - Cardinality(Of(kind, S) \cap Of(kind, R))
  BY <1>1, FS_Difference
<1>4. Cardinality(Of(kind, S)) \in Nat /\ Cardinality(Of(kind, R)) \in Nat
  BY <1>1, FS_CardinalityType
<1> QED BY <1>1, <1>2, <1>3, <1>4

-----------------------------------------------------------------------------
\* The handlers of server packets that await an acknowledgement.
LEMMA UpdateStep ==
  ASSUME IInv, NEW kind \in {"gm", "tp", "data"}, NEW val \in Nat, Update(kind, val),
         pendingTeleports' = pendingTeleports + (IF kind = "tp" THEN 1 ELSE 0),
         PendingGameMode' \in Nat \union {NoMode}, actorData' \in BOOLEAN
  PROVE  IInv'
<1> DEFINE a == NewAck(kind, val, TRUE, FALSE)
<1>1. a \in Ack /\ a.sn = sn + 1 /\ a.kind = kind
  BY DEF NewAck, Ack, IInv, TypeOK, ValueTypes
<1> HIDE DEF a
<1>2. a \notin acks /\ IsFiniteSet(acks)
  <2>1. sn \in Nat /\ IsFiniteSet(acks) /\ \A b \in acks : b.sn <= sn
    BY DEF IInv, AcksNumbered, TypeOK, ValueTypes
  <2> QED BY <1>1, <2>1
<1>3. acks' = acks \union {a} /\ sn' = sn + 1
  BY DEF Update, a
<1>4. TypeOK'
  <2>1. FlagTypes'
    BY DEF IInv, TypeOK, FlagTypes, Update, respVars, histVars
  <2>2. ChannelTypes'
    BY DEF IInv, TypeOK, ChannelTypes, ValueTypes, Update, ClientMsg
  <2>3. ValueTypes'
    <3>1. pendingTeleports' \in Int
      BY DEF IInv, TypeOK, ValueTypes
    <3>2. acks' \subseteq Ack /\ sn' \in Nat
      BY <1>1, <1>3 DEF IInv, TypeOK, ValueTypes
    <3> QED BY <3>1, <3>2
      DEF IInv, TypeOK, ValueTypes, Update, respVars, detVars, cliVars, boundVars
  <2> QED BY <2>1, <2>2, <2>3 DEF TypeOK
<1>5. AcksNumbered'
  <2>1. IsFiniteSet(acks \union {a})
    BY <1>2, FS_AddElement
  <2>2. sn \in Nat /\ \A b \in acks : b \in Ack /\ b.sn <= sn
    BY DEF IInv, AcksNumbered, TypeOK, ValueTypes
  <2> QED BY <1>1, <1>3, <2>1, <2>2 DEF AcksNumbered, Ack
<1>6. TicksBounded'
  BY DEF IInv, TicksBounded, Update, respVars
<1>7. CountersMatchAcks'
  <2>1. /\ Cardinality(Of("tp", acks')) =
             IF kind = "tp" THEN Cardinality(Of("tp", acks)) + 1
             ELSE Cardinality(Of("tp", acks))
        /\ Cardinality(Of("corr", acks')) = Cardinality(Of("corr", acks))
    <3>1. "corr" # kind
      OBVIOUS
    <3>2. \A k \in {"tp", "corr"} :
            Cardinality(Of(k, acks \union {a})) =
              IF a.kind = k THEN Cardinality(Of(k, acks)) + 1 ELSE Cardinality(Of(k, acks))
      BY <1>2, AddCount
    <3> QED BY <1>1, <1>3, <3>1, <3>2
  <2>2. Cardinality(Of("tp", acks)) \in Nat
    BY <1>2, AddCount
  <2>3. pendingCorrections' = pendingCorrections
    BY DEF Update
  <2> QED BY <2>1, <2>2, <2>3 DEF IInv, CountersMatchAcks
<1>8. CorrectionFlagWillClear'
  BY <1>3 DEF IInv, CorrectionFlagWillClear, Setters, Update
<1> QED BY <1>4, <1>5, <1>6, <1>7, <1>8 DEF IInv

\* Execute of a matching batch: the counters fall by what ran.
LEMMA ExecuteStep == IInv /\ Execute => IInv'
<1> SUFFICES ASSUME IInv, Execute PROVE IInv'
  OBVIOUS
<1> DEFINE id  == ackID(Head1.val)
           run == {a \in acks : a.ts <= id}
<1>0. /\ toServer' = Tail(toServer) /\ toServer # <<>> /\ id \in pending
      /\ acks' = acks \ run /\ pending' = {p \in pending : p > id}
      /\ pendingTeleports' = pendingTeleports - Cardinality(Of("tp", run))
      /\ pendingCorrections' = pendingCorrections - Cardinality(Of("corr", run))
      /\ PendingCorrectionACK' = IF Setters(run) = {} THEN PendingCorrectionACK ELSE "no"
      /\ ticksSinceLastResponse' = 0
      /\ UNCHANGED <<ts, clientTicked, inCorrectionCooldown, actorData, lastCorr,
                     detVars, closed, held, toClient, cliVars, sn, boundVars,
                     staleAccept>>
  BY DEF Execute, Answered, TeleportPlayer, MovementCorrection
<1>1. GameMode' \in Nat /\ PendingGameMode' \in Nat \union {NoMode}
  BY DEF Execute, Answered, UpdateGamemode, Of, IInv, TypeOK, ValueTypes, Ack, modeVars
<1> HIDE DEF id
<1>2. run \in SUBSET acks /\ IsFiniteSet(acks)
  BY DEF IInv, AcksNumbered
<1> HIDE DEF run
<1>3. \A k \in {"tp", "corr"} :
        /\ Cardinality(Of(k, acks)) \in Nat /\ Cardinality(Of(k, run)) \in Nat
        /\ Cardinality(Of(k, acks')) = Cardinality(Of(k, acks)) - Cardinality(Of(k, run))
  BY <1>0, <1>2, RunCount
<1>4. TypeOK'
  <2>1. FlagTypes'
    BY <1>0 DEF IInv, TypeOK, FlagTypes
  <2>2. ChannelTypes'
    BY <1>0 DEF IInv, TypeOK, ChannelTypes
  <2>3. acks' \subseteq Ack /\ pending' \subseteq Nat
    BY <1>0, <1>2 DEF IInv, TypeOK, ValueTypes
  <2>4. pendingTeleports' \in Int /\ pendingCorrections' \in Int
    BY <1>0, <1>3 DEF IInv, TypeOK, ValueTypes
  <2>5. ValueTypes'
    BY <1>0, <1>1, <2>3, <2>4 DEF IInv, TypeOK, ValueTypes, detVars, cliVars, boundVars
  <2> QED BY <2>1, <2>2, <2>5 DEF TypeOK
<1>5. AcksNumbered'
  BY <1>0, <1>2, RunCount DEF IInv, AcksNumbered
<1>6. TicksBounded'
  <2>1. ts' = ts /\ ts \in Nat /\ pending' \subseteq pending /\ pending \subseteq Nat
    BY <1>0 DEF IInv, TypeOK, ValueTypes
  <2>2. \A p \in pending : p < ts
    BY DEF IInv, TicksBounded
  <2>3. ticksSinceLastResponse' = 0 /\ \A p \in pending' : p < ts'
    BY <1>0, <2>1, <2>2
  <2>4. ASSUME NEW p \in pending', NEW d \in {0, 1} PROVE 0 <= ts' - p - d
    BY <2>1, <2>3
  <2>5. (IF closed' THEN 0 ELSE 1) \in {0, 1}
    OBVIOUS
  <2> QED BY <2>3, <2>4, <2>5 DEF TicksBounded
<1>7. CountersMatchAcks'
  BY <1>0, <1>3 DEF IInv, CountersMatchAcks
<1>8. CorrectionFlagWillClear'
  BY <1>0, <1>2 DEF IInv, CorrectionFlagWillClear, Setters
<1> QED BY <1>4, <1>5, <1>6, <1>7, <1>8 DEF IInv

\* A correction: the counter, the flag and the acknowledgement go together.
LEMMA CorrectStep == IInv /\ CorrectMovement => IInv'
<1> SUFFICES ASSUME IInv, CorrectMovement PROVE IInv'
  OBVIOUS
<1> DEFINE send == PendingCorrectionACK = "no" /\ actorData
           a == NewAck("corr", 0, send, PendingCorrectionACK = "no")
<1>1. a \in Ack /\ a.sn = sn + 1 /\ a.kind = "corr"
  BY DEF NewAck, Ack, IInv, TypeOK, ValueTypes
<1> HIDE DEF a
<1>2. a \notin acks /\ IsFiniteSet(acks)
  <2>1. sn \in Nat /\ IsFiniteSet(acks) /\ \A b \in acks : b.sn <= sn
    BY DEF IInv, AcksNumbered, TypeOK, ValueTypes
  <2> QED BY <1>1, <2>1
<1>3. acks' = acks \union {a} /\ sn' = sn + 1 /\ pendingCorrections' = pendingCorrections + 1
  BY DEF CorrectMovement, a
<1>4. TypeOK'
  <2>1. FlagTypes'
    BY DEF IInv, TypeOK, FlagTypes, CorrectMovement, InputArrives, histVars
  <2>2. ChannelTypes'
    <3>1. toServer' \in Seq(ServerMsg) /\ held' \in ClientMsg
      BY DEF IInv, TypeOK, ChannelTypes, CorrectMovement, InputArrives
    <3>2. [kind |-> "corr", val |-> 0, sn |-> sn + 1] \in ClientMsg
      BY DEF IInv, TypeOK, ValueTypes, ClientMsg
    <3>3. toClient' \in Seq(ClientMsg)
      BY <3>2 DEF IInv, TypeOK, ChannelTypes, CorrectMovement
    <3> QED BY <3>1, <3>3 DEF ChannelTypes
  <2>3. lastCorr' \in Nat /\ PendingCorrectionACK' \in {"yes", "no"}
    BY DEF IInv, TypeOK, ValueTypes, CorrectMovement
  <2>4. ValueTypes'
    BY <1>1, <1>3, <2>3
       DEF IInv, TypeOK, ValueTypes, CorrectMovement, modeVars, detVars, cliVars, boundVars
  <2> QED BY <2>1, <2>2, <2>4 DEF TypeOK
<1>5. AcksNumbered'
  <2>1. IsFiniteSet(acks \union {a})
    BY <1>2, FS_AddElement
  <2>2. sn \in Nat /\ \A b \in acks : b \in Ack /\ b.sn <= sn
    BY DEF IInv, AcksNumbered, TypeOK, ValueTypes
  <2> QED BY <1>1, <1>3, <2>1, <2>2 DEF AcksNumbered, Ack
<1>6. TicksBounded'
  BY DEF IInv, TicksBounded, CorrectMovement
<1>7. CountersMatchAcks'
  <2>1. /\ Cardinality(Of("corr", acks')) = Cardinality(Of("corr", acks)) + 1
        /\ Cardinality(Of("tp", acks')) = Cardinality(Of("tp", acks))
    BY <1>1, <1>2, <1>3, AddCount
  <2>2. pendingTeleports' = pendingTeleports
    BY DEF CorrectMovement
  <2> QED BY <1>3, <2>1, <2>2 DEF IInv, CountersMatchAcks
<1>8. CorrectionFlagWillClear'
  <2>1. CASE PendingCorrectionACK = "no"
    <3>1. a.set = TRUE
      BY <2>1 DEF a, NewAck
    <3> QED BY <1>1, <1>3, <3>1 DEF CorrectionFlagWillClear, Setters
  <2>2. CASE PendingCorrectionACK # "no"
    BY <1>3, <2>2 DEF IInv, CorrectionFlagWillClear, Setters, TypeOK, ValueTypes
  <2> QED BY <2>1, <2>2
<1> QED BY <1>4, <1>5, <1>6, <1>7, <1>8 DEF IInv

\* A transfer drops the acknowledgements and everything that counts them.
LEMMA TransferStep ==
  ASSUME IInv, NEW g \in Nat, TransferServerConn(g)
  PROVE  IInv'
<1>1. /\ acks' = {} /\ Of("tp", {}) = {} /\ Of("corr", {}) = {}
      /\ Cardinality({}) = 0 /\ IsFiniteSet({})
  BY FS_EmptySet DEF TransferServerConn, ResetAcks, Of
<1>2. TypeOK'
  <2>1. FlagTypes'
    BY DEF IInv, TypeOK, FlagTypes, TransferServerConn, SetServerConn, ResetAcks, ResetMovement, histVars
  <2>2. ChannelTypes'
    BY DEF IInv, TypeOK, ChannelTypes, TransferServerConn, SetServerConn, ResetAcks, ResetMovement, ClientMsg
  <2>3. ValueTypes'
    BY DEF IInv, TypeOK, ValueTypes, TransferServerConn, SetServerConn, ResetAcks, ResetMovement, detVars, cliVars
  <2> QED BY <2>1, <2>2, <2>3 DEF TypeOK
<1>3. AcksNumbered' /\ CountersMatchAcks'
  BY <1>1 DEF AcksNumbered, CountersMatchAcks, TransferServerConn, SetServerConn, ResetAcks, ResetMovement
<1>4. TicksBounded' /\ CorrectionFlagWillClear'
  BY DEF TicksBounded, CorrectionFlagWillClear, TransferServerConn, SetServerConn, ResetAcks, ResetMovement
<1> QED BY <1>2, <1>3, <1>4 DEF IInv

\* The ticker: the counter grows no faster than the batches' age.
LEMMA TickStep == IInv /\ (Tick \/ TickTimeout) => IInv'
<1> SUFFICES ASSUME IInv, Tick \/ TickTimeout PROVE IInv'
  OBVIOUS
<1>1. TypeOK'
  <2>1. FlagTypes'
    BY DEF IInv, TypeOK, FlagTypes, Tick, TickTimeout, moveVars, histVars
  <2>2. ChannelTypes'
    <3>1. [kind |-> "nsl", val |-> ts, sn |-> 0] \in ClientMsg
      BY DEF IInv, TypeOK, ValueTypes, ClientMsg
    <3>2. CASE Tick
      BY <3>1, <3>2 DEF IInv, TypeOK, ChannelTypes, Tick
    <3>3. CASE TickTimeout
      BY <3>3 DEF IInv, TypeOK, ChannelTypes, TickTimeout
    <3> QED BY <3>2, <3>3
  <2>3. ticksSinceLastResponse' \in Nat
    BY DEF IInv, TypeOK, ValueTypes, Tick, TickTimeout, countTick
  <2>4. ValueTypes'
    <3>1. CASE Tick
      BY <2>3, <3>1 DEF IInv, TypeOK, ValueTypes, Tick, modeVars, moveVars, detVars,
                        cliVars, boundVars
    <3>2. CASE TickTimeout
      BY <2>3, <3>2 DEF IInv, TypeOK, ValueTypes, TickTimeout, ackVars, modeVars,
                        moveVars, detVars, cliVars, boundVars
    <3> QED BY <3>1, <3>2
  <2> QED BY <2>1, <2>2, <2>4 DEF TypeOK
<1>2. AcksNumbered' /\ CountersMatchAcks' /\ CorrectionFlagWillClear'
  BY DEF IInv, AcksNumbered, CountersMatchAcks, CorrectionFlagWillClear, Tick,
         TickTimeout, ackVars, moveVars
<1>3. TicksBounded'
  <2>1. CASE Tick
    BY <2>1 DEF IInv, TypeOK, ValueTypes, TicksBounded, Tick, countTick
  <2>2. CASE TickTimeout
    BY <2>2, AckConstants DEF IInv, TypeOK, ValueTypes, TicksBounded, TickTimeout, Responsive, countTick, ackVars
  <2> QED BY <2>1, <2>2
<1> QED BY <1>1, <1>2, <1>3 DEF IInv

\* Everything that touches neither the acknowledgements nor their counters.
LEMMA OtherStep ==
  ASSUME IInv, \/ Forward \/ ExecuteUnmatched \/ InputRateLimited \/ AcceptMovement
               \/ PredictMovement \/ ClientProcess \/ ClientInput
  PROVE  IInv'
<1>1. TypeOK'
  <2>1. FlagTypes'
    BY DEF IInv, TypeOK, FlagTypes, respVars, moveVars, histVars, Forward, ExecuteUnmatched,
           InputRateLimited, AcceptMovement, PredictMovement, InputArrives, ClientProcess,
           ClientInput
  <2>2. ChannelTypes'
    <3> USE DEF IInv, TypeOK, ChannelTypes
    <3>1. CASE Forward
      BY <3>1 DEF Forward, None, ClientMsg
    <3>2. CASE ClientProcess
      <4>1. toClient # <<>> /\ toClient' = Tail(toClient) /\ held' = held
        BY <3>2 DEF ClientProcess
      <4>2. toClient[1] \in ClientMsg
        BY <4>1
      <4>3. [kind |-> "nsl", val |-> Echo(toClient[1].val)] \in ServerMsg
        BY <4>2 DEF ClientMsg, ServerMsg, Echo, AckDivider
      <4>4. toServer' = toServer
              \/ toServer' = Append(toServer, [kind |-> "nsl", val |-> Echo(toClient[1].val)])
        BY <3>2 DEF ClientProcess
      <4> QED BY <4>1, <4>3, <4>4
    <3>3. CASE ClientInput
      BY <3>3 DEF ClientInput, ServerMsg, ValueTypes
    <3>4. CASE ExecuteUnmatched \/ InputRateLimited \/ AcceptMovement \/ PredictMovement
      <4>1. /\ toServer # <<>> /\ toServer' = Tail(toServer)
            /\ toClient' = toClient /\ held' = held
        BY <3>4 DEF ExecuteUnmatched, InputRateLimited, AcceptMovement, PredictMovement,
                    InputArrives
      <4> QED BY <4>1
    <3> QED BY <3>1, <3>2, <3>3, <3>4
  <2>3. ValueTypes'
    <3>1. CASE ExecuteUnmatched
      <4>1. toServer # <<>> /\ toServer \in Seq(ServerMsg)
        BY <3>1 DEF ExecuteUnmatched, IInv, TypeOK, ChannelTypes
      <4>2. Head1.val \in Nat
        <5>1. toServer[1] \in ServerMsg
          BY <4>1
        <5> QED BY <5>1 DEF Head1, ServerMsg
      <4>3. unmatchedCount' \in Nat /\ lastUnmatchedTimestamp' \in Nat /\ violations' \in Nat
        BY <3>1, <4>2 DEF ExecuteUnmatched, IInv, TypeOK, ValueTypes, detVars
      <4> QED BY <3>1, <4>3 DEF ExecuteUnmatched, IInv, TypeOK, ValueTypes, ackVars, respVars,
                                modeVars, moveVars, cliVars, boundVars
    <3>2. CASE ClientProcess
      <4>1. toClient # <<>> /\ toClient \in Seq(ClientMsg)
        BY <3>2 DEF ClientProcess, IInv, TypeOK, ChannelTypes
      <4>2. toClient[1].val \in Nat /\ toClient[1].sn \in Nat
        <5>1. toClient[1] \in ClientMsg
          BY <4>1
        <5> QED BY <5>1 DEF ClientMsg
      <4>3. clientMode' \in Nat /\ seen' \subseteq Nat /\ newest' \in Nat
        BY <3>2, <4>2 DEF ClientProcess, IInv, TypeOK, ValueTypes
      <4> QED BY <3>2, <4>3 DEF ClientProcess, IInv, TypeOK, ValueTypes, ackVars, respVars,
                                modeVars, moveVars, detVars, boundVars
    <3>3. CASE Forward \/ InputRateLimited \/ AcceptMovement \/ PredictMovement \/ ClientInput
      <4> USE DEF IInv, TypeOK, ValueTypes, ackVars, respVars, modeVars, moveVars, detVars,
                  cliVars, boundVars
      <4>1. CASE Forward BY <4>1 DEF Forward
      <4>2. CASE InputRateLimited BY <4>2 DEF InputRateLimited
      <4>3. CASE AcceptMovement BY <4>3 DEF AcceptMovement
      <4>4. CASE PredictMovement BY <4>4 DEF PredictMovement
      <4>5. CASE ClientInput BY <4>5 DEF ClientInput
      <4> QED BY <3>3, <4>1, <4>2, <4>3, <4>4, <4>5
    <3> QED BY <3>1, <3>2, <3>3
  <2> QED BY <2>1, <2>2, <2>3 DEF TypeOK
<1>2. AcksNumbered' /\ CountersMatchAcks' /\ CorrectionFlagWillClear' /\ TicksBounded'
  BY DEF IInv, AcksNumbered, CountersMatchAcks, CorrectionFlagWillClear, TicksBounded,
         ackVars, respVars, moveVars, Forward, ExecuteUnmatched, InputRateLimited,
         AcceptMovement, PredictMovement, InputArrives, ClientProcess, ClientInput
<1> QED BY <1>1, <1>2 DEF IInv

-----------------------------------------------------------------------------
\* The invariant holds of every behaviour of the acknowledgement pipeline.
THEOREM Invariance == Spec => []IInv
<1>1. Init => IInv
  <2> SUFFICES ASSUME Init PROVE IInv
    OBVIOUS
  <2>1. /\ acks = {} /\ Of("tp", {}) = {} /\ Of("corr", {}) = {}
        /\ Cardinality({}) = 0 /\ IsFiniteSet({})
    BY FS_EmptySet DEF Init, Of
  <2>2. TypeOK
    <3>1. FlagTypes
      BY DEF Init, FlagTypes
    <3>2. ChannelTypes
      BY DEF Init, ChannelTypes, None, ClientMsg
    <3>3. ValueTypes
      BY AckConstants DEF Init, ValueTypes
    <3> QED BY <3>1, <3>2, <3>3 DEF TypeOK
  <2>3. AcksNumbered /\ CountersMatchAcks
    BY <2>1 DEF AcksNumbered, CountersMatchAcks, Init
  <2>4. TicksBounded /\ CorrectionFlagWillClear
    BY DEF TicksBounded, CorrectionFlagWillClear, Init
  <2> QED BY <2>2, <2>3, <2>4 DEF IInv
<1>2. IInv /\ [Next]_vars => IInv'
  <2> SUFFICES ASSUME IInv, [Next]_vars PROVE IInv'
    OBVIOUS
  <2>1. ASSUME NEW g \in Modes, HandleGameType(g) PROVE IInv'
    <3>1. g \in Nat
      BY AckConstants
    <3>2. /\ pendingTeleports' = pendingTeleports + (IF "gm" = "tp" THEN 1 ELSE 0)
          /\ PendingGameMode' \in Nat \union {NoMode} /\ actorData' \in BOOLEAN
      BY <2>1, <3>1 DEF HandleGameType, IInv, TypeOK, FlagTypes, ValueTypes
    <3> QED BY <2>1, <3>1, <3>2, UpdateStep DEF HandleGameType
  <2>2. ASSUME NEW g \in Modes, TransferServerConn(g) PROVE IInv'
    BY <2>2, AckConstants, TransferStep
  <2>3. CASE HandleTeleport
    BY <2>3, UpdateStep DEF HandleTeleport, IInv, TypeOK, FlagTypes, ValueTypes
  <2>4. CASE HandleActorData
    BY <2>4, UpdateStep DEF HandleActorData, IInv, TypeOK, FlagTypes, ValueTypes
  <2>5. CASE UNCHANGED vars
    BY <2>5 DEF vars, IInv, TypeOK, FlagTypes, ChannelTypes, ValueTypes, AcksNumbered, CountersMatchAcks, CorrectionFlagWillClear,
                TicksBounded, ackVars, respVars, modeVars, moveVars, detVars, cliVars,
                boundVars, histVars
  <2> QED BY <2>1, <2>2, <2>3, <2>4, <2>5, ExecuteStep, CorrectStep, TickStep, OtherStep DEF Next
<1> QED BY <1>1, <1>2, PTL DEF Spec

\* Every variable keeps its type, for all constants.
THEOREM TypeCorrect == Spec => []TypeOK
BY Invariance, PTL DEF IInv

\* The counters of teleports and corrections count exactly the outstanding
\* acknowledgements (AddPendingTeleport, RemovePendingTeleport and their
\* correction counterparts never drift, transfers included).
THEOREM CountersExact == Spec => []CountersMatchAcks
BY Invariance, PTL DEF IInv

\* Corrections are never switched off for good: a set PendingCorrectionACK
\* has an acknowledgement that will clear it.
THEOREM CorrectionsResume == Spec => []CorrectionFlagWillClear
BY Invariance, PTL DEF IInv

\* The timeout counter never overtakes the age of the oldest unanswered batch.
THEOREM TimeoutJustified == Spec => []TimeoutNotEarly
<1>1. IInv => TimeoutNotEarly
  BY DEF IInv, TypeOK, ValueTypes, TicksBounded, TimeoutNotEarly
<1> QED BY <1>1, Invariance, PTL
-----------------------------------------------------------------------------
(* What the two channels and the acknowledgements say of one another. *)

\* Acknowledgements are told apart by their number, and a later one is of the
\* same or a later batch.
AcksOrdered ==
  \A a \in acks : /\ a.ts <= ts
                  /\ \A b \in acks : /\ a.sn = b.sn => a = b
                                     /\ a.sn <= b.sn => a.ts <= b.ts

\* Every NetworkStackLatency under way, in either direction, is of a batch that
\* was closed.
LatencyOf(m) == IF m.kind = "nsl" THEN m.val ELSE -1
EchoOf(m) == IF m.kind = "nsl" THEN ackID(m.val) ELSE -1
EchoesOld ==
  /\ \A i \in 1..Len(toClient) : LatencyOf(toClient[i]) < ts
  /\ \A i \in 1..Len(toServer) : EchoOf(toServer[i]) < ts

\* The client has processed the correction of a, and what it has sent since it
\* answered a batch that runs a takes the correction into account.
Processed(a) ==
  /\ a.sn \in seen
  /\ \A i, j \in 1..Len(toServer) :
       i < j /\ a.ts <= EchoOf(toServer[i]) /\ toServer[j].kind = "input" =>
         a.sn <= toServer[j].val

\* The correction of a is on its way, ahead of every batch that would run a.
SentAhead(a) ==
  \E i \in 1..Len(toClient) :
    /\ toClient[i].kind = "corr" /\ toClient[i].sn = a.sn
    /\ \A j \in 1..Len(toClient) : j < i => LatencyOf(toClient[j]) < a.ts
Unanswered(a) == \A i \in 1..Len(toServer) : EchoOf(toServer[i]) < a.ts
OnItsWay(a) == SentAhead(a) /\ Unanswered(a)

SentCorrection(a) == a.kind = "corr" /\ a.sent

CorrectionsAhead ==
  \A a \in acks : SentCorrection(a) => Processed(a) \/ OnItsWay(a)

\* The last correction awaits its acknowledgement, or every input under way
\* and to come takes it into account.
LastCorrection ==
  \/ lastCorr = 0
  \/ \E a \in acks : SentCorrection(a) /\ a.sn = lastCorr
  \/ /\ lastCorr <= newest
     /\ \A i \in 1..Len(toServer) : toServer[i].kind = "input" => lastCorr <= toServer[i].val

NewestSeen == \A n \in seen : n <= newest

\* The game mode KillLime will have once every acknowledgement has run, and the
\* one the client will have once it has processed everything.
ModeToRun(g) ==
  \/ Of("gm", acks) = {} /\ GameMode = g
  \/ \E a \in Of("gm", acks) : a.val = g /\ \A b \in Of("gm", acks) : b.sn <= a.sn
ModeToProcess(g) ==
  IF held.kind = "gm" THEN held.val = g
  ELSE \/ \E i \in 1..Len(toClient) :
            /\ toClient[i].kind = "gm" /\ toClient[i].val = g
            /\ \A j \in 1..Len(toClient) : i < j => toClient[j].kind # "gm"
       \/ /\ \A i \in 1..Len(toClient) : toClient[i].kind # "gm"
          /\ clientMode = g
SameModeAhead == \E g \in Nat : ModeToRun(g) /\ ModeToProcess(g)

\* What the proxy has yet to write is no NetworkStackLatency.
HeldIsUpdate == held.kind # "nsl"

\* The inductive invariant of the channels.
ChannelInv ==
  /\ AcksOrdered /\ EchoesOld /\ NewestSeen /\ HeldIsUpdate
  /\ CorrectionsAhead /\ LastCorrection /\ AcceptsOnlyCorrected
  /\ SameModeAhead

\* What a queue is after a message is taken from it, or put into it.
LEMMA TailElements ==
  ASSUME NEW S, NEW s \in Seq(S), s # <<>>
  PROVE  /\ Len(s) \in Nat /\ 1 \in 1..Len(s)
         /\ Tail(s) \in Seq(S) /\ Len(Tail(s)) = Len(s) - 1
         /\ \A i \in 1..Len(Tail(s)) : i + 1 \in 1..Len(s) /\ Tail(s)[i] = s[i + 1]
OBVIOUS

LEMMA AppendElements ==
  ASSUME NEW S, NEW s \in Seq(S), NEW e \in S
  PROVE  /\ Len(s) \in Nat
         /\ Append(s, e) \in Seq(S) /\ Len(Append(s, e)) = Len(s) + 1
         /\ \A i \in 1..Len(s) : i \in 1..Len(Append(s, e)) /\ Append(s, e)[i] = s[i]
         /\ Len(s) + 1 \in 1..Len(Append(s, e)) /\ Append(s, e)[Len(s) + 1] = e
OBVIOUS

\* KillLime undoes the scaling the client echoes a timestamp with.
LEMMA EchoUndone == ASSUME NEW t \in Nat PROVE ackID(Echo(t)) = t
BY DEF ackID, Echo, AckDivider

\* The numbers that messages carry.
LEMMA Numbers ==
  /\ \A m \in ClientMsg : LatencyOf(m) \in Int /\ (m.kind # "nsl" => LatencyOf(m) = -1)
  /\ \A m \in ServerMsg : EchoOf(m) \in Int /\ (m.kind # "nsl" => EchoOf(m) = -1)
  /\ ChannelTypes => /\ \A i \in 1..Len(toClient) : toClient[i] \in ClientMsg
                     /\ \A i \in 1..Len(toServer) : toServer[i] \in ServerMsg
<1>1. \A m \in ClientMsg : LatencyOf(m) \in Int /\ (m.kind # "nsl" => LatencyOf(m) = -1)
  BY DEF LatencyOf, ClientMsg
<1>2. \A m \in ServerMsg : EchoOf(m) \in Int /\ (m.kind # "nsl" => EchoOf(m) = -1)
  BY DEF EchoOf, ServerMsg, ackID, AckDivider
<1>3. ChannelTypes => /\ \A i \in 1..Len(toClient) : toClient[i] \in ClientMsg
                      /\ \A i \in 1..Len(toServer) : toServer[i] \in ServerMsg
  BY DEF ChannelTypes
<1> QED BY <1>1, <1>2, <1>3

\* Taking a packet from the client leaves what its direction says of every
\* correction.
LEMMA ServerTakes ==
  ASSUME ChannelTypes, toServer # <<>>, toServer' = Tail(toServer), seen' = seen
  PROVE  /\ \A a \in Ack : Processed(a) => Processed(a)'
         /\ \A a \in Ack : Unanswered(a) => Unanswered(a)'
         /\ \A t \in Nat : (\A i \in 1..Len(toServer) : EchoOf(toServer[i]) < t)
                             => (\A i \in 1..Len(toServer') : EchoOf(toServer'[i]) < t)
         /\ \A n \in Nat : (\A i \in 1..Len(toServer) :
                              toServer[i].kind = "input" => n <= toServer[i].val)
                             => (\A i \in 1..Len(toServer') :
                                   toServer'[i].kind = "input" => n <= toServer'[i].val)
<1>1. /\ Len(toServer) \in Nat /\ Len(toServer') = Len(toServer) - 1
      /\ \A i \in 1..Len(toServer') : i + 1 \in 1..Len(toServer) /\ toServer'[i] = toServer[i + 1]
  BY TailElements DEF ChannelTypes
<1>2. ASSUME NEW a \in Ack, Processed(a) PROVE Processed(a)'
  <2>1. a.sn \in seen'
    BY <1>2 DEF Processed
  <2>2. ASSUME NEW i \in 1..Len(toServer'), NEW j \in 1..Len(toServer'), i < j,
               a.ts <= EchoOf(toServer'[i]), toServer'[j].kind = "input"
        PROVE  a.sn <= toServer'[j].val
    <3>1. i + 1 \in 1..Len(toServer) /\ j + 1 \in 1..Len(toServer) /\ i + 1 < j + 1
      BY <1>1, <2>2
    <3> QED BY <1>1, <1>2, <2>2, <3>1 DEF Processed
  <2> QED BY <2>1, <2>2 DEF Processed, EchoOf
<1>3. ASSUME NEW t \in Nat, \A i \in 1..Len(toServer) : EchoOf(toServer[i]) < t,
             NEW i \in 1..Len(toServer')
      PROVE  EchoOf(toServer'[i]) < t
  BY <1>1, <1>3
<1>4. ASSUME NEW a \in Ack, Unanswered(a) PROVE Unanswered(a)'
  <2>1. a.ts \in Nat
    BY DEF Ack
  <2> QED BY <1>3, <1>4, <2>1 DEF Unanswered, EchoOf
<1>5. ASSUME NEW n \in Nat,
             \A i \in 1..Len(toServer) : toServer[i].kind = "input" => n <= toServer[i].val,
             NEW i \in 1..Len(toServer'), toServer'[i].kind = "input"
      PROVE  n <= toServer'[i].val
  BY <1>1, <1>5
<1> QED BY <1>2, <1>3, <1>4, <1>5

\* Writing to the client leaves what is ahead of it there.
LEMMA ClientIsSent ==
  ASSUME ChannelTypes, NEW m \in ClientMsg, toClient' = Append(toClient, m)
  PROVE  /\ \A a \in Ack : SentAhead(a) => SentAhead(a)'
         /\ \A t \in Nat : (\A i \in 1..Len(toClient) : LatencyOf(toClient[i]) < t)
              /\ LatencyOf(m) < t => (\A i \in 1..Len(toClient') : LatencyOf(toClient'[i]) < t)
<1>1. /\ Len(toClient) \in Nat /\ Len(toClient') = Len(toClient) + 1
      /\ \A i \in 1..Len(toClient) : i \in 1..Len(toClient') /\ toClient'[i] = toClient[i]
      /\ toClient'[Len(toClient) + 1] = m
  BY AppendElements DEF ChannelTypes
<1>2. ASSUME NEW a \in Ack, SentAhead(a) PROVE SentAhead(a)'
  <2>1. PICK i \in 1..Len(toClient) :
          /\ toClient[i].kind = "corr" /\ toClient[i].sn = a.sn
          /\ \A j \in 1..Len(toClient) : j < i => LatencyOf(toClient[j]) < a.ts
    BY <1>2 DEF SentAhead
  <2>2. i \in 1..Len(toClient') /\ toClient'[i].kind = "corr" /\ toClient'[i].sn = a.sn
    BY <1>1, <2>1
  <2>3. ASSUME NEW j \in 1..Len(toClient'), j < i PROVE LatencyOf(toClient'[j]) < a.ts
    <3>1. j \in 1..Len(toClient)
      BY <1>1, <2>3
    <3> QED BY <1>1, <2>1, <2>3, <3>1
  <2> QED BY <2>2, <2>3 DEF SentAhead, LatencyOf
<1>3. ASSUME NEW t \in Nat, \A i \in 1..Len(toClient) : LatencyOf(toClient[i]) < t,
             LatencyOf(m) < t, NEW i \in 1..Len(toClient')
      PROVE  LatencyOf(toClient'[i]) < t
  <2>1. i \in 1..Len(toClient) \/ i = Len(toClient) + 1
    BY <1>1
  <2> QED BY <1>1, <1>3, <2>1
<1> QED BY <1>2, <1>3

\* The mode the client will be in depends on the packets that are not game modes
\* in no way.
LEMMA ModeUnmoved ==
  ASSUME ChannelTypes, NEW m \in ClientMsg, m.kind # "gm", held' = held,
         toClient' = Append(toClient, m), clientMode' = clientMode, NEW g \in Nat,
         ModeToProcess(g)
  PROVE  ModeToProcess(g)'
<1>1. /\ Len(toClient) \in Nat /\ Len(toClient') = Len(toClient) + 1
      /\ \A i \in 1..Len(toClient) : i \in 1..Len(toClient') /\ toClient'[i] = toClient[i]
      /\ toClient'[Len(toClient) + 1] = m
  BY AppendElements DEF ChannelTypes
<1>2. \A i \in 1..Len(toClient') : i \in 1..Len(toClient) \/ toClient'[i] = m
  BY <1>1
<1>3. CASE held.kind = "gm"
  BY <1>3 DEF ModeToProcess
<1>4. CASE held.kind # "gm" /\ \E i \in 1..Len(toClient) :
             /\ toClient[i].kind = "gm" /\ toClient[i].val = g
             /\ \A j \in 1..Len(toClient) : i < j => toClient[j].kind # "gm"
  <2>1. PICK i \in 1..Len(toClient) :
             /\ toClient[i].kind = "gm" /\ toClient[i].val = g
             /\ \A j \in 1..Len(toClient) : i < j => toClient[j].kind # "gm"
    BY <1>4
  <2>2. i \in 1..Len(toClient') /\ toClient'[i].kind = "gm" /\ toClient'[i].val = g
    BY <1>1, <2>1
  <2>3. \A j \in 1..Len(toClient') : i < j => toClient'[j].kind # "gm"
    BY <1>1, <1>2, <2>1
  <2> QED BY <1>4, <2>2, <2>3 DEF ModeToProcess
<1>5. CASE /\ held.kind # "gm" /\ clientMode = g
           /\ \A i \in 1..Len(toClient) : toClient[i].kind # "gm"
  <2>1. \A i \in 1..Len(toClient') : toClient'[i].kind # "gm"
    BY <1>1, <1>2, <1>5
  <2> QED BY <1>5, <2>1 DEF ModeToProcess
<1> QED BY <1>3, <1>4, <1>5 DEF ModeToProcess

-----------------------------------------------------------------------------
\* An acknowledgement joins the batch: it is the newest, and of the newest
\* batch.
LEMMA AckJoins ==
  ASSUME IInv, AcksOrdered, NEW a \in Ack, a.sn = sn + 1, a.ts = ts,
         acks' = acks \union {a}, ts' = ts
  PROVE  AcksOrdered'
<1>1. ts \in Nat /\ sn \in Nat /\ \A b \in acks : b \in Ack /\ b.sn \in Nat /\ b.ts \in Nat /\ b.sn <= sn
  BY DEF IInv, TypeOK, ValueTypes, AcksNumbered, Ack
<1>2. \A b \in acks : b.ts <= ts /\ b.sn < a.sn
  BY <1>1 DEF AcksOrdered
<1>3. ASSUME NEW b \in acks', NEW c \in acks'
      PROVE  b.ts <= ts' /\ (b.sn = c.sn => b = c) /\ (b.sn <= c.sn => b.ts <= c.ts)
  <2>1. CASE b \in acks /\ c \in acks
    BY <2>1 DEF AcksOrdered
  <2>2. CASE b = a /\ c \in acks
    BY <1>1, <1>2, <2>2
  <2>3. CASE b \in acks /\ c = a
    BY <1>1, <1>2, <2>3
  <2>4. CASE b = a /\ c = a
    BY <1>1, <2>4
  <2> QED BY <2>1, <2>2, <2>3, <2>4
<1> QED BY <1>3 DEF AcksOrdered

\* The handlers of server packets that await an acknowledgement.
LEMMA UpdateChannels ==
  ASSUME IInv, ChannelInv, NEW kind \in {"gm", "tp", "data"}, NEW val \in Nat,
         Update(kind, val), GameMode' = GameMode
  PROVE  ChannelInv'
<1> DEFINE a == NewAck(kind, val, TRUE, FALSE)
<1>1. /\ a \in Ack /\ a.sn = sn + 1 /\ a.ts = ts /\ a.kind = kind /\ a.val = val
      /\ ~SentCorrection(a)
  BY DEF NewAck, Ack, IInv, TypeOK, ValueTypes, SentCorrection
<1>2. /\ acks' = acks \union {a} /\ held = None
      /\ held' = [kind |-> kind, val |-> val, sn |-> sn + 1]
      /\ UNCHANGED <<ts, toClient, toServer, clientMode, seen, newest, lastCorr, early, staleAccept>>
  BY DEF Update, a, cliVars, histVars
<1> HIDE DEF a
<1>3. AcksOrdered'
  BY <1>1, <1>2, AckJoins DEF ChannelInv
<1>4. EchoesOld' /\ NewestSeen' /\ AcceptsOnlyCorrected' /\ HeldIsUpdate'
  BY <1>2 DEF ChannelInv, HeldIsUpdate, EchoesOld, NewestSeen, AcceptsOnlyCorrected, LatencyOf, EchoOf
<1>5. CorrectionsAhead'
  BY <1>1, <1>2 DEF ChannelInv, CorrectionsAhead, Processed, OnItsWay, SentAhead, Unanswered, LatencyOf, EchoOf
<1>6. LastCorrection'
  BY <1>2 DEF ChannelInv, LastCorrection
<1>7. SameModeAhead'
  <2>1. PICK g \in Nat : ModeToRun(g) /\ ModeToProcess(g)
    BY DEF ChannelInv, SameModeAhead
  <2>2. CASE kind = "gm"
    <3>1. ModeToProcess(val)'
      BY <1>2, <2>2 DEF ModeToProcess
    <3>2. \A b \in Of("gm", acks') : b.sn <= a.sn
      BY <1>1, <1>2 DEF Of, IInv, AcksNumbered, TypeOK, ValueTypes, Ack
    <3>3. a \in Of("gm", acks') /\ a.val = val
      BY <1>1, <1>2, <2>2 DEF Of
    <3>4. ModeToRun(val)'
      BY <3>2, <3>3 DEF ModeToRun
    <3> QED BY <3>1, <3>4 DEF SameModeAhead
  <2>3. CASE kind # "gm"
    <3>1. Of("gm", acks') = Of("gm", acks)
      BY <1>1, <1>2, <2>3 DEF Of
    <3>2. ModeToRun(g)'
      BY <2>1, <3>1 DEF ModeToRun
    <3>3. ModeToProcess(g)'
      BY <1>2, <2>1, <2>3 DEF ModeToProcess, None
    <3> QED BY <3>2, <3>3 DEF SameModeAhead
  <2> QED BY <2>2, <2>3
<1> QED BY <1>3, <1>4, <1>5, <1>6, <1>7 DEF ChannelInv

\* The proxy writes the packet: it is the last one the client will process.
LEMMA ForwardChannels == IInv /\ ChannelInv /\ Forward => ChannelInv'
<1> SUFFICES ASSUME IInv, ChannelInv, Forward PROVE ChannelInv'
  OBVIOUS
<1>1. /\ ChannelTypes /\ held \in ClientMsg /\ held # None /\ held' = None
      /\ toClient' = Append(toClient, held)
      /\ UNCHANGED <<ts, acks, GameMode, toServer, clientMode, seen, newest, lastCorr, early, staleAccept>>
  BY DEF Forward, ackVars, modeVars, moveVars, cliVars, histVars, IInv, TypeOK, ChannelTypes
<1>2. held.kind # "nsl"
  BY DEF ChannelInv, HeldIsUpdate
<1>3. /\ Len(toClient) \in Nat /\ Len(toClient') = Len(toClient) + 1
      /\ \A i \in 1..Len(toClient) : i \in 1..Len(toClient') /\ toClient'[i] = toClient[i]
      /\ toClient'[Len(toClient) + 1] = held
  BY <1>1, AppendElements DEF ChannelTypes
<1>4. AcksOrdered' /\ NewestSeen' /\ AcceptsOnlyCorrected' /\ LastCorrection' /\ HeldIsUpdate'
  BY <1>1 DEF ChannelInv, AcksOrdered, NewestSeen, AcceptsOnlyCorrected, LastCorrection,
              HeldIsUpdate, None
<1>5. EchoesOld'
  <2>1. ts \in Nat /\ LatencyOf(held) < ts
    BY <1>1, <1>2, Numbers DEF IInv, TypeOK, ValueTypes
  <2>2. \A i \in 1..Len(toClient') : LatencyOf(toClient'[i]) < ts
    BY <1>1, <2>1, ClientIsSent DEF ChannelInv, EchoesOld
  <2> QED BY <1>1, <2>2 DEF ChannelInv, EchoesOld, LatencyOf, EchoOf
<1>6. CorrectionsAhead'
  <2>1. \A a \in acks : a \in Ack
    BY DEF IInv, TypeOK, ValueTypes
  <2>2. \A a \in Ack : SentAhead(a) => SentAhead(a)'
    BY <1>1, ClientIsSent
  <2> QED BY <1>1, <2>1, <2>2
      DEF ChannelInv, CorrectionsAhead, Processed, OnItsWay, Unanswered, EchoOf
<1>7. SameModeAhead'
  <2>1. PICK g \in Nat : ModeToRun(g) /\ ModeToProcess(g)
    BY DEF ChannelInv, SameModeAhead
  <2>2. ModeToRun(g)'
    BY <1>1, <2>1 DEF ModeToRun
  <2>3. held'.kind # "gm"
    BY <1>1 DEF None
  <2>4. CASE held.kind = "gm"
    <3>1. /\ Len(toClient') \in 1..Len(toClient') /\ toClient'[Len(toClient')] = held
          /\ held.val = g
      BY <1>3, <2>1, <2>4 DEF ModeToProcess
    <3>2. \A j \in 1..Len(toClient') : ~(Len(toClient') < j)
      BY <1>3
    <3>3. ModeToProcess(g)'
      BY <2>3, <2>4, <3>1, <3>2 DEF ModeToProcess
    <3> QED BY <2>2, <3>3 DEF SameModeAhead
  <2>5. CASE held.kind # "gm"
    <3>1. \A i \in 1..Len(toClient') : i \in 1..Len(toClient) \/ toClient'[i].kind # "gm"
      BY <1>3, <2>5
    <3>2. CASE \E i \in 1..Len(toClient) :
             /\ toClient[i].kind = "gm" /\ toClient[i].val = g
             /\ \A j \in 1..Len(toClient) : i < j => toClient[j].kind # "gm"
      <4>1. PICK i \in 1..Len(toClient) :
             /\ toClient[i].kind = "gm" /\ toClient[i].val = g
             /\ \A j \in 1..Len(toClient) : i < j => toClient[j].kind # "gm"
        BY <3>2
      <4>2. /\ i \in 1..Len(toClient') /\ toClient'[i].kind = "gm" /\ toClient'[i].val = g
            /\ \A j \in 1..Len(toClient') : i < j => toClient'[j].kind # "gm"
        BY <1>3, <3>1, <4>1
      <4>3. ModeToProcess(g)'
        BY <2>3, <4>2 DEF ModeToProcess
      <4> QED BY <2>2, <4>3 DEF SameModeAhead
    <3>3. CASE clientMode = g /\ \A i \in 1..Len(toClient) : toClient[i].kind # "gm"
      <4>1. clientMode' = g /\ \A i \in 1..Len(toClient') : toClient'[i].kind # "gm"
        BY <1>1, <1>3, <3>1, <3>3
      <4>2. ModeToProcess(g)'
        BY <2>3, <4>1 DEF ModeToProcess
      <4> QED BY <2>2, <4>2 DEF SameModeAhead
    <3> QED BY <2>1, <2>5, <3>2, <3>3 DEF ModeToProcess
  <2> QED BY <2>4, <2>5
<1> QED BY <1>4, <1>5, <1>6, <1>7 DEF ChannelInv

\* Tick: the batch that is sent is older than the one that is opened.
LEMMA TickChannels == IInv /\ ChannelInv /\ Tick => ChannelInv'
<1> SUFFICES ASSUME IInv, ChannelInv, Tick PROVE ChannelInv'
  OBVIOUS
<1> DEFINE m == [kind |-> "nsl", val |-> ts, sn |-> 0]
<1>1. /\ ChannelTypes /\ ts \in Nat /\ ts' = ts + 1 /\ toClient' = Append(toClient, m)
      /\ UNCHANGED <<acks, held, GameMode, toServer, clientMode, seen, newest, lastCorr, early,
                     staleAccept>>
  BY DEF Tick, modeVars, moveVars, cliVars, histVars, IInv, TypeOK, ValueTypes
<1>2. m \in ClientMsg /\ m.kind # "gm" /\ LatencyOf(m) = ts
  BY <1>1 DEF ClientMsg, LatencyOf
<1> HIDE DEF m
<1>3. AcksOrdered'
  <2>1. \A a \in acks : a.ts \in Nat
    BY DEF IInv, TypeOK, ValueTypes, Ack
  <2> QED BY <1>1, <2>1 DEF ChannelInv, AcksOrdered
<1>4. NewestSeen' /\ AcceptsOnlyCorrected' /\ LastCorrection' /\ HeldIsUpdate'
  BY <1>1 DEF ChannelInv, NewestSeen, AcceptsOnlyCorrected, LastCorrection, HeldIsUpdate
<1>5. EchoesOld'
  <2>1. \A i \in 1..Len(toClient) : LatencyOf(toClient[i]) \in Int
    BY <1>1, Numbers
  <2>2. \A i \in 1..Len(toServer) : EchoOf(toServer[i]) \in Int
    BY <1>1, Numbers
  <2>3. \A i \in 1..Len(toClient) : LatencyOf(toClient[i]) < ts + 1
    BY <1>1, <2>1 DEF ChannelInv, EchoesOld
  <2>4. \A i \in 1..Len(toClient') : LatencyOf(toClient'[i]) < ts + 1
    BY <1>1, <1>2, <2>3, ClientIsSent
  <2>5. \A i \in 1..Len(toServer) : EchoOf(toServer[i]) < ts + 1
    BY <1>1, <2>2 DEF ChannelInv, EchoesOld
  <2> QED BY <1>1, <2>4, <2>5 DEF EchoesOld
<1>6. CorrectionsAhead'
  <2>1. \A a \in acks : a \in Ack
    BY DEF IInv, TypeOK, ValueTypes
  <2>2. \A a \in Ack : SentAhead(a) => SentAhead(a)'
    BY <1>1, <1>2, ClientIsSent
  <2> QED BY <1>1, <2>1, <2>2
      DEF ChannelInv, CorrectionsAhead, Processed, OnItsWay, Unanswered, EchoOf
<1>7. SameModeAhead'
  <2>1. PICK g \in Nat : ModeToRun(g) /\ ModeToProcess(g)
    BY DEF ChannelInv, SameModeAhead
  <2>2. ModeToRun(g)'
    BY <1>1, <2>1 DEF ModeToRun
  <2>3. ModeToProcess(g)'
    BY <1>1, <1>2, <2>1, ModeUnmoved
  <2> QED BY <2>2, <2>3 DEF SameModeAhead
<1> QED BY <1>3, <1>4, <1>5, <1>6, <1>7 DEF ChannelInv

\* A packet of the client that runs no acknowledgement and accepts no position.
LEMMA TakesChannels ==
  ASSUME IInv, ChannelInv, toServer # <<>>, toServer' = Tail(toServer),
         UNCHANGED <<ts, acks, GameMode, held, toClient, cliVars, lastCorr, early>>,
         ~staleAccept'
  PROVE  ChannelInv'
<1>1. /\ ChannelTypes /\ ts \in Nat /\ lastCorr \in Nat /\ \A a \in acks : a \in Ack
      /\ UNCHANGED <<clientMode, seen, newest>>
  BY DEF IInv, TypeOK, ValueTypes, cliVars
<1>2. AcksOrdered' /\ NewestSeen' /\ AcceptsOnlyCorrected' /\ SameModeAhead' /\ HeldIsUpdate'
  BY <1>1 DEF ChannelInv, AcksOrdered, NewestSeen, AcceptsOnlyCorrected, SameModeAhead,
              ModeToRun, ModeToProcess, HeldIsUpdate
<1>3. EchoesOld'
  BY <1>1, ServerTakes DEF ChannelInv, EchoesOld, LatencyOf
<1>4. CorrectionsAhead'
  BY <1>1, ServerTakes DEF ChannelInv, CorrectionsAhead, OnItsWay, SentAhead, LatencyOf
<1>5. LastCorrection'
  <2>1. CASE \E a \in acks : SentCorrection(a) /\ a.sn = lastCorr
    BY <1>1, <2>1 DEF LastCorrection
  <2>2. CASE lastCorr = 0
    BY <2>2 DEF LastCorrection
  <2>3. CASE /\ lastCorr <= newest
             /\ \A i \in 1..Len(toServer) : toServer[i].kind = "input" => lastCorr <= toServer[i].val
    BY <1>1, <2>3, ServerTakes DEF LastCorrection
  <2> QED BY <2>1, <2>2, <2>3 DEF ChannelInv, LastCorrection
<1> QED BY <1>2, <1>3, <1>4, <1>5 DEF ChannelInv

\* A position is accepted: no correction is outstanding, so the input in hand
\* takes the last one into account.
LEMMA AcceptChannels == IInv /\ ChannelInv /\ AcceptMovement => ChannelInv'
<1> SUFFICES ASSUME IInv, ChannelInv, AcceptMovement PROVE ChannelInv'
  OBVIOUS
<1>1. /\ toServer # <<>> /\ Head1.kind = "input" /\ pendingCorrections = 0
      /\ toServer' = Tail(toServer)
      /\ UNCHANGED <<ts, acks, GameMode, held, toClient, cliVars, lastCorr, early>>
      /\ staleAccept' = (staleAccept \/ (/\ ~inCorrectionCooldown /\ pendingTeleports = 0
                                         /\ Head1.val < lastCorr))
  <2>1. pendingCorrections \in Nat
    <3>1. IsFiniteSet(Of("corr", acks))
      BY FS_Subset DEF IInv, AcksNumbered, Of
    <3> QED BY <3>1, FS_CardinalityType DEF IInv, CountersMatchAcks
  <2> QED BY <2>1 DEF AcceptMovement, InputArrives, correctionsPending, ackVars, modeVars
<1>2. Of("corr", acks) = {}
  <2>1. IsFiniteSet(Of("corr", acks))
    BY FS_Subset DEF IInv, AcksNumbered, Of
  <2> QED BY <1>1, <2>1, FS_EmptySet DEF IInv, CountersMatchAcks
<1>3. ~(Head1.val < lastCorr)
  <2>1. 1 \in 1..Len(toServer) /\ Head1 \in ServerMsg /\ Head1.val \in Nat /\ lastCorr \in Nat
    <3>1. toServer \in Seq(ServerMsg) /\ lastCorr \in Nat
      BY DEF IInv, TypeOK, ChannelTypes, ValueTypes
    <3>2. 1 \in 1..Len(toServer) /\ toServer[1] \in ServerMsg
      BY <1>1, <3>1
    <3> QED BY <3>1, <3>2 DEF Head1, ServerMsg
  <2>2. ~\E a \in acks : SentCorrection(a)
    BY <1>2 DEF SentCorrection, Of
  <2>3. lastCorr = 0 \/ lastCorr <= Head1.val
    BY <1>1, <2>1, <2>2 DEF ChannelInv, LastCorrection, Head1
  <2> QED BY <2>1, <2>3
<1>4. ~staleAccept'
  BY <1>1, <1>3 DEF ChannelInv, AcceptsOnlyCorrected
<1> QED BY <1>1, <1>4, TakesChannels

\* Execute: what runs is of corrections the client has processed.
LEMMA ExecuteChannels == IInv /\ ChannelInv /\ Execute => ChannelInv'
<1> SUFFICES ASSUME IInv, ChannelInv, Execute PROVE ChannelInv'
  OBVIOUS
<1> DEFINE id  == ackID(Head1.val)
           run == {a \in acks : a.ts <= id}
<1>1. /\ toServer' = Tail(toServer) /\ toServer # <<>> /\ acks' = acks \ run
      /\ UpdateGamemode(run) /\ Head1.kind = "nsl"
      /\ early' = early \union {a.kind : a \in {b \in run : b.sent /\ b.sn \notin seen}}
      /\ UNCHANGED <<ts, held, toClient, clientMode, seen, newest, lastCorr, staleAccept>>
  BY DEF Execute, Answered, cliVars
<1>2. /\ ChannelTypes /\ ts \in Nat /\ lastCorr \in Nat /\ newest \in Nat
      /\ \A a \in acks : a \in Ack /\ a.sn \in Nat /\ a.ts \in Nat
  BY DEF IInv, TypeOK, ValueTypes, Ack
<1>3. 1 \in 1..Len(toServer) /\ EchoOf(toServer[1]) = id /\ id \in Int
  <2>1. 1 \in 1..Len(toServer) /\ toServer[1] \in ServerMsg
    BY <1>1, <1>2 DEF ChannelTypes
  <2> QED BY <1>1, <2>1 DEF EchoOf, Head1, ServerMsg, ackID, AckDivider
<1> HIDE DEF id
<1>4. \A a \in run : SentCorrection(a) => Processed(a)
  <2> SUFFICES ASSUME NEW a \in run, SentCorrection(a), OnItsWay(a) PROVE FALSE
    BY DEF ChannelInv, CorrectionsAhead
  <2>1. EchoOf(toServer[1]) < a.ts
    BY <1>3 DEF OnItsWay, Unanswered
  <2> QED BY <1>2, <1>3, <2>1
<1>5. AcksOrdered' /\ NewestSeen' /\ HeldIsUpdate'
  BY <1>1 DEF ChannelInv, AcksOrdered, NewestSeen, HeldIsUpdate
<1>6. EchoesOld'
  BY <1>1, <1>2, ServerTakes DEF ChannelInv, EchoesOld, LatencyOf
<1>7. CorrectionsAhead'
  BY <1>1, <1>2, ServerTakes DEF ChannelInv, CorrectionsAhead, OnItsWay, SentAhead, LatencyOf
<1>8. LastCorrection'
  <2>1. CASE lastCorr = 0
    BY <1>1, <2>1 DEF LastCorrection
  <2>2. CASE \E a \in acks \ run : SentCorrection(a) /\ a.sn = lastCorr
    BY <1>1, <2>2 DEF LastCorrection
  <2>3. CASE \E a \in run : SentCorrection(a) /\ a.sn = lastCorr
    <3>1. PICK a \in run : SentCorrection(a) /\ a.sn = lastCorr
      BY <2>3
    <3>2. a.sn \in seen /\ a.ts <= EchoOf(toServer[1])
          /\ \A i, j \in 1..Len(toServer) :
               i < j /\ a.ts <= EchoOf(toServer[i]) /\ toServer[j].kind = "input" =>
                 a.sn <= toServer[j].val
      BY <1>3, <1>4, <3>1 DEF Processed
    <3>3. lastCorr <= newest
      BY <3>1, <3>2 DEF ChannelInv, NewestSeen
    <3>4. /\ Len(toServer) \in Nat /\ Len(toServer') = Len(toServer) - 1
          /\ \A i \in 1..Len(toServer') : i + 1 \in 1..Len(toServer) /\ toServer'[i] = toServer[i + 1]
      BY <1>1, <1>2, TailElements DEF ChannelTypes
    <3>5. ASSUME NEW i \in 1..Len(toServer'), toServer'[i].kind = "input"
          PROVE  lastCorr <= toServer'[i].val
      <4>1. i + 1 \in 1..Len(toServer) /\ toServer[i + 1].kind = "input" /\ 1 < i + 1
        BY <3>4, <3>5
      <4>2. a.sn <= toServer[i + 1].val
        BY <1>3, <3>2, <4>1
      <4> QED BY <3>1, <3>4, <4>2
    <3> QED BY <1>1, <3>3, <3>5 DEF LastCorrection
  <2>4. CASE /\ lastCorr <= newest
             /\ \A i \in 1..Len(toServer) : toServer[i].kind = "input" => lastCorr <= toServer[i].val
    <3>1. \A i \in 1..Len(toServer') : toServer'[i].kind = "input" => lastCorr <= toServer'[i].val
      BY <1>1, <1>2, <2>4, ServerTakes
    <3> QED BY <1>1, <2>4, <3>1 DEF LastCorrection
  <2> QED BY <2>1, <2>2, <2>3, <2>4 DEF ChannelInv, LastCorrection
<1>9. AcceptsOnlyCorrected'
  <2>1. ASSUME NEW b \in run, b.sent, b.sn \notin seen PROVE b.kind # "corr"
    BY <1>4, <2>1 DEF SentCorrection, Processed
  <2> QED BY <1>1, <2>1 DEF ChannelInv, AcceptsOnlyCorrected
<1>10. SameModeAhead'
  <2>1. PICK g \in Nat : ModeToRun(g) /\ ModeToProcess(g)
    BY DEF ChannelInv, SameModeAhead
  <2>2. ModeToProcess(g)'
    BY <1>1, <2>1 DEF ModeToProcess
  <2>3. ModeToRun(g)'
    <3>1. CASE Of("gm", acks) = {}
      <4>1. Of("gm", run) = {} /\ Of("gm", acks') = {}
        BY <1>1, <3>1 DEF Of
      <4> QED BY <1>1, <2>1, <3>1, <4>1 DEF ModeToRun, UpdateGamemode, modeVars
    <3>2. ASSUME NEW a \in Of("gm", acks), a.val = g, \A b \in Of("gm", acks) : b.sn <= a.sn
          PROVE  ModeToRun(g)'
      <4>1. a \in acks /\ a.kind = "gm" /\ \A b \in Of("gm", acks') : b \in Of("gm", acks)
        BY <1>1 DEF Of
      <4>2. CASE a \notin run
        <5>1. a \in Of("gm", acks')
          BY <1>1, <4>1, <4>2 DEF Of
        <5> QED BY <3>2, <4>1, <5>1 DEF ModeToRun
      <4>3. CASE a \in run
        <5>1. \A b \in Of("gm", acks) : b \in run
          <6> SUFFICES ASSUME NEW b \in Of("gm", acks) PROVE b \in run
            OBVIOUS
          <6>1. b \in acks /\ b.ts <= a.ts
            BY <3>2, <4>1 DEF ChannelInv, AcksOrdered, Of
          <6> QED BY <1>2, <1>3, <4>3, <6>1
        <5>2. Of("gm", acks') = {}
          BY <1>1, <5>1 DEF Of
        <5>3. a \in Of("gm", run)
          BY <4>1, <4>3 DEF Of
        <5>4. PICK c \in Of("gm", run) : (\A b \in Of("gm", run) : b.sn <= c.sn) /\ GameMode' = c.val
          BY <1>1, <5>3 DEF UpdateGamemode
        <5>5. c \in Of("gm", acks) /\ c.sn <= a.sn /\ a.sn <= c.sn
          BY <3>2, <5>3, <5>4 DEF Of
        <5>6. c = a
          <6>1. c \in acks
            BY <5>5 DEF Of
          <6>2. c.sn = a.sn
            BY <1>2, <4>1, <5>5, <6>1
          <6> QED BY <4>1, <6>1, <6>2 DEF ChannelInv, AcksOrdered
        <5> QED BY <3>2, <5>2, <5>4, <5>6 DEF ModeToRun
      <4> QED BY <4>2, <4>3
    <3> QED BY <2>1, <3>1, <3>2 DEF ModeToRun
  <2> QED BY <2>2, <2>3 DEF SameModeAhead
<1> QED BY <1>5, <1>6, <1>7, <1>8, <1>9, <1>10 DEF ChannelInv

\* A correction: its packet is written at once, behind every batch closed so far.
LEMMA CorrectChannels == IInv /\ ChannelInv /\ CorrectMovement => ChannelInv'
<1> SUFFICES ASSUME IInv, ChannelInv, CorrectMovement PROVE ChannelInv'
  OBVIOUS
<1> DEFINE send == PendingCorrectionACK = "no" /\ actorData
           new == NewAck("corr", 0, send, PendingCorrectionACK = "no")
           m == [kind |-> "corr", val |-> 0, sn |-> sn + 1]
<1>0. new \in Ack /\ new.sn = sn + 1 /\ new.ts = ts /\ new.kind = "corr" /\ new.sent = send
  BY DEF NewAck, Ack, IInv, TypeOK, ValueTypes
<1>1. PICK a \in Ack : /\ a = new /\ a.sn = sn + 1 /\ a.ts = ts /\ a.kind = "corr"
                      /\ a.sent = send
  BY <1>0
<1>2. /\ acks' = acks \union {a} /\ toServer # <<>> /\ toServer' = Tail(toServer)
      /\ toClient' = IF send THEN Append(toClient, m) ELSE toClient
      /\ lastCorr' = IF send THEN sn + 1 ELSE lastCorr
      /\ UNCHANGED <<ts, GameMode, held, clientMode, seen, newest, early, staleAccept>>
  BY <1>1 DEF CorrectMovement, InputArrives, modeVars, cliVars, histVars
<1>3. /\ ChannelTypes /\ ts \in Nat /\ sn \in Nat /\ lastCorr \in Nat
      /\ \A b \in acks : b \in Ack /\ b.ts \in Nat
  BY DEF IInv, TypeOK, ValueTypes, Ack
<1>4. m \in ClientMsg /\ m.kind = "corr" /\ m.sn = sn + 1 /\ LatencyOf(m) = -1
  BY <1>3 DEF ClientMsg, LatencyOf
<1> HIDE DEF new, m, send
<1>5. AcksOrdered'
  BY <1>1, <1>2, AckJoins DEF ChannelInv
<1>6. NewestSeen' /\ AcceptsOnlyCorrected' /\ HeldIsUpdate'
  BY <1>2 DEF ChannelInv, NewestSeen, AcceptsOnlyCorrected, HeldIsUpdate
<1>7. EchoesOld'
  <2>1. \A i \in 1..Len(toServer') : EchoOf(toServer'[i]) < ts
    BY <1>2, <1>3, ServerTakes DEF ChannelInv, EchoesOld
  <2>2. \A i \in 1..Len(toClient) : LatencyOf(toClient[i]) < ts
    BY DEF ChannelInv, EchoesOld
  <2>3. CASE send
    <3>1. toClient' = Append(toClient, m) /\ LatencyOf(m) < ts
      BY <1>2, <1>3, <1>4, <2>3
    <3>2. \A i \in 1..Len(toClient') : LatencyOf(toClient'[i]) < ts
      BY <1>3, <1>4, <2>2, <3>1, ClientIsSent
    <3> QED BY <1>2, <2>1, <3>2 DEF EchoesOld, LatencyOf, EchoOf
  <2>4. CASE ~send
    BY <1>2, <2>1, <2>2, <2>4 DEF EchoesOld, LatencyOf, EchoOf
  <2> QED BY <2>3, <2>4
<1>8. \A b \in acks : SentAhead(b) => SentAhead(b)'
  <2>1. CASE send
    BY <1>2, <1>3, <1>4, <2>1, ClientIsSent
  <2>2. CASE ~send
    BY <1>2, <2>2 DEF SentAhead, LatencyOf
  <2> QED BY <2>1, <2>2
<1>9. ASSUME send PROVE OnItsWay(a)'
  <2>1. /\ Len(toClient) \in Nat /\ Len(toClient') = Len(toClient) + 1
        /\ \A i \in 1..Len(toClient) : toClient'[i] = toClient[i]
        /\ Len(toClient) + 1 \in 1..Len(toClient') /\ toClient'[Len(toClient) + 1] = m
    BY <1>2, <1>3, <1>4, <1>9, AppendElements DEF ChannelTypes
  <2>2. ASSUME NEW j \in 1..Len(toClient'), j < Len(toClient) + 1
        PROVE  LatencyOf(toClient'[j]) < a.ts
    <3>1. j \in 1..Len(toClient)
      BY <2>1, <2>2
    <3> QED BY <1>1, <2>1, <3>1 DEF ChannelInv, EchoesOld
  <2>3. SentAhead(a)'
    BY <1>1, <1>4, <2>1, <2>2 DEF SentAhead, LatencyOf
  <2>4. Unanswered(a)'
    BY <1>1, <1>2, <1>7 DEF EchoesOld, Unanswered, EchoOf
  <2> QED BY <2>3, <2>4 DEF OnItsWay
<1>10. CorrectionsAhead'
  <2>1. ASSUME NEW b \in acks, SentCorrection(b) PROVE Processed(b)' \/ OnItsWay(b)'
    BY <1>2, <1>3, <1>8, <2>1, ServerTakes DEF ChannelInv, CorrectionsAhead, OnItsWay
  <2>2. SentCorrection(a) => OnItsWay(a)'
    BY <1>1, <1>9 DEF SentCorrection
  <2> QED BY <1>2, <2>1, <2>2 DEF CorrectionsAhead
<1>11. LastCorrection'
  <2>1. CASE send
    BY <1>1, <1>2, <2>1 DEF LastCorrection, SentCorrection
  <2>2. CASE ~send
    <3>1. lastCorr' = lastCorr
      BY <1>2, <2>2
    <3>2. \/ lastCorr = 0
          \/ \E b \in acks : SentCorrection(b) /\ b.sn = lastCorr
          \/ /\ lastCorr <= newest
             /\ \A i \in 1..Len(toServer') : toServer'[i].kind = "input" => lastCorr <= toServer'[i].val
      BY <1>2, <1>3, ServerTakes DEF ChannelInv, LastCorrection
    <3> QED BY <1>2, <3>1, <3>2 DEF LastCorrection
  <2> QED BY <2>1, <2>2
<1>12. SameModeAhead'
  <2>1. PICK g \in Nat : ModeToRun(g) /\ ModeToProcess(g)
    BY DEF ChannelInv, SameModeAhead
  <2>2. Of("gm", acks') = Of("gm", acks)
    BY <1>1, <1>2 DEF Of
  <2>3. ModeToRun(g)'
    BY <1>2, <2>1, <2>2 DEF ModeToRun
  <2>4. ModeToProcess(g)'
    <3>1. CASE send
      BY <1>2, <1>3, <1>4, <2>1, <3>1, ModeUnmoved
    <3>2. CASE ~send
      BY <1>2, <2>1, <3>2 DEF ModeToProcess
    <3> QED BY <3>1, <3>2
  <2> QED BY <2>3, <2>4 DEF SameModeAhead
<1> QED BY <1>5, <1>6, <1>7, <1>10, <1>11, <1>12 DEF ChannelInv

\* A transfer leaves no acknowledgement; the batches still under way are older
\* than the one it opens, and the mode it sets is the one the client is sent.
LEMMA TransferChannels ==
  ASSUME IInv, ChannelInv, NEW g \in Nat, TransferServerConn(g)
  PROVE  ChannelInv'
<1>1. /\ acks' = {} /\ ts' = ts + 1 /\ lastCorr' = 0 /\ GameMode' = g
      /\ held' = [kind |-> "gm", val |-> g, sn |-> 0]
      /\ UNCHANGED <<toClient, toServer, clientMode, seen, newest, early, staleAccept>>
  BY DEF TransferServerConn, SetServerConn, ResetAcks, ResetMovement, cliVars, histVars
<1>2. ChannelTypes /\ ts \in Nat
  BY DEF IInv, TypeOK, ValueTypes
<1>3. /\ AcksOrdered' /\ NewestSeen' /\ HeldIsUpdate' /\ CorrectionsAhead' /\ LastCorrection'
      /\ AcceptsOnlyCorrected'
  BY <1>1 DEF ChannelInv, AcksOrdered, NewestSeen, HeldIsUpdate, CorrectionsAhead, LastCorrection,
              AcceptsOnlyCorrected
<1>4. EchoesOld'
  <2>1. \A i \in 1..Len(toClient) : LatencyOf(toClient[i]) \in Int /\ LatencyOf(toClient[i]) < ts
    BY <1>2, Numbers DEF ChannelInv, EchoesOld
  <2>2. \A i \in 1..Len(toServer) : EchoOf(toServer[i]) \in Int /\ EchoOf(toServer[i]) < ts
    BY <1>2, Numbers DEF ChannelInv, EchoesOld
  <2>3. /\ \A i \in 1..Len(toClient) : LatencyOf(toClient[i]) < ts + 1
        /\ \A i \in 1..Len(toServer) : EchoOf(toServer[i]) < ts + 1
    BY <1>2, <2>1, <2>2
  <2> QED BY <1>1, <2>3 DEF EchoesOld, LatencyOf, EchoOf
<1>5. SameModeAhead'
  <2>1. ModeToRun(g)' /\ ModeToProcess(g)'
    BY <1>1 DEF ModeToRun, ModeToProcess, Of
  <2> QED BY <2>1 DEF SameModeAhead
<1> QED BY <1>3, <1>4, <1>5 DEF ChannelInv

\* The client processes a packet: what it saw of it is in all it sends from
\* then on, and the echo of a batch follows what the batch acknowledges.
LEMMA ProcessChannels == IInv /\ ChannelInv /\ ClientProcess => ChannelInv'
<1> SUFFICES ASSUME IInv, ChannelInv, ClientProcess PROVE ChannelInv'
  OBVIOUS
<1>1. PICK m \in ClientMsg :
        /\ m = toClient[1]
        /\ clientMode' = IF m.kind = "gm" THEN m.val ELSE clientMode
        /\ seen' = IF m.kind = "nsl" THEN seen ELSE seen \union {m.sn}
        /\ toServer' = IF m.kind = "nsl"
                       THEN Append(toServer, [kind |-> "nsl", val |-> Echo(m.val)])
                       ELSE toServer
        /\ newest' = IF m.kind # "nsl" /\ m.sn > newest THEN m.sn ELSE newest
  <2>1. toClient[1] \in ClientMsg
    <3>1. toClient \in Seq(ClientMsg) /\ toClient # <<>>
      BY DEF ClientProcess, IInv, TypeOK, ChannelTypes
    <3> QED BY <3>1
  <2> QED BY <2>1 DEF ClientProcess
<1>2. /\ toClient # <<>> /\ toClient' = Tail(toClient)
      /\ UNCHANGED <<ts, acks, GameMode, held, lastCorr, early, staleAccept>>
  BY DEF ClientProcess, ackVars, modeVars, moveVars, histVars
<1>3. /\ ChannelTypes /\ ts \in Nat /\ newest \in Nat /\ seen \subseteq Nat /\ lastCorr \in Nat
      /\ m.sn \in Nat /\ m.val \in Nat
      /\ \A a \in acks : a \in Ack /\ a.sn \in Nat /\ a.ts \in Nat
  BY DEF IInv, TypeOK, ValueTypes, ClientMsg, Ack
<1>4. /\ Len(toClient) \in Nat /\ Len(toClient') = Len(toClient) - 1 /\ 1 \in 1..Len(toClient)
      /\ \A i \in 1..Len(toClient') : i + 1 \in 1..Len(toClient) /\ toClient'[i] = toClient[i + 1]
  BY <1>2, <1>3, TailElements DEF ChannelTypes
<1>5. /\ Len(toServer) \in Nat
      /\ \A i \in 1..Len(toServer) : i \in 1..Len(toServer') /\ toServer'[i] = toServer[i]
      /\ \A i \in 1..Len(toServer') :
           i \in 1..Len(toServer) \/ (/\ m.kind = "nsl" /\ EchoOf(toServer'[i]) = m.val
                                      /\ toServer'[i].kind = "nsl")
  <2>1. toServer \in Seq(ServerMsg)
    BY <1>3 DEF ChannelTypes
  <2>2. CASE m.kind = "nsl"
    <3> DEFINE e == [kind |-> "nsl", val |-> Echo(m.val)]
    <3>1. e \in ServerMsg /\ EchoOf(e) = m.val /\ e.kind = "nsl"
      <4>1. Echo(m.val) \in Nat
        BY <1>3 DEF Echo, AckDivider
      <4> QED BY <1>3, <4>1, EchoUndone DEF ServerMsg, EchoOf
    <3>2. toServer' = Append(toServer, e)
      BY <1>1, <2>2
    <3> HIDE DEF e
    <3>3. /\ Len(toServer) \in Nat /\ Len(toServer') = Len(toServer) + 1
          /\ \A i \in 1..Len(toServer) : i \in 1..Len(toServer') /\ toServer'[i] = toServer[i]
          /\ toServer'[Len(toServer) + 1] = e
      BY <2>1, <3>1, <3>2, AppendElements
    <3>4. \A i \in 1..Len(toServer') : i \in 1..Len(toServer) \/ i = Len(toServer) + 1
      BY <3>3
    <3> QED BY <2>2, <3>1, <3>3, <3>4
  <2>3. CASE m.kind # "nsl"
    BY <1>1, <2>1, <2>3
  <2> QED BY <2>2, <2>3
<1>6. AcksOrdered' /\ HeldIsUpdate' /\ AcceptsOnlyCorrected'
  BY <1>2 DEF ChannelInv, AcksOrdered, HeldIsUpdate, AcceptsOnlyCorrected
<1>7. newest <= newest' /\ NewestSeen'
  <2>1. newest <= newest' /\ newest' \in Nat /\ (m.kind # "nsl" => m.sn <= newest')
    BY <1>1, <1>3
  <2>2. \A n \in seen : n <= newest
    BY DEF ChannelInv, NewestSeen
  <2>3. \A n \in seen' : n \in seen \/ (m.kind # "nsl" /\ n = m.sn)
    BY <1>1
  <2>4. ASSUME NEW n \in seen' PROVE n <= newest'
    <3>1. CASE n \in seen
      <4>1. n \in Nat /\ n <= newest
        BY <1>3, <2>2, <3>1
      <4> QED BY <1>3, <2>1, <4>1
    <3> QED BY <2>1, <2>3, <3>1
  <2> QED BY <2>1, <2>4 DEF NewestSeen
<1>8. EchoesOld'
  <2>1. m.kind = "nsl" => m.val < ts
    BY <1>1, <1>4 DEF ChannelInv, EchoesOld, LatencyOf
  <2>2. \A i \in 1..Len(toClient') : LatencyOf(toClient'[i]) < ts
    BY <1>4 DEF ChannelInv, EchoesOld
  <2>3. \A i \in 1..Len(toServer') : EchoOf(toServer'[i]) < ts
    BY <1>5, <2>1 DEF ChannelInv, EchoesOld
  <2> QED BY <1>2, <2>2, <2>3 DEF EchoesOld, LatencyOf, EchoOf
<1>9. ASSUME NEW a \in Ack, Processed(a) PROVE Processed(a)'
  <2>1. a.sn \in seen'
    BY <1>1, <1>9 DEF Processed
  <2>2. ASSUME NEW i \in 1..Len(toServer'), NEW j \in 1..Len(toServer'), i < j,
               a.ts <= EchoOf(toServer'[i]), toServer'[j].kind = "input"
        PROVE  a.sn <= toServer'[j].val
    <3>1. j \in 1..Len(toServer) /\ toServer'[j] = toServer[j]
      BY <1>5, <2>2
    <3>2. i \in 1..Len(toServer) /\ toServer'[i] = toServer[i]
      BY <1>5, <2>2, <3>1
    <3> QED BY <1>9, <2>2, <3>1, <3>2 DEF Processed
  <2> QED BY <2>1, <2>2 DEF Processed, EchoOf
<1>10. ASSUME NEW a \in Ack, OnItsWay(a) PROVE Processed(a)' \/ OnItsWay(a)'
  <2>1. PICK i \in 1..Len(toClient) :
          /\ toClient[i].kind = "corr" /\ toClient[i].sn = a.sn
          /\ \A j \in 1..Len(toClient) : j < i => LatencyOf(toClient[j]) < a.ts
    BY <1>10 DEF OnItsWay, SentAhead
  <2>2. \A j \in 1..Len(toServer) : EchoOf(toServer[j]) \in Int /\ EchoOf(toServer[j]) < a.ts
    BY <1>3, <1>10, Numbers DEF OnItsWay, Unanswered
  <2>3. a.ts \in Nat
    BY DEF Ack
  <2>4. CASE i = 1
    <3>1. m.kind = "corr" /\ m.sn = a.sn
      BY <1>1, <2>1, <2>4
    <3>2. a.sn \in seen' /\ toServer' = toServer
      BY <1>1, <3>1
    <3>3. Processed(a)'
      BY <2>2, <2>3, <3>2 DEF Processed, EchoOf
    <3> QED BY <3>3
  <2>5. CASE i # 1
    <3>1. 1 < i /\ i - 1 \in 1..Len(toClient') /\ toClient'[i - 1] = toClient[i]
      BY <1>4, <2>5
    <3>2. m.kind = "nsl" => m.val < a.ts
      BY <1>1, <1>4, <2>1, <3>1 DEF LatencyOf
    <3>3. ASSUME NEW j \in 1..Len(toClient'), j < i - 1 PROVE LatencyOf(toClient'[j]) < a.ts
      <4>1. j + 1 \in 1..Len(toClient) /\ j + 1 < i
        BY <1>4, <3>3
      <4> QED BY <1>4, <2>1, <4>1
    <3>4. SentAhead(a)'
      BY <2>1, <3>1, <3>3 DEF SentAhead, LatencyOf
    <3>5. \A j \in 1..Len(toServer') : EchoOf(toServer'[j]) < a.ts
      BY <1>5, <2>2, <3>2
    <3>6. Unanswered(a)'
      BY <3>5 DEF Unanswered, EchoOf
    <3> QED BY <3>4, <3>6 DEF OnItsWay
  <2> QED BY <2>4, <2>5
<1>11. CorrectionsAhead'
  BY <1>2, <1>3, <1>9, <1>10 DEF ChannelInv, CorrectionsAhead
<1>12. LastCorrection'
  <2>1. CASE lastCorr = 0 \/ \E a \in acks : SentCorrection(a) /\ a.sn = lastCorr
    BY <1>2, <2>1 DEF LastCorrection
  <2>2. CASE /\ lastCorr <= newest
             /\ \A i \in 1..Len(toServer) : toServer[i].kind = "input" => lastCorr <= toServer[i].val
    <3>1. lastCorr <= newest'
      BY <1>1, <1>3, <1>7, <2>2
    <3>2. \A i \in 1..Len(toServer') : toServer'[i].kind = "input" => lastCorr <= toServer'[i].val
      BY <1>5, <2>2
    <3> QED BY <1>2, <3>1, <3>2 DEF LastCorrection
  <2> QED BY <2>1, <2>2 DEF ChannelInv, LastCorrection
<1>13. SameModeAhead'
  <2>1. PICK g \in Nat : ModeToRun(g) /\ ModeToProcess(g)
    BY DEF ChannelInv, SameModeAhead
  <2>2. ModeToRun(g)'
    BY <1>2, <2>1 DEF ModeToRun
  <2>3. ModeToProcess(g)'
    <3>1. CASE held.kind = "gm"
      BY <1>2, <2>1, <3>1 DEF ModeToProcess
    <3>2. ASSUME held.kind # "gm", NEW i \in 1..Len(toClient),
                 toClient[i].kind = "gm", toClient[i].val = g,
                 \A j \in 1..Len(toClient) : i < j => toClient[j].kind # "gm"
          PROVE  ModeToProcess(g)'
      <4>1. CASE i = 1
        <5>1. clientMode' = g
          BY <1>1, <3>2, <4>1
        <5>2. \A j \in 1..Len(toClient') : toClient'[j].kind # "gm"
          BY <1>4, <3>2, <4>1
        <5> QED BY <1>2, <3>2, <5>1, <5>2 DEF ModeToProcess
      <4>2. CASE i # 1
        <5>1. i - 1 \in 1..Len(toClient') /\ toClient'[i - 1] = toClient[i]
          BY <1>4, <4>2
        <5>2. ASSUME NEW j \in 1..Len(toClient'), i - 1 < j PROVE toClient'[j].kind # "gm"
          <6>1. j + 1 \in 1..Len(toClient) /\ i < j + 1
            BY <1>4, <5>2
          <6> QED BY <1>4, <3>2, <6>1
        <5> QED BY <1>2, <3>2, <5>1, <5>2 DEF ModeToProcess
      <4> QED BY <4>1, <4>2
    <3>3. CASE /\ held.kind # "gm" /\ clientMode = g
               /\ \A i \in 1..Len(toClient) : toClient[i].kind # "gm"
      <4>1. clientMode' = g
        BY <1>1, <1>4, <3>3
      <4>2. \A j \in 1..Len(toClient') : toClient'[j].kind # "gm"
        BY <1>4, <3>3
      <4> QED BY <1>2, <3>3, <4>1, <4>2 DEF ModeToProcess
    <3> QED BY <2>1, <3>1, <3>2, <3>3 DEF ModeToProcess
  <2> QED BY <2>2, <2>3 DEF SameModeAhead
<1> QED BY <1>6, <1>7, <1>8, <1>11, <1>12, <1>13 DEF ChannelInv

\* The client sends an input: it takes all into account that was processed.
LEMMA InputChannels == IInv /\ ChannelInv /\ ClientInput => ChannelInv'
<1> SUFFICES ASSUME IInv, ChannelInv, ClientInput PROVE ChannelInv'
  OBVIOUS
<1> DEFINE m == [kind |-> "input", val |-> newest]
<1>1. /\ toServer' = Append(toServer, m)
      /\ UNCHANGED <<ts, acks, GameMode, held, toClient, clientMode, seen, newest, lastCorr, early,
                     staleAccept>>
  BY DEF ClientInput, ackVars, modeVars, moveVars, cliVars, histVars
<1>2. /\ ChannelTypes /\ ts \in Nat /\ newest \in Nat /\ lastCorr \in Nat
      /\ \A a \in acks : a \in Ack /\ a.sn \in Nat /\ a.ts \in Nat
  BY DEF IInv, TypeOK, ValueTypes, Ack
<1>3. m \in ServerMsg /\ m.kind = "input" /\ m.val = newest /\ EchoOf(m) = -1
  BY <1>2 DEF ServerMsg, EchoOf
<1> HIDE DEF m
<1>4. /\ Len(toServer) \in Nat /\ Len(toServer') = Len(toServer) + 1
      /\ \A i \in 1..Len(toServer) : i \in 1..Len(toServer') /\ toServer'[i] = toServer[i]
      /\ toServer'[Len(toServer) + 1] = m
  BY <1>1, <1>2, <1>3, AppendElements DEF ChannelTypes
<1>5. \A i \in 1..Len(toServer') :
        i \in 1..Len(toServer) \/ (i = Len(toServer) + 1 /\ toServer'[i] = m)
  BY <1>4
<1>6. /\ AcksOrdered' /\ HeldIsUpdate' /\ AcceptsOnlyCorrected' /\ NewestSeen' /\ SameModeAhead'
  BY <1>1 DEF ChannelInv, AcksOrdered, HeldIsUpdate, AcceptsOnlyCorrected, NewestSeen,
              SameModeAhead, ModeToRun, ModeToProcess
<1>7. EchoesOld'
  <2>1. \A i \in 1..Len(toServer') : EchoOf(toServer'[i]) < ts
    BY <1>2, <1>3, <1>4, <1>5 DEF ChannelInv, EchoesOld
  <2> QED BY <1>1, <2>1 DEF ChannelInv, EchoesOld, LatencyOf, EchoOf
<1>8. ASSUME NEW a \in acks, Processed(a) PROVE Processed(a)'
  <2>1. ASSUME NEW i \in 1..Len(toServer'), NEW j \in 1..Len(toServer'), i < j,
               a.ts <= EchoOf(toServer'[i]), toServer'[j].kind = "input"
        PROVE  a.sn <= toServer'[j].val
    <3>1. CASE j \in 1..Len(toServer)
      <4>1. i \in 1..Len(toServer)
        BY <1>4, <2>1, <3>1
      <4> QED BY <1>4, <1>8, <2>1, <3>1, <4>1 DEF Processed
    <3>2. CASE toServer'[j] = m
      BY <1>3, <1>8, <3>2 DEF Processed, ChannelInv, NewestSeen
    <3> QED BY <1>5, <3>1, <3>2
  <2> QED BY <1>1, <1>8, <2>1 DEF Processed, EchoOf
<1>9. ASSUME NEW a \in acks, OnItsWay(a) PROVE OnItsWay(a)'
  <2>1. \A i \in 1..Len(toServer') : EchoOf(toServer'[i]) < a.ts
    BY <1>2, <1>3, <1>4, <1>5, <1>9 DEF OnItsWay, Unanswered
  <2> QED BY <1>1, <1>9, <2>1 DEF OnItsWay, SentAhead, Unanswered, EchoOf, LatencyOf
<1>10. CorrectionsAhead'
  BY <1>1, <1>8, <1>9 DEF ChannelInv, CorrectionsAhead
<1>11. LastCorrection'
  <2>1. CASE lastCorr = 0 \/ \E a \in acks : SentCorrection(a) /\ a.sn = lastCorr
    BY <1>1, <2>1 DEF LastCorrection
  <2>2. CASE /\ lastCorr <= newest
             /\ \A i \in 1..Len(toServer) : toServer[i].kind = "input" => lastCorr <= toServer[i].val
    <3>1. \A i \in 1..Len(toServer') : toServer'[i].kind = "input" => lastCorr <= toServer'[i].val
      BY <1>3, <1>4, <1>5, <2>2
    <3> QED BY <1>1, <2>2, <3>1 DEF LastCorrection
  <2> QED BY <2>1, <2>2 DEF ChannelInv, LastCorrection
<1> QED BY <1>6, <1>7, <1>10, <1>11 DEF ChannelInv

\* The channels and the acknowledgements stay in step.
THEOREM ChannelInvariance == Spec => []ChannelInv
<1>1. Init => ChannelInv
  <2> SUFFICES ASSUME Init PROVE ChannelInv
    OBVIOUS
  <2>1. GameMode \in Nat /\ clientMode = GameMode
    BY AckConstants DEF Init
  <2>2. ModeToRun(GameMode) /\ ModeToProcess(GameMode)
    BY <2>1 DEF Init, ModeToRun, ModeToProcess, Of, None
  <2>3. SameModeAhead
    BY <2>1, <2>2 DEF SameModeAhead
  <2>4. /\ AcksOrdered /\ EchoesOld /\ NewestSeen /\ HeldIsUpdate /\ CorrectionsAhead
        /\ LastCorrection /\ AcceptsOnlyCorrected
    BY DEF Init, AcksOrdered, EchoesOld, NewestSeen, HeldIsUpdate, CorrectionsAhead,
           LastCorrection, AcceptsOnlyCorrected, None
  <2> QED BY <2>3, <2>4 DEF ChannelInv
<1>2. IInv /\ ChannelInv /\ [Next]_vars => ChannelInv'
  <2> SUFFICES ASSUME IInv, ChannelInv, [Next]_vars PROVE ChannelInv'
    OBVIOUS
  <2>1. ASSUME NEW g \in Modes, HandleGameType(g) PROVE ChannelInv'
    BY <2>1, AckConstants, UpdateChannels DEF HandleGameType, Update
  <2>2. ASSUME NEW g \in Modes, TransferServerConn(g) PROVE ChannelInv'
    BY <2>2, AckConstants, TransferChannels
  <2>3. CASE HandleTeleport \/ HandleActorData
    BY <2>3, UpdateChannels DEF HandleTeleport, HandleActorData, Update
  <2>4. CASE ExecuteUnmatched \/ InputRateLimited \/ PredictMovement
    <3>1. /\ toServer # <<>> /\ toServer' = Tail(toServer)
          /\ UNCHANGED <<ts, acks, GameMode, held, toClient, cliVars, lastCorr, early>>
          /\ staleAccept' = staleAccept
      BY <2>4 DEF ExecuteUnmatched, InputRateLimited, PredictMovement, InputArrives, ackVars,
                  modeVars, moveVars, histVars
    <3> QED BY <3>1, TakesChannels DEF ChannelInv, AcceptsOnlyCorrected
  <2>5. CASE TickTimeout \/ UNCHANGED vars
    <3>1. UNCHANGED <<ts, acks, GameMode, held, toClient, toServer, clientMode, seen, newest,
                      lastCorr, early, staleAccept>>
      BY <2>5 DEF TickTimeout, vars, ackVars, modeVars, moveVars, cliVars, histVars
    <3> QED BY <3>1 DEF ChannelInv, AcksOrdered, EchoesOld, NewestSeen, HeldIsUpdate,
              CorrectionsAhead, Processed, OnItsWay, SentAhead, Unanswered, LatencyOf, EchoOf,
              LastCorrection, AcceptsOnlyCorrected, SameModeAhead, ModeToRun, ModeToProcess
  <2> QED BY <2>1, <2>2, <2>3, <2>4, <2>5, ForwardChannels, TickChannels, AcceptChannels,
             ExecuteChannels, CorrectChannels, ProcessChannels, InputChannels DEF Next
<1> QED BY <1>1, <1>2, Invariance, PTL DEF Spec

\* A client position is only accepted from an input made after the last
\* correction was processed, and no correction's acknowledgement runs before
\* that, whatever batches, inputs and transfers are under way.
THEOREM OnlyCorrectedAccepted == Spec => []AcceptsOnlyCorrected
<1>1. ChannelInv => AcceptsOnlyCorrected
  BY DEF ChannelInv
<1> QED BY <1>1, ChannelInvariance, PTL

\* KillLime's game mode is the client's once everything has been processed and
\* every acknowledgement of one has run.
THEOREM GameModeConverges == Spec => []QuiescentGameMode
<1>1. ChannelInv => QuiescentGameMode
  <2> SUFFICES ASSUME ChannelInv, held = None, toClient = <<>>, Of("gm", acks) = {}
               PROVE  GameMode = clientMode
    BY DEF QuiescentGameMode
  <2>1. PICK g \in Nat : ModeToRun(g) /\ ModeToProcess(g)
    BY DEF ChannelInv, SameModeAhead
  <2>2. GameMode = g
    BY <2>1 DEF ModeToRun
  <2>3. clientMode = g
    BY <2>1 DEF ModeToProcess, None
  <2> QED BY <2>2, <2>3
<1> QED BY <1>1, ChannelInvariance, PTL
=============================================================================
