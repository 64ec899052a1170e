----------------------------- MODULE AckPipeline -----------------------------
(***************************************************************************)
(* Lag compensation: how KillLime keeps its picture of a player in step    *)
(* with what the client has actually processed                             *)
(* (player/component/acks.go, the acknowledgements of                      *)
(* player/component/acknowledgement, and the handlers that create them).   *)
(*                                                                         *)
(* A server packet that changes the player is forwarded to the client and  *)
(* an acknowledgement for it joins the current batch.  Every Tick closes   *)
(* the batch with a NetworkStackLatency; when the client echoes it, the    *)
(* batch and all earlier ones run.  Three goroutines take part: the proxy's*)
(* backend loop, its client loop and the player's ticker.  procMu makes    *)
(* HandleServerPacket, HandleClientPacket, Tick and TransferServerConn     *)
(* atomic; the packet itself is written to the client by the proxy after   *)
(* HandleServerPacket has returned, outside procMu (held, Forward).        *)
(*                                                                         *)
(* Batches are numbered in the order they are opened and the number stands *)
(* for the random timestamp; that a 32-bit random timestamp repeats while  *)
(* an old echo is still under way is left out.  The connections are        *)
(* ordered and reliable, as RakNet's are.                                  *)
(***************************************************************************)
EXTENDS Integers, Sequences, FiniteSets

CONSTANTS
  Modes,          \* game modes
  Orbis,          \* the client is a PlayStation (DeviceOrbis)
  MaxAckTicks,    \* MaxACKTimeout * 20
  MaxUpdates,     \* bound: acknowledgements created
  MaxFlushes,     \* bound: batches opened
  MaxInputs,      \* bound: PlayerAuthInputs sent by the client
  MaxTransfers    \* bound: backend transfers

ASSUME AckConstants ==
  /\ Modes \subseteq Nat /\ Modes # {} /\ Orbis \in BOOLEAN
  /\ MaxAckTicks \in Nat
  /\ MaxUpdates \in Nat /\ MaxFlushes \in Nat /\ MaxInputs \in Nat
  /\ MaxTransfers \in Nat

VARIABLES
  ts,                      \* number of the current batch
  acks,                    \* acknowledgements not yet run
  pending,                 \* batches sent and not yet echoed
  clientTicked,
  ticksSinceLastResponse,
  GameMode,
  PendingGameMode,
  pendingTeleports,
  pendingCorrections,
  PendingCorrectionACK,    \* "yes" or "no"
  inCorrectionCooldown,
  actorData,               \* LastSetActorData has been set
  unmatchedCount,          \* BadPacketH
  lastUnmatchedTimestamp,
  violations,
  closed,                  \* the player has been disconnected
  held,                    \* packet the proxy has yet to write to the client
  toClient, toServer,      \* the two directions of the client's connection
  clientMode,              \* the game mode the client is in
  seen,                    \* updates the client has processed
  newest,                  \* the newest of them
  sn, inputs, transfers,   \* counters for the bounds; sn numbers the updates
  lastCorr,                \* the last correction sent since the last transfer
  early,                   \* history: kinds of updates whose acknowledgement
                           \* ran before the client had processed them
  staleAccept              \* history: a client position was accepted that did
                           \* not take the last correction into account

ackVars   == <<ts, acks, pending>>
respVars  == <<clientTicked, ticksSinceLastResponse>>
modeVars  == <<GameMode, PendingGameMode>>
moveVars  == <<pendingTeleports, pendingCorrections, PendingCorrectionACK,
               inCorrectionCooldown, actorData, lastCorr>>
detVars   == <<unmatchedCount, lastUnmatchedTimestamp, violations>>
cliVars   == <<clientMode, seen, newest>>
histVars  == <<early, staleAccept>>
boundVars == <<inputs, transfers>>
vars == <<ackVars, respVars, modeVars, moveVars, detVars, closed, held, toClient,
          toServer, cliVars, sn, boundVars, histVars>>

AckDivider == 1000
None == [kind |-> "none", val |-> 0, sn |-> 0]
NoMode == -1

\* sent: the client is sent something to process; set: MovementCorrection.setField
Ack == [sn : Nat, ts : Nat, kind : {"gm", "tp", "data", "corr"}, val : Nat,
        sent : BOOLEAN, set : BOOLEAN]
NewAck(kind, val, sent, set) ==
  [sn |-> sn + 1, ts |-> ts, kind |-> kind, val |-> val, sent |-> sent, set |-> set]
\* what is under way to the client, and to the server
ClientMsg == [kind : {"none", "gm", "tp", "data", "corr", "nsl"}, val : Nat, sn : Nat]
ServerMsg == [kind : {"nsl", "input"}, val : Nat]
Of(kind, S) == {a \in S : a.kind = kind}
Setters(S) == {a \in S : a.kind = "corr" /\ a.set}

\* the client echoes timestamps scaled; Execute scales them back
Echo(t) == IF Orbis THEN t * AckDivider ELSE t * AckDivider * AckDivider
ackID(w) == IF Orbis THEN w \div AckDivider ELSE (w \div AckDivider) \div AckDivider

-----------------------------------------------------------------------------
Init ==
  /\ ts = 1 /\ acks = {} /\ pending = {}
  /\ clientTicked = FALSE /\ ticksSinceLastResponse = 0
  /\ GameMode \in Modes /\ PendingGameMode = NoMode
  /\ pendingTeleports = 0 /\ pendingCorrections = 0
  /\ PendingCorrectionACK = "no" /\ inCorrectionCooldown = FALSE
  /\ actorData = FALSE /\ lastCorr = 0
  /\ unmatchedCount = 0 /\ lastUnmatchedTimestamp = 0 /\ violations = 0
  /\ closed = FALSE /\ held = None
  /\ toClient = <<>> /\ toServer = <<>>
  /\ clientMode = GameMode /\ seen = {} /\ newest = 0
  /\ sn = 0 /\ inputs = 0 /\ transfers = 0
  /\ early = {} /\ staleAccept = FALSE

(* --------------------------- HandleServerPacket -------------------------- *)
\* the acknowledgement joins the current batch, the packet is left to the proxy
Update(kind, val) ==
  /\ ~closed /\ held = None /\ sn < MaxUpdates
  /\ acks' = acks \union {NewAck(kind, val, TRUE, FALSE)}
  /\ held' = [kind |-> kind, val |-> val, sn |-> sn + 1]
  /\ sn' = sn + 1
  /\ UNCHANGED <<ts, pending, respVars, GameMode, detVars, closed, toClient,
                 toServer, cliVars, boundVars, histVars, pendingCorrections,
                 PendingCorrectionACK, inCorrectionCooldown, lastCorr>>

\* SetPlayerGameType
HandleGameType(g) ==
  /\ Update("gm", g)
  /\ PendingGameMode' = g
  /\ UNCHANGED <<pendingTeleports, actorData>>

\* MovePlayer or MoveActorAbsolute of the player: a teleport
HandleTeleport ==
  /\ Update("tp", 0)
  /\ pendingTeleports' = pendingTeleports + 1
  /\ UNCHANGED <<PendingGameMode, actorData>>

\* SetActorData of the player
HandleActorData ==
  /\ Update("data", 0)
  /\ actorData' = TRUE
  /\ UNCHANGED <<PendingGameMode, pendingTeleports>>

\* the proxy writes the packet HandleServerPacket let through
Forward ==
  /\ held # None
  /\ toClient' = Append(toClient, held)
  /\ held' = None
  /\ UNCHANGED <<ackVars, respVars, modeVars, moveVars, detVars, closed,
                 toServer, cliVars, sn, boundVars, histVars>>

(* ---------------------------------- Tick --------------------------------- *)
\* Defect: the counter runs while nothing is pending
countTick_Always ==
  IF ~clientTicked THEN ticksSinceLastResponse ELSE ticksSinceLastResponse + 1
\* ACKComponent.Tick(false)
countTick ==
  IF ~clientTicked THEN ticksSinceLastResponse
  ELSE IF pending # {} THEN ticksSinceLastResponse + 1 ELSE 0

Responsive(ticks) == pending = {} \/ ticks <= MaxAckTicks

\* Tick of a responsive player: Flush sends the current batch and opens a new
\* one
Tick ==
  /\ ~closed /\ ts <= MaxFlushes
  /\ Responsive(countTick)
  /\ ticksSinceLastResponse' = countTick /\ clientTicked' = FALSE
  /\ toClient' = Append(toClient, [kind |-> "nsl", val |-> ts, sn |-> 0])
  /\ pending' = pending \union {ts}
  /\ ts' = ts + 1
  /\ UNCHANGED <<acks, modeVars, moveVars, detVars, closed, held, toServer,
                 cliVars, sn, boundVars, histVars>>

\* Tick of a player that has not answered for too long
TickTimeout ==
  /\ ~closed
  /\ ~Responsive(countTick)
  /\ ticksSinceLastResponse' = countTick /\ clientTicked' = FALSE
  /\ closed' = TRUE
  /\ UNCHANGED <<ackVars, modeVars, moveVars, detVars, held, toClient,
                 toServer, cliVars, sn, boundVars, histVars>>

(* --------------------------- HandleClientPacket -------------------------- *)
Head1 == toServer[1]

\* Defect: the batch after the answered one runs as well
Answered_OffByOne(id) == {a \in acks : a.ts <= id + 1}

\* the acknowledgements of the echoed batch and of every earlier one
Answered(id) == {a \in acks : a.ts <= id}

\* the Run methods of the acknowledgements in a set of them, in order
UpdateGamemode(run) ==
  LET modes == Of("gm", run)
  IN \/ modes = {} /\ UNCHANGED modeVars
     \/ \E a \in modes : /\ \A b \in modes : b.sn <= a.sn
                         /\ GameMode' = a.val /\ PendingGameMode' = NoMode
TeleportPlayer(run) ==
  pendingTeleports' = pendingTeleports - Cardinality(Of("tp", run))
MovementCorrection(run) ==
  /\ pendingCorrections' = pendingCorrections - Cardinality(Of("corr", run))
  /\ PendingCorrectionACK' = IF Setters(run) = {} THEN PendingCorrectionACK ELSE "no"

\* Execute finds the batch: it and every earlier one run
Execute ==
  /\ ~closed /\ toServer # <<>> /\ Head1.kind = "nsl"
  /\ ackID(Head1.val) \in pending
  /\ LET id  == ackID(Head1.val)
         run == Answered(id)
     IN /\ acks' = acks \ run
        /\ pending' = {p \in pending : p > id}
        /\ UpdateGamemode(run) /\ TeleportPlayer(run) /\ MovementCorrection(run)
        /\ early' = early \union {a.kind : a \in {b \in run : b.sent /\ b.sn \notin seen}}
  /\ ticksSinceLastResponse' = 0
  /\ toServer' = Tail(toServer)
  /\ UNCHANGED <<ts, clientTicked, inCorrectionCooldown, actorData, lastCorr,
                 detVars, closed, held, toClient, cliVars, sn, boundVars,
                 staleAccept>>

\* Execute finds no batch: the packet goes on to the detections (BadPacketH)
ExecuteUnmatched ==
  /\ ~closed /\ toServer # <<>> /\ Head1.kind = "nsl"
  /\ ackID(Head1.val) \notin pending
  /\ IF pending = {}
     THEN lastUnmatchedTimestamp' = 0 /\ unmatchedCount' = 0 /\ UNCHANGED violations
     ELSE IF Head1.val # lastUnmatchedTimestamp
     THEN /\ lastUnmatchedTimestamp' = Head1.val
          /\ unmatchedCount' = unmatchedCount + 1
          /\ violations' = IF unmatchedCount + 1 >= 3 THEN violations + 1 ELSE violations
     ELSE UNCHANGED detVars
  /\ toServer' = Tail(toServer)
  /\ UNCHANGED <<ackVars, respVars, modeVars, moveVars, closed, held, toClient,
                 cliVars, sn, boundVars, histVars>>

\* an input over the rate limit is dropped before it counts as a client tick
InputRateLimited ==
  /\ ~closed /\ toServer # <<>> /\ Head1.kind = "input"
  /\ toServer' = Tail(toServer)
  /\ UNCHANGED <<ackVars, respVars, modeVars, moveVars, detVars, closed, held,
                 toClient, cliVars, sn, boundVars, histVars>>

InputArrives ==
  /\ ~closed /\ toServer # <<>> /\ Head1.kind = "input"
  /\ clientTicked' = TRUE
  /\ toServer' = Tail(toServer)

\* handleMovement when prediction and client disagree, with no teleport, jump
\* or knockback under way: Sync
CorrectMovement ==
  /\ InputArrives
  /\ pendingTeleports = 0 /\ sn < MaxUpdates
  /\ LET send == PendingCorrectionACK = "no" /\ actorData
     IN /\ acks' = acks \union {NewAck("corr", 0, send, PendingCorrectionACK = "no")}
        /\ PendingCorrectionACK' = IF send THEN "yes" ELSE PendingCorrectionACK
        /\ lastCorr' = IF send THEN sn + 1 ELSE lastCorr
        /\ toClient' = IF send
                       THEN Append(toClient, [kind |-> "corr", val |-> 0, sn |-> sn + 1])
                       ELSE toClient
  /\ pendingCorrections' = pendingCorrections + 1
  /\ inCorrectionCooldown' = TRUE
  /\ sn' = sn + 1
  /\ UNCHANGED <<ts, pending, ticksSinceLastResponse, modeVars,
                 pendingTeleports, actorData, detVars, closed, held, cliVars,
                 boundVars, histVars>>

\* Defect: one correction may still be pending
correctionsPending_OffByOne == pendingCorrections > 1

correctionsPending == pendingCorrections > 0

\* handleMovement when they agree and no correction is pending: the cooldown
\* ends, and outside of it the client's position is accepted
AcceptMovement ==
  /\ InputArrives
  /\ ~correctionsPending
  /\ inCorrectionCooldown' = FALSE
  /\ staleAccept' = (staleAccept \/ (/\ ~inCorrectionCooldown /\ pendingTeleports = 0
                                     /\ Head1.val < lastCorr))
  /\ UNCHANGED <<ackVars, ticksSinceLastResponse, modeVars, pendingTeleports,
                 pendingCorrections, PendingCorrectionACK, actorData, lastCorr,
                 detVars, closed, held, toClient, cliVars, sn, boundVars, early>>

\* handleMovement in every other case: prediction goes on by itself
PredictMovement ==
  /\ InputArrives
  /\ UNCHANGED <<ackVars, ticksSinceLastResponse, modeVars, moveVars, detVars,
                 closed, held, toClient, cliVars, sn, boundVars, histVars>>

(* ---------------------------- TransferServerConn ------------------------- *)
\* Defect: the batches of the old backend are kept
ResetAcks_KeepBatches ==
  /\ clientTicked' = FALSE /\ ticksSinceLastResponse' = 0
  /\ UNCHANGED ackVars
\* Defect: the counters of the old backend are kept
ResetMovement_KeepCounters ==
  /\ inCorrectionCooldown' = FALSE /\ lastCorr' = 0
  /\ UNCHANGED <<pendingTeleports, pendingCorrections>>
\* Defect: PendingCorrectionACK of the old backend is kept
SetServerConn_KeepFlag(g) == GameMode' = g /\ UNCHANGED PendingCorrectionACK

\* ResetTransferState of the acknowledgements
ResetAcks ==
  /\ clientTicked' = FALSE /\ ticksSinceLastResponse' = 0
  /\ pending' = {} /\ acks' = {} /\ ts' = ts + 1

\* ResetTransferState of the movement
ResetMovement ==
  /\ pendingTeleports' = 0 /\ pendingCorrections' = 0
  /\ inCorrectionCooldown' = FALSE /\ lastCorr' = 0

SetServerConn(g) == GameMode' = g /\ PendingCorrectionACK' = "no"

\* the proxy then sends the new backend's game mode to the client directly
TransferServerConn(g) ==
  /\ ~closed /\ held = None /\ transfers < MaxTransfers
  /\ SetServerConn(g) /\ ResetAcks /\ ResetMovement
  /\ held' = [kind |-> "gm", val |-> g, sn |-> 0]
  /\ transfers' = transfers + 1
  /\ UNCHANGED <<PendingGameMode, actorData, detVars, closed, toClient,
                 toServer, cliVars, sn, inputs, histVars>>

(* --------------------------------- client -------------------------------- *)
\* the client processes what it is sent in order and echoes each
\* NetworkStackLatency
ClientProcess ==
  /\ toClient # <<>>
  /\ LET m == toClient[1]
     IN /\ clientMode' = IF m.kind = "gm" THEN m.val ELSE clientMode
        /\ seen' = IF m.kind = "nsl" THEN seen ELSE seen \union {m.sn}
        /\ toServer' = IF m.kind = "nsl"
                       THEN Append(toServer, [kind |-> "nsl", val |-> Echo(m.val)])
                       ELSE toServer
        /\ newest' = IF m.kind # "nsl" /\ m.sn > newest THEN m.sn ELSE newest
  /\ toClient' = Tail(toClient)
  /\ UNCHANGED <<ackVars, respVars, modeVars, moveVars, detVars, closed, held,
                 sn, boundVars, histVars>>

\* an input tells, in val, the newest update it takes into account
ClientInput ==
  /\ inputs < MaxInputs
  /\ inputs' = inputs + 1
  /\ toServer' = Append(toServer, [kind |-> "input", val |-> newest])
  /\ UNCHANGED <<ackVars, respVars, modeVars, moveVars, detVars, closed, held,
                 toClient, cliVars, sn, transfers, histVars>>

Next ==
  \/ \E g \in Modes : HandleGameType(g) \/ TransferServerConn(g)
  \/ HandleTeleport \/ HandleActorData \/ Forward
  \/ Tick \/ TickTimeout
  \/ Execute \/ ExecuteUnmatched
  \/ InputRateLimited \/ CorrectMovement \/ AcceptMovement \/ PredictMovement
  \/ ClientProcess \/ ClientInput

Spec == Init /\ [][Next]_vars

-----------------------------------------------------------------------------
FlagTypes ==
  /\ clientTicked \in BOOLEAN /\ inCorrectionCooldown \in BOOLEAN
  /\ actorData \in BOOLEAN /\ closed \in BOOLEAN /\ staleAccept \in BOOLEAN
ChannelTypes ==
  /\ held \in ClientMsg
  /\ toClient \in Seq(ClientMsg) /\ toServer \in Seq(ServerMsg)
ValueTypes ==
  /\ ts \in Nat /\ acks \subseteq Ack /\ pending \subseteq Nat
  /\ ticksSinceLastResponse \in Nat
  /\ GameMode \in Nat /\ PendingGameMode \in Nat \union {NoMode}
  /\ pendingTeleports \in Int /\ pendingCorrections \in Int
  /\ PendingCorrectionACK \in {"yes", "no"} /\ lastCorr \in Nat
  /\ unmatchedCount \in Nat /\ lastUnmatchedTimestamp \in Nat /\ violations \in Nat
  /\ clientMode \in Nat /\ seen \subseteq Nat /\ newest \in Nat
  /\ sn \in Nat /\ inputs \in Nat /\ transfers \in Nat

\* Types of every variable.
TypeOK == FlagTypes /\ ChannelTypes /\ ValueTypes

\* pendingTeleports and pendingCorrections count exactly the acknowledgements
\* that will decrement them: they never go negative, and they come back to
\* zero once the client has answered, across batches answered together and
\* across transfers that drop batches.
CountersMatchAcks ==
  /\ pendingTeleports = Cardinality(Of("tp", acks))
  /\ pendingCorrections = Cardinality(Of("corr", acks))

\* While PendingCorrectionACK is set (and no further correction is sent),
\* an acknowledgement that clears it is outstanding: corrections are never
\* switched off for good.
CorrectionFlagWillClear ==
  PendingCorrectionACK = "yes" => Setters(acks) # {}

\* The timeout counter never runs ahead of the age of the oldest unanswered
\* batch, so a player is only disconnected for a batch it has left unanswered
\* for more than MaxACKTimeout (Tick, Execute, Responsive).
TimeoutNotEarly ==
  pending # {} => \E p \in pending : ticksSinceLastResponse <= ts - p

\* Once everything sent has been processed and every game mode
\* acknowledgement has run, KillLime's game mode is the client's, through
\* overlapping changes and transfers.
QuiescentGameMode ==
  held = None /\ toClient = <<>> /\ Of("gm", acks) = {} => GameMode = clientMode

\* A client position is only accepted from an input the client made after it
\* had processed the last correction of this backend, since a correction's
\* acknowledgement only runs after the client has processed the correction (Sync
\* writes both under procMu, before the batch's echo).
AcceptsOnlyCorrected == ~staleAccept /\ "corr" \notin early

=============================================================================
