----------------------------- MODULE ProxySession -----------------------------
(***************************************************************************)
(* One player's session in the standalone proxy, deps/proxy/proxy.go.      *)
(*                                                                         *)
(* Three goroutines share a session: the one that serves the client (dial, *)
(* start, run, close), clientLoop, which routes packets to the current     *)
(* backend, and backendLoop, which routes packets to the client and also   *)
(* carries out every transfer and every fallback.  routeMu serialises      *)
(* routing with transfers; transferMu is only ever taken by backendLoop,   *)
(* immediately before routeMu, so the two are one lock here; backMu makes  *)
(* each read and the swap of (backend, generation) atomic.                 *)
(*                                                                         *)
(* A connection is modelled by what a Read or a Write on it does: "open"   *)
(* (it works), "lost" (the transport failed), "kicked" (the backend sent a *)
(* player-facing disconnect) or "closed" (the proxy closed it).  Packets   *)
(* carry only what decides control: ordinary data or a Transfer.           *)
(***************************************************************************)
EXTENDS Naturals

CONSTANT MaxDials    \* bound: how many Dial calls succeed in one session

ASSUME MaxDialsAssumption == MaxDials \in Nat \ {0}

VARIABLES
  main,        \* where serveClient is
  parentDone,  \* the context of Serve is cancelled
  client,      \* the client's connection
  link,        \* the connection of every backend dialed, by dial number
  dials,       \* Dial calls that succeeded
  backend,     \* session.backend
  generation,  \* session.generation
  handlerOn,   \* the backend the Handler was last given
  view,        \* the backend whose world the client was last put in
  routeMu,     \* owner of routeMu
  pcC,         \* where clientLoop is
  pcB,         \* where backendLoop is
  snap,        \* backendLoop's copy of session.backend
  snapGen,     \* backendLoop's copy of session.generation
  op,          \* which of transfer and recoverFallback is running
  cand,        \* transferLocked's dialed, uncommitted backend (0: none)
  old,         \* the backend swapBackend replaced (0: none)
  reset,       \* result of resetTransferState: "ok" or "err"
  failures,    \* consecutiveReadFailures
  lastWait,    \* back-off slept since the locks were taken, in ms
  endCause     \* the first error that reached run (history variable)

mainVars  == <<main, parentDone>>
connVars  == <<client, link, dials>>
sessVars  == <<backend, generation, handlerOn, view>>
xferVars  == <<op, cand, old, reset, lastWait>>
snapVars  == <<snap, snapGen, failures>>
vars == <<mainVars, connVars, sessVars, routeMu, pcC, pcB, snapVars, xferVars,
          endCause>>

Backends == 1..MaxDials
Closing  == {"closeHandler", "closeBackend", "closeClient", "done"}

\* run cancels the session's context when it returns, before close() runs
ctxDone == parentDone \/ main \in Closing

\* backendLoop between taking the locks and swapping the backend
PreSwap == {"backoff", "begin", "dialing", "check", "spawn", "attach", "swap"}
\* backendLoop inside transferLocked after the swap
PostSwap == {"reset", "closeOld"}

-----------------------------------------------------------------------------
\* fallbackRetryDelay, in milliseconds
initialFallbackRetryDelay == 100
maximumFallbackRetryDelay == 2000

fallbackRetryDelay[n \in Nat] ==
  IF n <= 1 THEN initialFallbackRetryDelay
  ELSE IF fallbackRetryDelay[n - 1] * 2 < maximumFallbackRetryDelay
       THEN fallbackRetryDelay[n - 1] * 2
       ELSE maximumFallbackRetryDelay

\* Defect: the comparison is the wrong way round
isCurrent_Stale == snapGen > generation

isCurrent == snapGen = generation

\* an error sent on errCh: run returns the first one
Report(cause) == endCause' = IF endCause = "none" THEN cause ELSE endCause

-----------------------------------------------------------------------------
Init ==
  /\ main = "dial" /\ parentDone = FALSE
  /\ client = "open"
  /\ link = [b \in Backends |-> "none"] /\ dials = 0
  /\ backend = 0 /\ generation = 0 /\ handlerOn = 0 /\ view = 0
  /\ routeMu = "free"
  /\ pcC = "idle" /\ pcB = "idle"
  /\ snap = 0 /\ snapGen = 0 /\ failures = 0
  /\ op = "none" /\ cand = 0 /\ old = 0 /\ reset = "ok" /\ lastWait = 0
  /\ endCause = "none"

(* ------------------------------ serveClient ------------------------------ *)
\* the first Dial and newSession
ServeDial ==
  /\ main = "dial"
  /\ dials' = 1 /\ link' = [link EXCEPT ![1] = "open"]
  /\ backend' = 1
  /\ main' = "start"
  /\ UNCHANGED <<parentDone, client, generation, handlerOn, view, routeMu,
                 pcC, pcB, snapVars, xferVars, endCause>>

\* the first Dial fails: the listener disconnects the client
ServeDialFails ==
  /\ main = "dial"
  /\ main' = "done" /\ client' = "closed"
  /\ Report("dial")
  /\ UNCHANGED <<parentDone, link, dials, sessVars, routeMu, pcC, pcB,
                 snapVars, xferVars>>

\* StartGame on the client and DoSpawn on the backend, then Handler.Start
StartOk ==
  /\ main = "start" /\ client = "open" /\ link[backend] = "open"
  /\ handlerOn' = backend /\ view' = backend
  /\ main' = "run" /\ pcC' = "read" /\ pcB' = "snap"
  /\ UNCHANGED <<parentDone, connVars, backend, generation, routeMu,
                 snapVars, xferVars, endCause>>

StartFails ==
  /\ main = "start"
  /\ main' = "closeHandler"
  /\ Report("start")
  /\ UNCHANGED <<parentDone, connVars, sessVars, routeMu, pcC, pcB,
                 snapVars, xferVars>>

\* Defect: run waits for both loops
loopReturned_Both == pcC = "done" /\ pcB = "done"

loopReturned == pcC = "done" \/ pcB = "done"

\* run returns on the first loop error or on the parent context
RunReturns ==
  /\ main = "run"
  /\ loopReturned \/ parentDone
  /\ Report("ctx")
  /\ main' = "closeHandler"
  /\ UNCHANGED <<parentDone, connVars, sessVars, routeMu, pcC, pcB,
                 snapVars, xferVars>>

\* session.close, its three calls; none of them takes routeMu
CloseHandler ==
  /\ main = "closeHandler"
  /\ main' = "closeBackend"
  /\ UNCHANGED <<parentDone, connVars, sessVars, routeMu, pcC, pcB,
                 snapVars, xferVars, endCause>>

CloseBackend ==
  /\ main = "closeBackend"
  /\ link' = [link EXCEPT ![backend] = "closed"]
  /\ main' = "closeClient"
  /\ UNCHANGED <<parentDone, client, dials, sessVars, routeMu, pcC, pcB,
                 snapVars, xferVars, endCause>>

CloseClient ==
  /\ main = "closeClient"
  /\ client' = "closed"
  /\ main' = "done"
  /\ UNCHANGED <<parentDone, link, dials, sessVars, routeMu, pcC, pcB,
                 snapVars, xferVars, endCause>>

(* ------------------------------ clientLoop ------------------------------- *)
C_Read ==
  /\ pcC = "read" /\ client = "open"
  /\ pcC' = "route"
  /\ UNCHANGED <<mainVars, connVars, sessVars, routeMu, pcB, snapVars,
                 xferVars, endCause>>

C_ReadError ==
  /\ pcC = "read" /\ client # "open"
  /\ pcC' = "done"
  /\ Report("client")
  /\ UNCHANGED <<mainVars, connVars, sessVars, routeMu, pcB, snapVars,
                 xferVars>>

C_Lock ==
  /\ pcC = "route" /\ routeMu = "free"
  /\ routeMu' = "client" /\ pcC' = "routed"
  /\ UNCHANGED <<mainVars, connVars, sessVars, pcB, snapVars, xferVars,
                 endCause>>

\* the handler drops the packet, or it is written to the current backend
C_Forward ==
  /\ pcC = "routed"
  /\ routeMu' = "free" /\ pcC' = "read"
  /\ UNCHANGED <<mainVars, connVars, sessVars, pcB, snapVars, xferVars,
                 endCause>>

C_WriteError ==
  /\ pcC = "routed" /\ link[backend] # "open"
  /\ routeMu' = "free" /\ pcC' = "done"
  /\ Report("clientWrite")
  /\ UNCHANGED <<mainVars, connVars, sessVars, pcB, snapVars, xferVars>>

(* ------------------------------ backendLoop ------------------------------ *)
B_Snapshot ==
  /\ pcB = "snap"
  /\ snap' = backend /\ snapGen' = generation
  /\ pcB' = "read"
  /\ UNCHANGED <<mainVars, connVars, sessVars, routeMu, pcC, failures,
                 xferVars, endCause>>

B_ReadData ==
  /\ pcB = "read" /\ link[snap] = "open"
  /\ failures' = IF isCurrent THEN 0 ELSE failures
  /\ pcB' = IF isCurrent THEN "lock" ELSE "snap"
  /\ UNCHANGED <<mainVars, connVars, sessVars, routeMu, pcC, snap, snapGen,
                 xferVars, endCause>>

B_ReadTransfer ==
  /\ pcB = "read" /\ link[snap] = "open"
  /\ failures' = IF isCurrent THEN 0 ELSE failures
  /\ pcB' = IF isCurrent THEN "tlock" ELSE "snap"
  /\ op' = "transfer"
  /\ UNCHANGED <<mainVars, connVars, sessVars, routeMu, pcC, snap, snapGen,
                 cand, old, reset, lastWait, endCause>>

\* Defect: no read error is player-facing
backendDisconnectMessage_Never == FALSE

backendDisconnectMessage == link[snap] = "kicked"

\* a transport failure, or the proxy's own close: fall back
B_ReadLost ==
  /\ pcB = "read" /\ link[snap] \in {"lost", "kicked", "closed"}
  /\ ~backendDisconnectMessage
  /\ pcB' = IF isCurrent THEN "tlock" ELSE "snap"
  /\ op' = "fallback"
  /\ UNCHANGED <<mainVars, connVars, sessVars, routeMu, pcC, snapVars,
                 cand, old, reset, lastWait, endCause>>

\* a player-facing disconnect is forwarded and ends the loop
B_ReadKicked ==
  /\ pcB = "read" /\ backendDisconnectMessage /\ isCurrent
  /\ pcB' = "done"
  /\ Report("kicked")
  /\ UNCHANGED <<mainVars, connVars, sessVars, routeMu, pcC, snapVars,
                 xferVars>>

B_Lock ==
  /\ pcB = "lock" /\ routeMu = "free"
  /\ routeMu' = "backend" /\ pcB' = "forward"
  /\ UNCHANGED <<mainVars, connVars, sessVars, pcC, snapVars, xferVars,
                 endCause>>

\* the handler or the rewrite suppresses the packet, or the client gets it
B_Forward ==
  /\ pcB = "forward"
  /\ routeMu' = "free" /\ pcB' = "snap"
  /\ UNCHANGED <<mainVars, connVars, sessVars, pcC, snapVars, xferVars,
                 endCause>>

B_ForwardError ==
  /\ pcB = "forward" /\ client # "open"
  /\ routeMu' = "free" /\ pcB' = "done"
  /\ Report("client")
  /\ UNCHANGED <<mainVars, connVars, sessVars, pcC, snapVars, xferVars>>

(* ------------------ transfer, recoverFallback, transferLocked ------------ *)
\* Defect: the back-off starts one failure late
mustWait_Late == op = "fallback" /\ failures > 1

mustWait == op = "fallback" /\ failures > 0

\* Defect: a transfer that does not take routeMu
TransferLock_NoRouteLock ==
  /\ pcB = "tlock"
  /\ routeMu' = "backend"
  /\ pcB' = IF mustWait THEN "backoff" ELSE "begin"
  /\ lastWait' = 0
  /\ UNCHANGED <<mainVars, connVars, sessVars, pcC, snapVars, op, cand, old,
                 reset, endCause>>

TransferLock ==
  /\ pcB = "tlock" /\ routeMu = "free"
  /\ routeMu' = "backend"
  /\ pcB' = IF mustWait THEN "backoff" ELSE "begin"
  /\ lastWait' = 0
  /\ UNCHANGED <<mainVars, connVars, sessVars, pcC, snapVars, op, cand, old,
                 reset, endCause>>

\* Defect: an error path that returns without the deferred unlock
Abandon_KeepLock(cause) ==
  /\ UNCHANGED routeMu /\ cand' = 0
  /\ \/ op = "transfer" /\ pcB' = "snap" /\ UNCHANGED endCause
     \/ op = "fallback" /\ pcB' = "done" /\ Report(cause)
  /\ UNCHANGED <<mainVars, client, dials, sessVars, pcC, snapVars, op, old,
                 reset, lastWait>>

\* an error before the commit: a failed transfer is reported and the loop goes
\* on with the old backend; a failed fallback ends the loop
Abandon(cause) ==
  /\ routeMu' = "free" /\ cand' = 0
  /\ \/ op = "transfer" /\ pcB' = "snap" /\ UNCHANGED endCause
     \/ op = "fallback" /\ pcB' = "done" /\ Report(cause)
  /\ UNCHANGED <<mainVars, client, dials, sessVars, pcC, snapVars, op, old,
                 reset, lastWait>>

BackoffElapsed ==
  /\ pcB = "backoff"
  /\ pcB' = "begin" /\ lastWait' = fallbackRetryDelay[failures]
  /\ UNCHANGED <<mainVars, connVars, sessVars, routeMu, pcC, snapVars, op,
                 cand, old, reset, endCause>>

BackoffCancelled == pcB = "backoff" /\ ctxDone /\ Abandon("ctx") /\ UNCHANGED link

ContextError == pcB = "begin" /\ ctxDone /\ Abandon("ctx") /\ UNCHANGED link

DialStart ==
  /\ pcB = "begin" /\ ~ctxDone
  /\ pcB' = "dialing"
  /\ UNCHANGED <<mainVars, connVars, sessVars, routeMu, pcC, snapVars,
                 xferVars, endCause>>

DialOk ==
  /\ pcB = "dialing" /\ dials < MaxDials
  /\ dials' = dials + 1
  /\ cand' = dials + 1
  /\ link' = [link EXCEPT ![dials + 1] = "open"]
  /\ pcB' = "check"
  /\ UNCHANGED <<mainVars, client, sessVars, routeMu, pcC, snapVars, op, old,
                 reset, lastWait, endCause>>

DialFails == pcB = "dialing" /\ Abandon("fallback") /\ UNCHANGED link

\* UseBlockNetworkIDHashes of the new backend matches the session's
HashModeOk ==
  /\ pcB = "check"
  /\ pcB' = "spawn"
  /\ UNCHANGED <<mainVars, connVars, sessVars, routeMu, pcC, snapVars,
                 xferVars, endCause>>

SpawnOk ==
  /\ pcB = "spawn" /\ link[cand] = "open"
  /\ pcB' = "attach"
  /\ UNCHANGED <<mainVars, connVars, sessVars, routeMu, pcC, snapVars,
                 xferVars, endCause>>

\* Defect: an error path that does not close the candidate
RejectCandidate_Leak ==
  /\ pcB \in {"check", "spawn", "attach"}
  /\ UNCHANGED link
  /\ Abandon("fallback")

\* the hash mode differs, DoSpawn fails or the handler refuses: close it
RejectCandidate ==
  /\ pcB \in {"check", "spawn", "attach"}
  /\ link' = [link EXCEPT ![cand] = "closed"]
  /\ Abandon("fallback")

\* Handler.TransferBackend accepts
Attach ==
  /\ pcB = "attach"
  /\ handlerOn' = cand
  /\ pcB' = "swap"
  /\ UNCHANGED <<mainVars, connVars, backend, generation, view, routeMu, pcC,
                 snapVars, xferVars, endCause>>

swapBackend ==
  /\ pcB = "swap"
  /\ old' = backend /\ backend' = cand /\ cand' = 0
  /\ generation' = generation + 1
  /\ pcB' = "reset"
  /\ UNCHANGED <<mainVars, connVars, handlerOn, view, routeMu, pcC, snapVars,
                 op, reset, lastWait, endCause>>

\* resetTransferState: the clean-up and dimension packets reach the client,
\* then the chunk radius reaches the new backend
ResetOk ==
  /\ pcB = "reset" /\ client = "open" /\ link[backend] = "open"
  /\ view' = backend /\ reset' = "ok"
  /\ pcB' = "closeOld"
  /\ UNCHANGED <<mainVars, connVars, backend, generation, handlerOn, routeMu,
                 pcC, snapVars, op, cand, old, lastWait, endCause>>

ResetFails ==
  /\ pcB = "reset" /\ (client # "open" \/ link[backend] # "open")
  /\ view' = IF client = "open" THEN backend ELSE view
  /\ reset' = "err"
  /\ pcB' = "closeOld"
  /\ UNCHANGED <<mainVars, connVars, backend, generation, handlerOn, routeMu,
                 pcC, snapVars, op, cand, old, lastWait, endCause>>

\* Defect: a failed resetTransferState is only logged
CloseOld_IgnoreReset ==
  /\ pcB = "closeOld"
  /\ link' = [link EXCEPT ![old] = "closed"]
  /\ old' = 0 /\ routeMu' = "free"
  /\ \/ reset = "err" /\ pcB' = "snap" /\ UNCHANGED <<failures, endCause>>
     \/ /\ reset = "ok" /\ pcB' = "snap" /\ UNCHANGED endCause
        /\ failures' = IF op = "fallback" THEN failures + 1 ELSE failures
  /\ UNCHANGED <<mainVars, client, dials, sessVars, pcC, snap, snapGen, op,
                 cand, reset, lastWait>>

\* old.Close(), the unlocks, and backendLoop's reaction to the result
CloseOld ==
  /\ pcB = "closeOld"
  /\ link' = [link EXCEPT ![old] = "closed"]
  /\ old' = 0 /\ routeMu' = "free"
  /\ \/ reset = "err" /\ pcB' = "done" /\ Report("sync") /\ UNCHANGED failures
     \/ /\ reset = "ok" /\ pcB' = "snap" /\ UNCHANGED endCause
        /\ failures' = IF op = "fallback" THEN failures + 1 ELSE failures
  /\ UNCHANGED <<mainVars, client, dials, sessVars, pcC, snap, snapGen, op,
                 cand, reset, lastWait>>

(* ------------------------------ environment ------------------------------ *)
ClientLeaves ==
  /\ client = "open" /\ client' = "gone"
  /\ UNCHANGED <<mainVars, link, dials, sessVars, routeMu, pcC, pcB,
                 snapVars, xferVars, endCause>>

LinkBreaks(b, how) ==
  /\ link[b] = "open" /\ link' = [link EXCEPT ![b] = how]
  /\ UNCHANGED <<mainVars, client, dials, sessVars, routeMu, pcC, pcB,
                 snapVars, xferVars, endCause>>

ParentCancel ==
  /\ ~parentDone /\ parentDone' = TRUE
  /\ UNCHANGED <<main, connVars, sessVars, routeMu, pcC, pcB, snapVars,
                 xferVars, endCause>>

\* the session is over and its goroutines have returned
Terminated ==
  /\ main = "done" /\ pcC \in {"idle", "done"} /\ pcB \in {"idle", "done"}
  /\ UNCHANGED vars

-----------------------------------------------------------------------------
ServeNext ==
  \/ ServeDial \/ ServeDialFails \/ StartOk \/ StartFails \/ RunReturns
  \/ CloseHandler \/ CloseBackend \/ CloseClient
ClientNext == C_ReadError \/ C_Forward \/ C_WriteError
ForwardNext ==
  \/ B_Snapshot \/ B_ReadLost \/ B_ReadKicked \/ B_Forward \/ B_ForwardError
TransferNext ==
  \/ BackoffElapsed \/ BackoffCancelled \/ ContextError \/ DialStart
  \/ DialOk \/ DialFails \/ HashModeOk \/ SpawnOk \/ RejectCandidate
  \/ Attach \/ swapBackend \/ ResetOk \/ ResetFails \/ CloseOld
LockNext == C_Lock \/ B_Lock \/ TransferLock
EnvNext ==
  \/ C_Read \/ B_ReadData \/ B_ReadTransfer
  \/ ClientLeaves \/ ParentCancel
  \/ \E b \in Backends, how \in {"lost", "kicked"} : LinkBreaks(b, how)

Next ==
  \/ ServeNext \/ ClientNext \/ ForwardNext \/ TransferNext \/ LockNext
  \/ EnvNext \/ Terminated

Spec == Init /\ [][Next]_vars

\* Go runs every runnable goroutine, Dial, DoSpawn and the back-off timer
\* return, and sync.Mutex hands a starving waiter the lock; when a packet or a
\* broken connection arrives is up to the network.
Fairness ==
  /\ WF_vars(ServeNext) /\ WF_vars(ClientNext)
  /\ WF_vars(ForwardNext) /\ WF_vars(TransferNext)
  /\ SF_vars(C_Lock) /\ SF_vars(B_Lock) /\ SF_vars(TransferLock)

FairSpec == Spec /\ Fairness

-----------------------------------------------------------------------------
MainStates == {"dial", "start", "run"} \union Closing
PcC == {"idle", "read", "route", "routed", "done"}
PcB == {"idle", "snap", "read", "lock", "forward", "tlock", "done"}
         \union PreSwap \union PostSwap
Causes == {"none", "dial", "start", "ctx", "client", "clientWrite", "kicked",
           "fallback", "sync"}

\* Types of every variable but lastWait, whose value BackoffBeforeRedial fixes
\* (proved for all constants: ProxyProofs!TypeCorrect).
TypeOK ==
  /\ main \in MainStates /\ parentDone \in BOOLEAN
  /\ client \in {"open", "gone", "closed"}
  /\ link \in [Backends -> {"none", "open", "lost", "kicked", "closed"}]
  /\ dials \in 0..MaxDials
  /\ backend \in 0..MaxDials /\ generation \in Nat
  /\ handlerOn \in 0..MaxDials /\ view \in 0..MaxDials
  /\ routeMu \in {"free", "client", "backend"}
  /\ pcC \in PcC /\ pcB \in PcB
  /\ snap \in 0..MaxDials /\ snapGen \in Nat /\ failures \in Nat
  /\ op \in {"none", "transfer", "fallback"}
  /\ cand \in 0..MaxDials /\ old \in 0..MaxDials
  /\ reset \in {"ok", "err"}
  /\ endCause \in Causes

\* A client packet is never handled by a Handler that has been given a
\* different backend from the one the packet is then written to: clientLoop
\* (lines 321-329) holds routeMu across both, and transferLocked attaches the
\* handler and swaps the backend under the same lock.
HandlerAgrees == pcC = "routed" => handlerOn = backend

\* No backend connection is forgotten: every connection the session ever
\* dialed is closed unless it is the current one, the candidate of a running
\* transfer, or the one that transfer has just replaced (each error path of
\* transferLocked closes its candidate, the commit closes the old backend).
NoStrayBackend ==
  \A b \in Backends : link[b] \notin {"none", "closed"} => b \in {backend, cand, old}

\* The client only gets data of the backend whose world it has been reset
\* into, which is also the session's and the handler's backend: a packet of a
\* replaced backend, or one of a new backend that overtakes the transfer's
\* reset packets, is never forwarded (backendLoop lines 358-381).
ForwardsCurrentWorld ==
  pcB = "forward" => /\ snap = backend /\ view = backend
                     /\ handlerOn = backend

\* A fallback is only ever tried for a transport failure: a player-facing
\* disconnect of the current backend never leads to a new dial
\* (backendLoop lines 343-348).
FallbackOnlyWhenLost ==
  pcB \in PreSwap /\ op = "fallback" => link[backend] \in {"lost", "closed"}

\* A fallback that follows another without a packet in between has first
\* slept 100ms, doubled with each failure up to 2s (recoverFallback,
\* fallbackRetryDelay), so a backend that dies at once is not redialed in a
\* tight loop.
retryDelays == <<100, 200, 400, 800, 1600>>
BackoffBeforeRedial ==
  pcB = "dialing" /\ op = "fallback" /\ failures > 0 =>
    lastWait = IF failures \in DOMAIN retryDelays THEN retryDelays[failures] ELSE 2000

\* A fallback is tried for a lost backend only, and no sooner than the back-off
\* of the failures before it allows.
FallbackInTurn == FallbackOnlyWhenLost /\ BackoffBeforeRedial

\* When the client leaves, the session is closed (run returns and close()
\* runs), whatever transfer, back-off or dial is in progress.
ClientLeavesEndsSession == (client = "gone") ~> (main = "done")

\* A transfer or fallback gives routing back: routeMu is released whatever
\* the dial, the spawn or the reset does.
RoutingResumes == (routeMu = "backend") ~> (routeMu # "backend")

\* A lost backend is replaced or the session ends: the player is never left
\* attached to a dead backend.
LostBackendReplaced ==
  \A g \in 0..MaxDials :
    (main = "run" /\ generation = g /\ link[backend] = "lost")
      ~> (generation > g \/ main = "done")
=============================================================================
