----------------------------- MODULE ProxyProofs -----------------------------
(***************************************************************************)
(* Safety of ProxySession for any number of dials.  Each property of the   *)
(* session is preserved only together with who holds routeMu and which     *)
(* connection backendLoop works on at each of its steps; IInv collects     *)
(* those facts.  Below it, ProxyTransferState: whatever IDs the backends   *)
(* choose, and however many entities they show, the client's view is the   *)
(* backend's truth under the rewritten IDs, and the rewriting keeps the    *)
(* player and the entities apart; its invariant is TSInv.                  *)
(***************************************************************************)
EXTENDS ProxySession, ProxyTransferState, WellFoundedInduction, TLAPS

Transferring == PreSwap \union PostSwap
WithCandidate == {"check", "spawn", "attach", "swap"}

\* The session's goroutines start only after the first backend is dialed.
Started ==
  /\ main \in {"dial", "start"} => pcC = "idle" /\ pcB = "idle"
  /\ main = "dial" => backend = 0
  /\ main \notin {"dial", "done"} => backend # 0
  /\ pcB = "idle" <=> pcC = "idle"
  /\ pcB # "idle" => backend # 0
  /\ backend <= dials

\* Who holds routeMu is told by where the two loops are.
LockOwner ==
  /\ routeMu = "client" <=> pcC = "routed"
  /\ routeMu = "backend" <=> pcB \in Transferring \union {"forward"}

\* The candidate and the replaced backend exist exactly while transferLocked
\* works on them.
InFlight ==
  /\ IF pcB \in WithCandidate THEN cand \in 1..dials ELSE cand = 0
  /\ IF pcB \in PostSwap THEN old \in Backends ELSE old = 0

\* The handler follows the session, and leads it only between Attach and the
\* swap.
HandlerFollows ==
  pcB # "idle" => handlerOn = IF pcB = "swap" THEN cand ELSE backend

\* The client's world follows the session, except between the swap and the
\* end of a successful reset.
ViewFollows ==
  /\ pcB \notin {"idle", "reset", "closeOld", "done"} => view = backend
  /\ pcB = "closeOld" /\ reset = "ok" => view = backend

\* backendLoop's copy of (backend, generation) is current from the read to
\* the swap.
SnapFollows ==
  pcB \in {"read", "lock", "forward", "tlock"} \union PreSwap =>
    snap = backend /\ snapGen = generation

\* A fallback waits for the locks, and works, with a dead current backend.
FallbackLost ==
  pcB \in PreSwap \union {"tlock"} /\ op = "fallback" =>
    link[backend] \in {"lost", "closed"}

IInv ==
  /\ TypeOK /\ Started /\ LockOwner /\ InFlight /\ HandlerFollows
  /\ ViewFollows /\ SnapFollows /\ FallbackLost /\ NoStrayBackend

-----------------------------------------------------------------------------

\* serveClient's steps (dial, start, run, close) preserve IInv.
LEMMA ServeStep == IInv /\ ServeNext => IInv'
<1> USE MaxDialsAssumption DEF IInv, TypeOK, Started, LockOwner, InFlight, HandlerFollows, ViewFollows,
      SnapFollows, FallbackLost, NoStrayBackend, Transferring, WithCandidate,
      PreSwap, PostSwap, Backends, Closing, MainStates, PcC, PcB, Causes,
      Report, isCurrent, ctxDone, mainVars, connVars, sessVars, xferVars,
      snapVars, loopReturned, backendDisconnectMessage, mustWait
<1>1. IInv /\ ServeDial => IInv'
  BY SMTT(60) DEF ServeDial
<1>2. IInv /\ ServeDialFails => IInv'
  BY SMTT(60) DEF ServeDialFails
<1>3. IInv /\ StartOk => IInv'
  BY SMTT(60) DEF StartOk
<1>4. IInv /\ StartFails => IInv'
  BY SMTT(60) DEF StartFails
<1>5. IInv /\ RunReturns => IInv'
  BY SMTT(60) DEF RunReturns
<1>6. IInv /\ CloseHandler => IInv'
  BY SMTT(60) DEF CloseHandler
<1>7. IInv /\ CloseBackend => IInv'
  BY SMTT(60) DEF CloseBackend
<1>8. IInv /\ CloseClient => IInv'
  BY SMTT(60) DEF CloseClient
<1> QED
  BY <1>1, <1>2, <1>3, <1>4, <1>5, <1>6, <1>7, <1>8 DEF ServeNext

\* clientLoop's steps other than the lock preserve IInv.
LEMMA ClientStep == IInv /\ ClientNext => IInv'
<1> USE MaxDialsAssumption DEF IInv, TypeOK, Started, LockOwner, InFlight, HandlerFollows, ViewFollows,
      SnapFollows, FallbackLost, NoStrayBackend, Transferring, WithCandidate,
      PreSwap, PostSwap, Backends, Closing, MainStates, PcC, PcB, Causes,
      Report, isCurrent, ctxDone, mainVars, connVars, sessVars, xferVars,
      snapVars, loopReturned, backendDisconnectMessage, mustWait
<1>1. IInv /\ C_ReadError => IInv'
  BY SMTT(60) DEF C_ReadError
<1>2. IInv /\ C_Forward => IInv'
  BY SMTT(60) DEF C_Forward
<1>3. IInv /\ C_WriteError => IInv'
  BY SMTT(60) DEF C_WriteError
<1> QED
  BY <1>1, <1>2, <1>3 DEF ClientNext

\* backendLoop's reads, errors and forwarding preserve IInv.
LEMMA ForwardStep == IInv /\ ForwardNext => IInv'
<1> USE MaxDialsAssumption DEF IInv, TypeOK, Started, LockOwner, InFlight, HandlerFollows, ViewFollows,
      SnapFollows, FallbackLost, NoStrayBackend, Transferring, WithCandidate,
      PreSwap, PostSwap, Backends, Closing, MainStates, PcC, PcB, Causes,
      Report, isCurrent, ctxDone, mainVars, connVars, sessVars, xferVars,
      snapVars, loopReturned, backendDisconnectMessage, mustWait
<1>1. IInv /\ B_Snapshot => IInv'
  BY SMTT(60) DEF B_Snapshot
<1>2. IInv /\ B_ReadLost => IInv'
  BY SMTT(60) DEF B_ReadLost
<1>3. IInv /\ B_ReadKicked => IInv'
  BY SMTT(60) DEF B_ReadKicked
<1>4. IInv /\ B_Forward => IInv'
  BY SMTT(60) DEF B_Forward
<1>5. IInv /\ B_ForwardError => IInv'
  BY SMTT(60) DEF B_ForwardError
<1> QED
  BY <1>1, <1>2, <1>3, <1>4, <1>5 DEF ForwardNext

\* transferLocked's steps, its error paths included, preserve IInv.
LEMMA TransferStep == IInv /\ TransferNext => IInv'
<1> USE MaxDialsAssumption DEF IInv, TypeOK, Started, LockOwner, InFlight, HandlerFollows, ViewFollows,
      SnapFollows, FallbackLost, NoStrayBackend, Transferring, WithCandidate,
      PreSwap, PostSwap, Backends, Closing, MainStates, PcC, PcB, Causes,
      Report, isCurrent, ctxDone, mainVars, connVars, sessVars, xferVars,
      snapVars, loopReturned, backendDisconnectMessage, mustWait
<1>1. IInv /\ BackoffElapsed => IInv'
  BY SMTT(60) DEF BackoffElapsed
<1>2. IInv /\ BackoffCancelled => IInv'
  BY SMTT(60) DEF BackoffCancelled, Abandon
<1>3. IInv /\ ContextError => IInv'
  BY SMTT(60) DEF ContextError, Abandon
<1>4. IInv /\ DialStart => IInv'
  BY SMTT(60) DEF DialStart
<1>5. IInv /\ DialOk => IInv'
  BY SMTT(60) DEF DialOk
<1>6. IInv /\ DialFails => IInv'
  BY SMTT(60) DEF DialFails, Abandon
<1>7. IInv /\ HashModeOk => IInv'
  BY SMTT(60) DEF HashModeOk
<1>8. IInv /\ SpawnOk => IInv'
  BY SMTT(60) DEF SpawnOk
<1>9. IInv /\ RejectCandidate => IInv'
  BY SMTT(60) DEF RejectCandidate, Abandon
<1>10. IInv /\ Attach => IInv'
  BY SMTT(60) DEF Attach
<1>11. IInv /\ swapBackend => IInv'
  BY SMTT(60) DEF swapBackend
<1>12. IInv /\ ResetOk => IInv'
  BY SMTT(60) DEF ResetOk
<1>13. IInv /\ ResetFails => IInv'
  BY SMTT(60) DEF ResetFails
<1>14. IInv /\ CloseOld => IInv'
  BY SMTT(60) DEF CloseOld
<1> QED
  BY <1>1, <1>2, <1>3, <1>4, <1>5, <1>6, <1>7, <1>8, <1>9, <1>10, <1>11, <1>12, <1>13, <1>14 DEF TransferNext

\* Taking routeMu preserves IInv.
LEMMA LockStep == IInv /\ LockNext => IInv'
<1> USE MaxDialsAssumption DEF IInv, TypeOK, Started, LockOwner, InFlight, HandlerFollows, ViewFollows,
      SnapFollows, FallbackLost, NoStrayBackend, Transferring, WithCandidate,
      PreSwap, PostSwap, Backends, Closing, MainStates, PcC, PcB, Causes,
      Report, isCurrent, ctxDone, mainVars, connVars, sessVars, xferVars,
      snapVars, loopReturned, backendDisconnectMessage, mustWait
<1>1. IInv /\ C_Lock => IInv'
  BY SMTT(60) DEF C_Lock
<1>2. IInv /\ B_Lock => IInv'
  BY SMTT(60) DEF B_Lock
<1>3. IInv /\ TransferLock => IInv'
  BY SMTT(60) DEF TransferLock
<1> QED
  BY <1>1, <1>2, <1>3 DEF LockNext

\* Packets arriving and connections breaking preserve IInv.
LEMMA EnvStep == IInv /\ EnvNext => IInv'
<1> USE MaxDialsAssumption DEF IInv, TypeOK, Started, LockOwner, InFlight, HandlerFollows, ViewFollows,
      SnapFollows, FallbackLost, NoStrayBackend, Transferring, WithCandidate,
      PreSwap, PostSwap, Backends, Closing, MainStates, PcC, PcB, Causes,
      Report, isCurrent, ctxDone, mainVars, connVars, sessVars, xferVars,
      snapVars, loopReturned, backendDisconnectMessage, mustWait
<1>1. IInv /\ C_Read => IInv'
  BY SMTT(60) DEF C_Read
<1>2. IInv /\ B_ReadData => IInv'
  BY SMTT(60) DEF B_ReadData
<1>3. IInv /\ B_ReadTransfer => IInv'
  BY SMTT(60) DEF B_ReadTransfer
<1>4. IInv /\ ClientLeaves => IInv'
  BY SMTT(60) DEF ClientLeaves
<1>5. IInv /\ ParentCancel => IInv'
  BY SMTT(60) DEF ParentCancel
<1>6. ASSUME NEW b \in Backends, NEW how \in {"lost", "kicked"}, IInv, LinkBreaks(b, how)
     PROVE  IInv'
  BY <1>6, SMTT(60) DEF LinkBreaks
<1> QED
  BY <1>1, <1>2, <1>3, <1>4, <1>5, <1>6 DEF EnvNext

\* IInv is an invariant: it holds initially and every step of the three
\* goroutines and of the network preserves it.
THEOREM Invariance == Spec => []IInv
<1>1. Init => IInv
  <2> SUFFICES ASSUME Init PROVE IInv
    OBVIOUS
  <2>1. TypeOK
    <3>1. parentDone \in BOOLEAN
      BY DEF Init
    <3>2. link \in [Backends -> {"none", "open", "lost", "kicked", "closed"}]
      BY DEF Init
    <3> QED
      BY <3>1, <3>2, MaxDialsAssumption
         DEF Init, TypeOK, MainStates, Closing, PcC, PcB, Causes
  <2>2. Started /\ LockOwner /\ InFlight /\ HandlerFollows /\ ViewFollows
    BY DEF Init, Started, LockOwner, InFlight, HandlerFollows, ViewFollows,
           Transferring, WithCandidate, PreSwap, PostSwap
  <2>3. SnapFollows /\ FallbackLost /\ NoStrayBackend
    BY DEF Init, SnapFollows, FallbackLost, NoStrayBackend, PreSwap
  <2> QED
    BY <2>1, <2>2, <2>3 DEF IInv
<1>2. IInv /\ [Next]_vars => IInv'
  <2>1. IInv /\ UNCHANGED vars => IInv'
    BY DEF IInv, TypeOK, Started, LockOwner, InFlight, HandlerFollows,
           ViewFollows, SnapFollows, FallbackLost, NoStrayBackend, vars,
           mainVars, connVars, sessVars, xferVars, snapVars
  <2>2. IInv /\ Terminated => IInv'
    BY <2>1 DEF Terminated
  <2> QED
    BY <2>1, <2>2, ServeStep, ClientStep, ForwardStep, TransferStep, LockStep,
       EnvStep DEF Next
<1> QED
  BY <1>1, <1>2, PTL DEF Spec

\* Every variable of the session keeps its type.
THEOREM TypeCorrect == Spec => []TypeOK
<1>1. IInv => TypeOK
  BY DEF IInv
<1> QED
  BY <1>1, Invariance, PTL

\* Whatever the interleaving, a client packet goes to the backend its handler
\* was attached to when it handled the packet.
THEOREM HandlerAgreement == Spec => []HandlerAgrees
<1>1. IInv => HandlerAgrees
  BY DEF IInv, LockOwner, HandlerFollows, HandlerAgrees, Transferring, PreSwap,
         PostSwap, Started, TypeOK, MainStates, PcC, PcB, Closing
<1> QED
  BY <1>1, Invariance, PTL

\* No transfer or fallback, on any of its error paths, forgets a connection.
THEOREM NoConnectionForgotten == Spec => []NoStrayBackend
<1>1. IInv => NoStrayBackend
  BY DEF IInv
<1> QED
  BY <1>1, Invariance, PTL

\* The client only gets packets of the backend whose world it is in.
THEOREM WorldAgreement == Spec => []ForwardsCurrentWorld
<1>1. IInv => ForwardsCurrentWorld
  BY DEF IInv, ForwardsCurrentWorld, SnapFollows, ViewFollows, HandlerFollows
<1> QED
  BY <1>1, Invariance, PTL

\* A player-facing disconnect never turns into a fallback.
THEOREM FallbackSoundness == Spec => []FallbackOnlyWhenLost
<1>1. IInv => FallbackOnlyWhenLost
  BY DEF IInv, FallbackLost, FallbackOnlyWhenLost
<1> QED
  BY <1>1, Invariance, PTL

\* backendLoop's generation test (isCurrent, lines 342 and 358) never fails:
\* the backend changes only in backendLoop itself, so the copy it read the
\* packet from is still the session's backend.
THEOREM SnapshotIsCurrent == Spec => [](pcB = "read" => isCurrent)
<1>1. IInv => (pcB = "read" => isCurrent)
  BY DEF IInv, SnapFollows, isCurrent
<1> QED
  BY <1>1, Invariance, PTL

-----------------------------------------------------------------------------
(* The back-off, for any number of failures. *)

\* A non-empty set of natural numbers has a least element: what the proof by
\* induction below rests on.
LEMMA LeastNatural ==
  ASSUME NEW T \in SUBSET Nat, T # {}
  PROVE  \E n \in T : \A m \in T : n <= m
<1> DEFINE R == OpToRel(<, Nat)
<1>1. IsWellFoundedOn(R, Nat)
  BY NatLessThanWellFounded
<1>2. \A x, y \in Nat : <<x, y>> \in R <=> x < y
  BY DEF OpToRel
<1> HIDE DEF R
<1>3. PICK n \in T : \A m \in T : ~(<<m, n>> \in R)
  BY <1>1, WFMin
<1>4. \A m \in T : n <= m
  <2> TAKE m \in T
  <2>1. m \in Nat /\ n \in Nat /\ ~(m < n)
    BY <1>2, <1>3
  <2> QED BY <2>1
<1> QED BY <1>4

\* The recursion of fallbackRetryDelay, one step of it.
DelayOf(h) ==
  [n \in Nat |-> IF n <= 1 THEN initialFallbackRetryDelay
                 ELSE IF h[n - 1] * 2 < maximumFallbackRetryDelay
                      THEN h[n - 1] * 2 ELSE maximumFallbackRetryDelay]
\* What it comes to.
DelayTable ==
  [n \in Nat |-> IF n <= 1 THEN 100
                 ELSE IF n \in DOMAIN retryDelays THEN retryDelays[n] ELSE 2000]

\* fallbackRetryDelay is the recursion's solution, since it has one.
LEMMA DelayDefined == fallbackRetryDelay = DelayOf(fallbackRetryDelay)
<1>1. DelayTable = DelayOf(DelayTable)
  <2>1. ASSUME NEW n \in Nat PROVE DelayTable[n] = DelayOf(DelayTable)[n]
    <3>1. CASE n <= 1
      BY <3>1 DEF DelayTable, DelayOf, initialFallbackRetryDelay
    <3>2. CASE n > 1
      <4>1. n - 1 \in Nat
        BY <3>2
      <4> QED BY <3>2, <4>1 DEF DelayTable, DelayOf, retryDelays, maximumFallbackRetryDelay
    <3> QED BY <3>1, <3>2
  <2> QED BY <2>1 DEF DelayTable, DelayOf
<1>2. fallbackRetryDelay = CHOOSE h : h = DelayOf(h)
  BY DEF fallbackRetryDelay, DelayOf
<1> QED BY <1>1, <1>2

\* By induction, it has no other.
LEMMA DelayIsTable == \A n \in Nat : fallbackRetryDelay[n] = DelayTable[n]
<1>1. \A n \in Nat : fallbackRetryDelay[n] =
        IF n <= 1 THEN initialFallbackRetryDelay
        ELSE IF fallbackRetryDelay[n - 1] * 2 < maximumFallbackRetryDelay
             THEN fallbackRetryDelay[n - 1] * 2 ELSE maximumFallbackRetryDelay
  BY DelayDefined DEF DelayOf
<1> DEFINE differs == {n \in Nat : fallbackRetryDelay[n] # DelayTable[n]}
<1>2. SUFFICES ASSUME differs # {} PROVE FALSE
  OBVIOUS
<1>3. PICK n \in differs : \A m \in differs : n <= m
  BY <1>2, LeastNatural
<1>4. n \in Nat /\ n > 1
  BY <1>1 DEF DelayTable, initialFallbackRetryDelay
<1>5. n - 1 \in Nat /\ fallbackRetryDelay[n - 1] = DelayTable[n - 1]
  BY <1>3, <1>4
<1> QED BY <1>1, <1>4, <1>5 DEF DelayTable, retryDelays, maximumFallbackRetryDelay

\* From the back-off to the dial the session has slept what the failures ask
\* for.
Waited ==
  pcB \in {"begin", "dialing"} /\ op = "fallback" /\ failures > 0 =>
    lastWait = fallbackRetryDelay[failures]

LEMMA WaitedInvariant == Spec => []Waited
<1>1. Init => Waited
  BY DEF Init, Waited
<1>2. IInv /\ Waited /\ [Next]_vars => Waited'
  <2> SUFFICES ASSUME IInv, Waited, [Next]_vars PROVE Waited'
    OBVIOUS
  <2> USE DEF Waited
  <2>1. pcB \in PcB /\ failures \in Nat
    BY DEF IInv, TypeOK
  <2>2. CASE BackoffElapsed
    BY <2>2 DEF BackoffElapsed, snapVars
  <2>3. CASE TransferLock
    BY <2>1, <2>3 DEF TransferLock, mustWait, snapVars
  <2>4. CASE DialStart
    BY <2>4 DEF DialStart, xferVars, snapVars
  <2>5. CASE BackoffCancelled \/ ContextError \/ DialFails \/ RejectCandidate
    BY <2>5 DEF BackoffCancelled, ContextError, DialFails, RejectCandidate, Abandon
  <2>6. CASE DialOk \/ HashModeOk \/ SpawnOk \/ Attach \/ swapBackend \/ ResetOk \/ ResetFails
               \/ CloseOld
    BY <2>6 DEF DialOk, HashModeOk, SpawnOk, Attach, swapBackend, ResetOk, ResetFails, CloseOld
  <2>7. CASE ForwardNext \/ C_Lock \/ B_Lock
    BY <2>7 DEF ForwardNext, B_Snapshot, B_ReadLost, B_ReadKicked, B_Forward, B_ForwardError,
                C_Lock, B_Lock, xferVars, snapVars
  <2>8. CASE ServeNext
    BY <2>8 DEF ServeNext, ServeDial, ServeDialFails, StartOk, StartFails, RunReturns,
                CloseHandler, CloseBackend, CloseClient, xferVars, snapVars
  <2>9. CASE ClientNext
    BY <2>9 DEF ClientNext, C_ReadError, C_Forward, C_WriteError, xferVars, snapVars
  <2>10. CASE EnvNext
    BY <2>10 DEF EnvNext, C_Read, B_ReadData, B_ReadTransfer, ClientLeaves, ParentCancel,
                 LinkBreaks, xferVars, snapVars
  <2>11. CASE Terminated \/ UNCHANGED vars
    BY <2>11 DEF Terminated, vars, xferVars, snapVars
  <2> QED BY <2>2, <2>3, <2>4, <2>5, <2>6, <2>7, <2>8, <2>9, <2>10, <2>11
          DEF Next, TransferNext, LockNext
<1> QED BY <1>1, <1>2, Invariance, PTL DEF Spec

\* A fallback is for a lost backend, and has waited 100ms, doubled with each
\* failure before it up to 2s, however many there were.
THEOREM FallbackWaitsItsTurn == Spec => []FallbackInTurn
<1>1. IInv /\ Waited => FallbackInTurn
  <2> SUFFICES ASSUME IInv, Waited PROVE FallbackInTurn
    OBVIOUS
  <2>1. FallbackOnlyWhenLost
    BY DEF IInv, FallbackLost, FallbackOnlyWhenLost
  <2>2. BackoffBeforeRedial
    <3> SUFFICES ASSUME pcB = "dialing", op = "fallback", failures > 0
                 PROVE  lastWait = IF failures \in DOMAIN retryDelays
                                   THEN retryDelays[failures] ELSE 2000
      BY DEF BackoffBeforeRedial
    <3>1. failures \in Nat /\ lastWait = DelayTable[failures]
      BY DelayIsTable DEF IInv, TypeOK, Waited
    <3> QED BY <3>1 DEF DelayTable, retryDelays
  <2> QED BY <2>1, <2>2 DEF FallbackInTurn
<1> QED BY <1>1, Invariance, WaitedInvariant, PTL

-----------------------------------------------------------------------------
(* ProxyTransferState: the records the session and the client keep *)

Shown == [Kinds -> SUBSET Names]
Trackers == [entities : SUBSET (Ids \union {MaxInt64}), effects : SUBSET Names, shown : Shown]
Worlds == [entities : SUBSET Entity, effects : SUBSET Names, shown : Shown, dim : Dims]
Views == [entities : SUBSET ClientEntity, effects : SUBSET Names, shown : Shown, dim : Dims]

\* The variables are the records the program keeps.
Records ==
  /\ backendRid \in Ids /\ backendUid \in Ids /\ clientDimension \in Dims
  /\ tracker \in Trackers /\ world \in Worlds /\ seen \in Views
  /\ stuck \in BOOLEAN /\ moved \in BOOLEAN

\* No two entities of the backend share an ID, and none has the player's.
Apart ==
  /\ \A e, f \in world.entities : e # f => e.rid # f.rid /\ e.uid # f.uid
  /\ \A e \in world.entities : e.rid # backendRid /\ e.uid # backendUid

\* The client sees, and the tracker remembers, what is on the backend.
Mirrored ==
  /\ seen.entities = {Rewritten(e) : e \in world.entities}
  /\ tracker.entities = {rewriteUniqueID(e.uid) : e \in world.entities}
  /\ seen.effects = world.effects /\ tracker.effects = world.effects
  /\ seen.shown = world.shown /\ \A k \in Kinds : world.shown[k] \subseteq tracker.shown[k]

\* The dimension is the one the client was last sent to, which the session knows as long as
\* no backend has moved the player.
Placed ==
  /\ seen.dim = world.dim
  /\ moved \/ seen.dim = clientDimension
  /\ stuck => moved

TSInv == Records /\ Apart /\ Mirrored /\ Placed

-----------------------------------------------------------------------------
(* the rewriting of IDs *)

\* rewriteServerPacket: the player has its first ID on the client, nobody else has, and no
\* two IDs become one.
LEMMA RidsApart ==
  ASSUME Records, NEW i \in Ids, NEW j \in Ids
  PROVE  /\ rewriteRuntimeID(i) \in Ids \union {MaxInt64}
         /\ (rewriteRuntimeID(i) = clientRid) <=> (i = backendRid)
         /\ rewriteRuntimeID(i) = rewriteRuntimeID(j) => i = j
         /\ rewriteTarget(rewriteRuntimeID(i)) = i
         /\ rewriteOwn(rewriteRuntimeID(backendRid)) = backendRid
BY IdsAssumption DEF Records, rewriteRuntimeID, rewriteTarget, rewriteOwn

\* The same for unique IDs.
LEMMA UidsApart ==
  ASSUME Records, NEW i \in Ids, NEW j \in Ids
  PROVE  /\ rewriteUniqueID(i) \in Ids \union {MaxInt64}
         /\ (rewriteUniqueID(i) = clientUid) <=> (i = backendUid)
         /\ rewriteUniqueID(i) = rewriteUniqueID(j) => i = j
BY IdsAssumption DEF Records, rewriteUniqueID

\* Rewriting depends on the player's IDs on the backend only.
LEMMA SameRewriting ==
  ASSUME UNCHANGED <<backendRid, backendUid>>
  PROVE  /\ \A i : rewriteRuntimeID(i)' = rewriteRuntimeID(i)
         /\ \A i : rewriteUniqueID(i)' = rewriteUniqueID(i)
         /\ \A e : Rewritten(e)' = Rewritten(e)
BY DEF rewriteRuntimeID, rewriteUniqueID, Rewritten

-----------------------------------------------------------------------------
(* the actions *)

\* AddActor and its like: the entity is shown and tracked under its rewritten IDs.
LEMMA AddEntityKeeps ==
  ASSUME TSInv, NEW e \in Entity, AddEntity(e)
  PROVE  TSInv'
<1>0. Records /\ Apart /\ Mirrored /\ Placed
  BY DEF TSInv
<1>1. UNCHANGED <<backendRid, backendUid, clientDimension, stuck, moved>>
  BY DEF AddEntity
<1>2. /\ \A i : rewriteUniqueID(i)' = rewriteUniqueID(i)
      /\ \A f : Rewritten(f)' = Rewritten(f)
  BY <1>1, SameRewriting
<1>3. CASE e.rid = backendRid
  <2>1. UNCHANGED <<tracker, seen, world>>
    BY <1>3 DEF AddEntity, isSelfSpawn
  <2> QED
    BY <1>0, <1>1, <1>2, <2>1 DEF TSInv, Records, Apart, Mirrored, Placed
<1>4. CASE e.rid # backendRid
  <2>1. /\ tracker' = [tracker EXCEPT !.entities = @ \union {rewriteUniqueID(e.uid)}]
        /\ seen' = [seen EXCEPT !.entities = @ \union {Rewritten(e)}]
        /\ world' = [world EXCEPT !.entities = @ \union {e}]
        /\ e.uid # backendUid
        /\ \A f \in world.entities : e.rid # f.rid /\ e.uid # f.uid
    BY <1>4 DEF AddEntity, isSelfSpawn
  <2>2. e.rid \in Ids /\ e.uid \in Ids
    BY DEF Entity
  <2>3. rewriteUniqueID(e.uid) \in Ids \union {MaxInt64} /\ Rewritten(e) \in ClientEntity
    BY <1>0, <2>2, RidsApart, UidsApart DEF Rewritten, ClientEntity
  <2>4. Records'
    BY <1>0, <1>1, <2>1, <2>3 DEF Records, Trackers, Worlds, Views
  <2>5. /\ world'.entities = world.entities \union {e} /\ seen'.entities = seen.entities \union {Rewritten(e)}
        /\ tracker'.entities = tracker.entities \union {rewriteUniqueID(e.uid)}
        /\ world'.effects = world.effects /\ world'.shown = world.shown /\ world'.dim = world.dim
        /\ seen'.effects = seen.effects /\ seen'.shown = seen.shown /\ seen'.dim = seen.dim
        /\ tracker'.effects = tracker.effects /\ tracker'.shown = tracker.shown
    BY <1>0, <2>1 DEF Records, Trackers, Worlds, Views
  <2>6. Apart'
    BY <1>0, <1>1, <1>4, <2>1, <2>5 DEF Apart
  <2>7. Mirrored'
    BY <1>0, <1>2, <2>5 DEF Mirrored
  <2>8. Placed'
    BY <1>0, <1>1, <2>5 DEF Placed
  <2> QED
    BY <2>4, <2>6, <2>7, <2>8 DEF TSInv
<1> QED
  BY <1>3, <1>4

\* RemoveActor: the one entity with that ID goes, and no other.
LEMMA RemoveActorKeeps ==
  ASSUME TSInv, NEW e \in Entity, RemoveActor(e)
  PROVE  TSInv'
<1>0. Records /\ Apart /\ Mirrored /\ Placed
  BY DEF TSInv
<1>1. UNCHANGED <<backendRid, backendUid, clientDimension, stuck, moved>>
  BY DEF RemoveActor
<1>2. /\ \A i : rewriteUniqueID(i)' = rewriteUniqueID(i)
      /\ \A f : Rewritten(f)' = Rewritten(f)
  BY <1>1, SameRewriting
<1>3. /\ world' = [world EXCEPT !.entities = @ \ {e}]
      /\ tracker' = [tracker EXCEPT !.entities = @ \ {rewriteUniqueID(e.uid)}]
      /\ seen' = [seen EXCEPT !.entities = {f \in @ : f.uid # rewriteUniqueID(e.uid)}]
      /\ e \in world.entities
  BY DEF RemoveActor
<1>4. Records'
  BY <1>0, <1>1, <1>3 DEF Records, Trackers, Worlds, Views
<1>5. /\ world'.entities = world.entities \ {e}
      /\ seen'.entities = {f \in seen.entities : f.uid # rewriteUniqueID(e.uid)}
      /\ tracker'.entities = tracker.entities \ {rewriteUniqueID(e.uid)}
      /\ world'.effects = world.effects /\ world'.shown = world.shown /\ world'.dim = world.dim
      /\ seen'.effects = seen.effects /\ seen'.shown = seen.shown /\ seen'.dim = seen.dim
      /\ tracker'.effects = tracker.effects /\ tracker'.shown = tracker.shown
  BY <1>0, <1>3 DEF Records, Trackers, Worlds, Views
<1>6. Apart'
  BY <1>0, <1>1, <1>5 DEF Apart
<1>7. \A f \in world.entities : rewriteUniqueID(f.uid) = rewriteUniqueID(e.uid) => f = e
  <2>1. \A f \in world.entities : f.uid \in Ids
    BY <1>0 DEF Records, Worlds, Entity
  <2>2. \A f \in world.entities : rewriteUniqueID(f.uid) = rewriteUniqueID(e.uid) => f.uid = e.uid
    BY <1>0, <1>3, <2>1, UidsApart
  <2> QED
    BY <1>0, <1>3, <2>2 DEF Apart
<1>8. Mirrored'
  <2>1. seen'.entities = {Rewritten(f) : f \in world'.entities}
    BY <1>0, <1>5, <1>7 DEF Mirrored, Rewritten
  <2>2. tracker'.entities = {rewriteUniqueID(f.uid) : f \in world'.entities}
    BY <1>0, <1>5, <1>7 DEF Mirrored
  <2> QED
    BY <1>0, <1>2, <1>5, <2>1, <2>2 DEF Mirrored
<1>9. Placed'
  BY <1>0, <1>1, <1>5 DEF Placed
<1> QED
  BY <1>4, <1>6, <1>8, <1>9 DEF TSInv

\* MobEffect: an effect reaches the player of the client only if it was meant for the player
\* of the backend.
LEMMA MobEffectKeeps ==
  ASSUME TSInv, NEW rid \in Ids, NEW name \in Names, NEW add \in BOOLEAN, MobEffect(rid, name, add)
  PROVE  TSInv'
<1>0. Records /\ Apart /\ Mirrored /\ Placed
  BY DEF TSInv
<1> DEFINE Upd(S) == IF add THEN S \union {name} ELSE S \ {name}
<1>1. UNCHANGED <<backendRid, backendUid, clientDimension, stuck, moved>>
  BY DEF MobEffect
<1>2. /\ \A i : rewriteUniqueID(i)' = rewriteUniqueID(i)
      /\ \A f : Rewritten(f)' = Rewritten(f)
  BY <1>1, SameRewriting
<1>3. (rewriteRuntimeID(rid) = clientRid) <=> (rid = backendRid)
  BY <1>0, RidsApart
<1>4. CASE rid # backendRid
  <2>1. UNCHANGED <<world, tracker, seen>>
    BY <1>3, <1>4 DEF MobEffect
  <2> QED
    BY <1>0, <1>1, <1>2, <2>1 DEF TSInv, Records, Apart, Mirrored, Placed
<1>5. CASE rid = backendRid
  <2>1. /\ world' = [world EXCEPT !.effects = Upd(@)]
        /\ tracker' = [tracker EXCEPT !.effects = Upd(@)]
        /\ seen' = [seen EXCEPT !.effects = Upd(@)]
    BY <1>3, <1>5 DEF MobEffect
  <2>2. \A S \in SUBSET Names : Upd(S) \in SUBSET Names
    OBVIOUS
  <2> HIDE DEF Upd
  <2>3. Records'
    BY <1>0, <1>1, <2>1, <2>2 DEF Records, Trackers, Worlds, Views
  <2>4. /\ world'.entities = world.entities /\ seen'.entities = seen.entities /\ tracker'.entities = tracker.entities
        /\ world'.effects = Upd(world.effects) /\ seen'.effects = Upd(seen.effects)
        /\ tracker'.effects = Upd(tracker.effects)
        /\ world'.shown = world.shown /\ seen'.shown = seen.shown /\ tracker'.shown = tracker.shown
        /\ world'.dim = world.dim /\ seen'.dim = seen.dim
    BY <1>0, <2>1 DEF Records, Trackers, Worlds, Views
  <2> QED
    BY <1>0, <1>1, <1>2, <2>3, <2>4 DEF TSInv, Apart, Mirrored, Placed
<1> QED
  BY <1>4, <1>5

\* BossEvent, PlayerList and the scoreboards: what is shown is tracked and told to the client.
LEMMA ShowKeeps ==
  ASSUME TSInv, NEW k \in Kinds, NEW name \in Names, Show(k, name) \/ Hide(k, name)
  PROVE  TSInv'
<1>0. Records /\ Apart /\ Mirrored /\ Placed
  BY DEF TSInv
<1> DEFINE Upd(S) == IF Show(k, name) THEN S \union {name} ELSE S \ {name}
<1>1. UNCHANGED <<backendRid, backendUid, clientDimension, stuck, moved>>
  BY DEF Show, Hide
<1>2. /\ \A i : rewriteUniqueID(i)' = rewriteUniqueID(i)
      /\ \A f : Rewritten(f)' = Rewritten(f)
  BY <1>1, SameRewriting
<1>3. /\ world' = [world EXCEPT !.shown[k] = Upd(@)]
      /\ tracker' = [tracker EXCEPT !.shown[k] = Upd(@)]
      /\ seen' = [seen EXCEPT !.shown[k] = Upd(@)]
  <2>1. CASE Show(k, name)
    BY <2>1 DEF Show
  <2>2. CASE ~Show(k, name)
    BY <2>2 DEF Hide
  <2> QED
    BY <2>1, <2>2
<1>4. /\ \A A \in SUBSET Names : Upd(A) \in SUBSET Names
      /\ \A A, B \in SUBSET Names : A \subseteq B => Upd(A) \subseteq Upd(B)
  OBVIOUS
<1> HIDE DEF Upd
<1>5. /\ world.shown \in Shown /\ tracker.shown \in Shown /\ seen.shown \in Shown
      /\ \A v \in Shown : [v EXCEPT ![k] = Upd(@)] \in Shown
  <2>1. world.shown \in Shown /\ tracker.shown \in Shown /\ seen.shown \in Shown
    BY <1>0 DEF Records, Trackers, Worlds, Views
  <2>2. ASSUME NEW v \in Shown
        PROVE  [v EXCEPT ![k] = Upd(@)] \in Shown
    <3>1. v[k] \in SUBSET Names
      BY DEF Shown
    <3> QED
      BY <1>4, <3>1 DEF Shown
  <2> QED
    BY <2>1, <2>2
<1>6. /\ world'.entities = world.entities /\ seen'.entities = seen.entities /\ tracker'.entities = tracker.entities
      /\ world'.effects = world.effects /\ seen'.effects = seen.effects /\ tracker'.effects = tracker.effects
      /\ world'.shown = [world.shown EXCEPT ![k] = Upd(@)]
      /\ seen'.shown = [seen.shown EXCEPT ![k] = Upd(@)]
      /\ tracker'.shown = [tracker.shown EXCEPT ![k] = Upd(@)]
      /\ world'.dim = world.dim /\ seen'.dim = seen.dim
  BY <1>0, <1>3 DEF Records, Trackers, Worlds, Views
<1>7. Records'
  <2>1. tracker' = [tracker EXCEPT !.shown = [tracker.shown EXCEPT ![k] = Upd(@)]]
    BY <1>3
  <2>2. world' = [world EXCEPT !.shown = [world.shown EXCEPT ![k] = Upd(@)]]
    BY <1>3
  <2>3. seen' = [seen EXCEPT !.shown = [seen.shown EXCEPT ![k] = Upd(@)]]
    BY <1>3
  <2>4. tracker' \in Trackers
    BY <1>0, <1>5, <2>1 DEF Records, Trackers
  <2>5. world' \in Worlds
    BY <1>0, <1>5, <2>2 DEF Records, Worlds
  <2>6. seen' \in Views
    BY <1>0, <1>5, <2>3 DEF Records, Views
  <2> QED
    BY <1>0, <1>1, <2>4, <2>5, <2>6 DEF Records
<1>8. \A j \in Kinds : world'.shown[j] \subseteq tracker'.shown[j]
  <2> TAKE j \in Kinds
  <2>1. world.shown[j] \subseteq tracker.shown[j] /\ world.shown[j] \in SUBSET Names /\ tracker.shown[j] \in SUBSET Names
    BY <1>0, <1>5 DEF Mirrored, Shown
  <2>2. CASE j = k
    <3>1. world'.shown[j] = Upd(world.shown[j]) /\ tracker'.shown[j] = Upd(tracker.shown[j])
      BY <1>5, <1>6, <2>2 DEF Shown
    <3> QED
      BY <1>4, <2>1, <3>1
  <2>3. CASE j # k
    <3>1. world'.shown[j] = world.shown[j] /\ tracker'.shown[j] = tracker.shown[j]
      BY <1>5, <1>6, <2>3 DEF Shown
    <3> QED
      BY <2>1, <3>1
  <2> QED
    BY <2>2, <2>3
<1>9. Mirrored'
  BY <1>0, <1>2, <1>6, <1>8 DEF Mirrored
<1>10. Apart' /\ Placed'
  BY <1>0, <1>1, <1>6 DEF Apart, Placed
<1> QED
  BY <1>7, <1>9, <1>10 DEF TSInv

\* A BossEvent that shows nothing only makes the tracker remember more.
LEMMA BossEventOtherKeeps ==
  ASSUME TSInv, NEW name \in Names, BossEventOther(name)
  PROVE  TSInv'
<1>0. Records /\ Apart /\ Mirrored /\ Placed
  BY DEF TSInv
<1>1. UNCHANGED <<backendRid, backendUid, clientDimension, world, seen, stuck, moved>>
  BY DEF BossEventOther
<1>2. /\ \A i : rewriteUniqueID(i)' = rewriteUniqueID(i)
      /\ \A f : Rewritten(f)' = Rewritten(f)
  BY <1>1, SameRewriting
<1> DEFINE new == [tracker.shown EXCEPT !["bossBar"] = @ \union {name}]
<1>3. tracker.shown \in Shown
  BY <1>0 DEF Records, Trackers
<1>4. new \in Shown /\ \A k \in Kinds : tracker.shown[k] \subseteq new[k]
  BY <1>3 DEF Shown, Kinds
<1>5. tracker' = [tracker EXCEPT !.shown = new]
  BY DEF BossEventOther
<1> HIDE DEF new
<1>6. tracker' \in Trackers
  BY <1>0, <1>4, <1>5 DEF Records, Trackers
<1>7. tracker'.shown = new /\ tracker'.entities = tracker.entities /\ tracker'.effects = tracker.effects
  BY <1>0, <1>5 DEF Records, Trackers
<1>8. \A k \in Kinds : world'.shown[k] \subseteq tracker'.shown[k]
  BY <1>0, <1>1, <1>4, <1>7 DEF Mirrored
<1>9. Mirrored'
  BY <1>0, <1>1, <1>2, <1>7, <1>8 DEF Mirrored
<1> QED
  BY <1>0, <1>1, <1>6, <1>9 DEF TSInv, Records, Apart, Placed

\* The backend's own ChangeDimension is forwarded; from then on the session's note is old.
LEMMA ChangeDimensionKeeps ==
  ASSUME TSInv, NEW d \in Dims, ChangeDimension(d)
  PROVE  TSInv'
<1>0. Records /\ Apart /\ Mirrored /\ Placed
  BY DEF TSInv
<1>1. /\ UNCHANGED <<backendRid, backendUid, clientDimension, tracker>>
      /\ world' = [world EXCEPT !.dim = d] /\ seen' = [seen EXCEPT !.dim = d]
      /\ stuck' = (stuck \/ seen.dim = d) /\ moved' = TRUE
  BY DEF ChangeDimension
<1>2. /\ \A i : rewriteUniqueID(i)' = rewriteUniqueID(i)
      /\ \A f : Rewritten(f)' = Rewritten(f)
  BY <1>1, SameRewriting
<1>3. Records'
  BY <1>0, <1>1 DEF Records, Trackers, Worlds, Views
<1>4. /\ world'.entities = world.entities /\ seen'.entities = seen.entities
      /\ world'.effects = world.effects /\ seen'.effects = seen.effects
      /\ world'.shown = world.shown /\ seen'.shown = seen.shown
      /\ world'.dim = d /\ seen'.dim = d
  BY <1>0, <1>1 DEF Records, Worlds, Views
<1> QED
  BY <1>0, <1>1, <1>2, <1>3, <1>4 DEF TSInv, Apart, Mirrored, Placed

\* transferResetPackets: unless a backend moved the player, no packet of the sequence names
\* the dimension the client is in when it arrives.
LEMMA DimensionsDiffer ==
  ASSUME TSInv, NEW dim \in Dims, ~moved
  PROVE  ~SameDimension(dimensionChanges(dim))
<1>1. seen.dim = clientDimension /\ clientDimension \in Dims
  BY DEF TSInv, Placed, Records
<1>2. CASE clientDimension = dim
  <2> DEFINE free == {d \in Dims : d # clientDimension /\ d # dim}
  <2>1. \E d \in free : \A c \in free : d <= c
    <3>1. CASE dim = 0
      <4>1. 1 \in free /\ \A c \in free : 1 <= c
        BY <1>2, <3>1, DimsAssumption
      <4> QED
        BY <4>1
    <3>2. CASE dim # 0
      <4>1. 0 \in free /\ \A c \in free : 0 <= c
        BY <1>2, <3>2, DimsAssumption
      <4> QED
        BY <4>1
    <3> QED
      BY <3>1, <3>2
  <2>2. fakeDimension(dim) \in free
    BY <2>1 DEF fakeDimension
  <2>3. fakeDimension(dim) # dim /\ fakeDimension(dim) # seen.dim
    BY <1>1, <2>2
  <2>4. dimensionChanges(dim) = <<fakeDimension(dim), dim>>
    BY <1>2 DEF dimensionChanges
  <2> HIDE DEF free
  <2> QED
    BY <2>3, <2>4 DEF SameDimension
<1>3. CASE clientDimension # dim
  <2>1. dimensionChanges(dim) = <<dim>>
    BY <1>3 DEF dimensionChanges
  <2> QED
    BY <1>1, <1>3, <2>1 DEF SameDimension
<1> QED
  BY <1>2, <1>3

\* clearPackets: what the tracker remembers is all the client has, so nothing is left of it.
LEMMA NothingLeft ==
  ASSUME TSInv
  PROVE  /\ clearPackets(seen).entities = {} /\ clearPackets(seen).effects = {}
         /\ clearPackets(seen).shown = Nothing
         /\ clearPackets(seen) \in Views
<1>0. Records /\ Mirrored
  BY DEF TSInv
<1>1. seen \in Views /\ tracker \in Trackers /\ world \in Worlds
  BY <1>0 DEF Records
<1> DEFINE left == [k \in Kinds |-> seen.shown[k] \ tracker.shown[k]]
<1>2. clearPackets(seen) = [seen EXCEPT !.entities = {e \in seen.entities : e.uid \notin tracker.entities},
                                        !.effects = seen.effects \ tracker.effects,
                                        !.shown = left]
  BY DEF clearPackets
<1>3. \A e \in seen.entities : e.uid \in tracker.entities
  BY <1>0 DEF Mirrored, Rewritten
<1>4. \A k \in Kinds : seen.shown[k] \ tracker.shown[k] = {}
  BY <1>0 DEF Mirrored
<1>5. left = Nothing /\ Nothing \in Shown
  BY <1>4 DEF Nothing, Shown
<1>6. seen.effects \ tracker.effects = {}
  BY <1>0 DEF Mirrored
<1> HIDE DEF left
<1>7. clearPackets(seen) = [seen EXCEPT !.entities = {}, !.effects = {}, !.shown = Nothing]
  BY <1>2, <1>3, <1>5, <1>6
<1> QED
  BY <1>1, <1>5, <1>7 DEF Views

\* A committed transfer: the client starts from nothing on the new backend.
LEMMA TransferKeeps ==
  ASSUME TSInv, NEW rid \in Ids, NEW uid \in Ids, NEW dim \in Dims, Transfer(rid, uid, dim)
  PROVE  TSInv'
<1>0. Records /\ Placed
  BY DEF TSInv
<1>1. /\ backendRid' = rid /\ backendUid' = uid /\ clientDimension' = dim /\ moved' = moved
      /\ world' = [entities |-> {}, effects |-> {}, shown |-> Nothing, dim |-> dim]
      /\ tracker' = [entities |-> {}, effects |-> {}, shown |-> Nothing]
      /\ seen' = [clearPackets(seen) EXCEPT !.dim = dim]
      /\ stuck' = (stuck \/ SameDimension(dimensionChanges(dim)))
  BY DEF Transfer
<1>2. Nothing \in Shown
  BY DEF Nothing, Shown
<1>3. /\ seen' \in Views /\ seen'.entities = {} /\ seen'.effects = {} /\ seen'.shown = Nothing
      /\ seen'.dim = dim
  BY <1>1, NothingLeft DEF Views
<1>4. /\ world'.entities = {} /\ world'.effects = {} /\ world'.shown = Nothing /\ world'.dim = dim
      /\ tracker'.entities = {} /\ tracker'.effects = {} /\ tracker'.shown = Nothing
      /\ world' \in Worlds /\ tracker' \in Trackers
  BY <1>1, <1>2 DEF Worlds, Trackers
<1>5. SameDimension(dimensionChanges(dim)) \in BOOLEAN
  BY DEF SameDimension
<1>6. Records'
  <2>1. stuck' \in BOOLEAN
    BY <1>0, <1>1, <1>5 DEF Records
  <2> QED
    BY <1>0, <1>1, <1>3, <1>4, <2>1 DEF Records
<1>7. stuck' => moved'
  BY <1>0, <1>1, DimensionsDiffer DEF Placed
<1>8. Placed'
  BY <1>1, <1>3, <1>4, <1>7 DEF Placed
<1>9. Apart'
  BY <1>4 DEF Apart
<1>10. Mirrored'
  BY <1>3, <1>4 DEF Mirrored
<1> QED
  BY <1>6, <1>8, <1>9, <1>10 DEF TSInv

-----------------------------------------------------------------------------
\* The invariant holds when the session starts on its first backend.
LEMMA TSInitially == TSInit => TSInv
<1> SUFFICES ASSUME TSInit PROVE TSInv
  OBVIOUS
<1>1. Nothing \in Shown
  BY DEF Nothing, Shown
<1>2. Records
  BY <1>1, IdsAssumption DEF TSInit, Records, Trackers, Worlds, Views
<1>3. Apart /\ Mirrored /\ Placed
  BY <1>1 DEF TSInit, Apart, Mirrored, Placed
<1> QED
  BY <1>2, <1>3 DEF TSInv

\* Every packet of a backend and every transfer keeps it.
LEMMA TSInvariance == TSInv /\ [TSNext]_tsVars => TSInv'
<1> SUFFICES ASSUME TSInv, [TSNext]_tsVars PROVE TSInv'
  OBVIOUS
<1>1. CASE \E e \in Entity : AddEntity(e) \/ RemoveActor(e)
  BY <1>1, AddEntityKeeps, RemoveActorKeeps
<1>2. CASE \E rid \in Ids, name \in Names, add \in BOOLEAN : MobEffect(rid, name, add)
  BY <1>2, MobEffectKeeps
<1>3. CASE \E k \in Kinds, name \in Names : Show(k, name) \/ Hide(k, name)
  BY <1>3, ShowKeeps
<1>4. CASE \E name \in Names : BossEventOther(name)
  BY <1>4, BossEventOtherKeeps
<1>5. CASE \E d \in Dims : ChangeDimension(d)
  BY <1>5, ChangeDimensionKeeps
<1>6. CASE \E rid, uid \in Ids, dim \in Dims : Transfer(rid, uid, dim)
  BY <1>6, TransferKeeps
<1>7. CASE UNCHANGED tsVars
  <2>1. UNCHANGED <<backendRid, backendUid>>
    BY <1>7 DEF tsVars
  <2>2. /\ \A i : rewriteUniqueID(i)' = rewriteUniqueID(i)
        /\ \A f : Rewritten(f)' = Rewritten(f)
    BY <2>1, SameRewriting
  <2> QED
    BY <1>7, <2>2 DEF tsVars, TSInv, Records, Apart, Mirrored, Placed
<1> QED
  BY <1>1, <1>2, <1>3, <1>4, <1>5, <1>6, <1>7 DEF TSNext

\* What the client is shown is typed and true.
LEMMA MirrorsFollow == TSInv => ClientMirrorsBackend
<1> SUFFICES ASSUME TSInv PROVE ClientMirrorsBackend
  OBVIOUS
<1>1. Records /\ Mirrored /\ Placed
  BY DEF TSInv
<1>2. TSTypeOK
  BY <1>1 DEF Records, Trackers, Worlds, Views, Shown, TSTypeOK
<1> QED
  BY <1>1, <1>2 DEF ClientMirrorsBackend, Mirrored, Placed

\* The rewriting keeps everybody apart.
LEMMA IdentityFollows == TSInv => StableIdentity
<1> SUFFICES ASSUME TSInv PROVE StableIdentity
  OBVIOUS
<1>1. Records /\ Apart /\ Mirrored
  BY DEF TSInv
<1>2. /\ \A e \in world.entities : e.rid \in Ids /\ e.uid \in Ids
      /\ backendRid \in Ids /\ backendUid \in Ids
  BY <1>1 DEF Records, Worlds, Entity
<1>3. \A e \in world.entities : /\ rewriteRuntimeID(e.rid) # clientRid
                                /\ rewriteUniqueID(e.uid) # clientUid
                                /\ rewriteTarget(rewriteRuntimeID(e.rid)) = e.rid
  BY <1>1, <1>2, RidsApart, UidsApart DEF Apart
<1>4. \A e \in seen.entities : e.rid # clientRid /\ e.uid # clientUid
  BY <1>1, <1>3 DEF Mirrored, Rewritten
<1>5. \A e, f \in world.entities :
        e # f => /\ rewriteRuntimeID(e.rid) # rewriteRuntimeID(f.rid)
                 /\ rewriteUniqueID(e.uid) # rewriteUniqueID(f.uid)
  BY <1>1, <1>2, RidsApart, UidsApart DEF Apart
<1>6. /\ rewriteOwn(rewriteRuntimeID(backendRid)) = backendRid
      /\ rewriteTarget(rewriteRuntimeID(backendRid)) = backendRid
  BY <1>1, <1>2, RidsApart
<1> QED
  BY <1>3, <1>4, <1>5, <1>6 DEF StableIdentity

\* rewriteServerPacket, state_tracker.go, transferResetPackets: at all times the client sees its
\* current backend and nothing else, and no transfer of a session whose backends never moved the
\* player names the dimension the client is in.
THEOREM ViewIsBackend == TSSpec => []ClientMirrorsBackend
<1>1. TSInit => TSInv
  BY TSInitially
<1>2. TSInv /\ [TSNext]_tsVars => TSInv'
  BY TSInvariance
<1>3. TSInv => ClientMirrorsBackend
  BY MirrorsFollow
<1> QED
  BY <1>1, <1>2, <1>3, PTL DEF TSSpec

\* rewriteServerPacket, rewriteClientPacket: whichever IDs the backends choose, the player keeps one
\* ID, no entity takes it, and what the client aims at is what the backend is told of.
THEOREM IdentityKept == TSSpec => []StableIdentity
<1>1. TSInit => TSInv
  BY TSInitially
<1>2. TSInv /\ [TSNext]_tsVars => TSInv'
  BY TSInvariance
<1>3. TSInv => StableIdentity
  BY IdentityFollows
<1> QED
  BY <1>1, <1>2, <1>3, PTL DEF TSSpec
=============================================================================
