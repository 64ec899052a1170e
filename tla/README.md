# KillLime: TLA+ models, checks and proofs

KillLime is a server-authoritative anti-cheat for Minecraft: Bedrock Edition. It sits between a
client and a server, as a standalone proxy or inside a dragonfly server, simulates what the client
may do, and lets the server see only what it agrees with. This directory models its core: the proxy
session with its transfers and fallbacks, the acknowledgements that keep KillLime in step with a
client that lags behind, and the components that run under a player's mutex (inventory, entities,
combat, world, movement, detections) or share state between players (the chunk cache).

Paths below are relative to the repository. `PROJECT.json` holds the correspondence definition by
definition ("map"), the runs, the mutants, the hazards and the theorems.

## 1. The system

### 1.1 Components, their state, how they interact

| Component | State it keeps | Operations | Interacts with |
|---|---|---|---|
| Proxy session (`deps/proxy/proxy.go`) | current backend and generation, the client's view, three locks, back-off counter | serveClient, run, clientLoop, backendLoop, transferLocked, recoverFallback, close | the Handler (KillLime), the client's and the backends' connections |
| Transfer state (`deps/proxy/proxy.go`, `state_tracker.go`) | IDs of the player on client and backend, client dimension, what the client was shown | rewriteServerPacket, rewriteClientPacket, handle, clearPackets, transferResetPackets | called by the session's loops under routeMu |
| Proxy integration (`integration/proxy`) | one `Player` per session | HandleClientPacket, HandleServerPacket, TransferBackend | session → player |
| Player (`player/player.go`, `packet.go`, `network.go`) | procMu, server and client tick, game mode, Closed and CloseChan, the components | HandleClientPacket, HandleServerPacket, Tick, TransferServerConn, Close | all components; every handler runs under procMu |
| Acknowledgements (`player/component/acks.go`, `acknowledgement/`) | current batch, pending batches, ticks since the last response | Add, Flush, Execute, Tick, Responsive, ResetTransferState | filled by the handlers of server packets; run by the client's NetworkStackLatency |
| Movement corrections (`player/component/movement.go`, `player/movement.go`) | pending teleports and corrections, the correction flag | Sync, InputAcceptable, PendingCorrections, Reset | acknowledgements |
| Movement simulation (`player/simulation`, `movement.go`, `game/aabb.go`) | position, velocity, knockback, teleport in progress, flags and timers, trust in flight | Update, SimulatePlayerMovement, acknowledgements of movement | reads the world's boxes |
| Input allowance (`movement.go`, `player.go`) | allowedInputs, server and client tick, lastTick | InputAcceptable, Tick | the ticker; latency acknowledgements |
| Inventory (`player/component/inventory.go`, `inventory_transaction.go`) | predicted slots, open container, chain of unanswered requests, sync flag | HandleSingleRequest, HandleItemStackResponse, CreateWindow, RemoveWindow, ForceSync | acknowledgements write slots; drops, projectiles and placed blocks take items |
| Entities (`entity/`, `player/component/entities.go`, `utils/circular_queue.go`) | position, interpolation, ring buffer of past positions of each entity | AddEntity, RemoveEntity, MoveEntity, Tick, Rewind | combat and block placement rewind |
| Combat (`player/component/combat.go`, `player/combat.go`) | the attack held for the next input, the misprediction flag, attacked entities; twice | Attack, Calculate, Reset | entities; sends attacks to the server; hooks of detections |
| World updater (`player/component/world.go`, `player/world.go`, `utils/interaction.go`) | batched and pending block updates, chained placements, break progress | HandleUpdateBlock, SyncBlock, Flush, Tick, AttemptItemInteractionWithBlock, PlaceBlock, handleBlockActions | acknowledgements, inventory, the player's world |
| World and chunk cache (`world/`, `acknowledgement/chunks.go`) | chunks and sub-chunks of a player; decoded chunks shared by all players, with counts | AddChunk, AddSubChunk, CleanChunks, PurgeChunks, CacheChunk, CacheSubChunk | handlers of all players, closing of a player |
| Game mode, effects, clicks (`gamemode.go`, `effects.go`, `clicks.go`) | a mode and a pending one, effects, a ring of click counts of each button | Handle, Tick | acknowledgements; movement; detections |
| Detections (`player/detection.go`, `player/detection/`) | violations and buffer of each of some forty checks, what each remembers | Detect, FailDetection, PassDetection | every client packet; punishments through the event handler |
| Administration (`player/admin.go`, `player/handler.go`, `player/command`) | operators and bans, a JSON file | AddOperator, Ban, Unban, load, save | commands, join |
| Lua engine (`player/lua`) | loaded scripts and their callbacks | load, call, actions | events of the player |
| Dragonfly integration (`integration/dragonfly`) | queue of injected packets, reader goroutine | ReadPacket, WritePacket, Close | an embedded server |
| Configuration, utilities, game, store (`oconfig`, `utils`, `game`, `store`) | – | pure functions, parsing | – |

`deps/deps`, `entity/entity`, `game/game`, `integration/integration`, `assert/assert`,
`internal/internal`, `docs/docs` and `example/example` repeat the directories they lie in.

### 1.2 What is hard here

* **Three goroutines per session.** clientLoop, backendLoop and the goroutine that serves the client
  share the backend; a transfer dials, spawns and resets in the middle of it, and every step can fail
  or race the end of the session.
* **A ticker beside the two loops.** `Player.Tick` flushes acknowledgements and refills the input
  allowance whenever procMu is free, late after a stall, and also between handling a server packet and
  writing it to the client.
* **A client in the past.** Echoes, inputs, item requests, clicks and attacks arrive that were sent
  before the client knew of a correction, a block, a game mode, a rejected request or a transfer.
* **Transfers.** A transfer to another backend drops batches whose echoes are in flight, gives IDs a
  new meaning, and must clear or keep every piece of state of every component.
* **Prediction with undo.** Requests and placements are executed before they are answered and must be
  undone, or refused with what rests on them, in the right order.
* **References counted by hand** by the handlers of several players at once, and given up by a
  goroutine that Close starts.
* **Detections with memory** must not take what the system itself does to a client for what a modified
  client does, and must still reach their limit for a modified one.
* **Ring buffers, counters, clipped boxes, time-outs** at their limits.

`PROJECT.json` "hazards" lists each of these at its line, with the properties that would catch it.

### 1.3 What makes each component correct

* Session: session, handler and client agree on one backend; no dialed connection is forgotten; only
  transport failures lead to a fallback, with growing pauses; the session ends when the client leaves;
  routing always resumes.
* Transfer state: the client sees exactly its current backend, under IDs that never change or collide.
* Acknowledgements: one runs only after the client has the packet, once; counters equal what is
  outstanding; nobody who answers is timed out.
* Inventory: the prediction is what the pending requests make of the confirmed inventory.
* Entities: a rewind finds the nearest recorded position.
* Combat: an attack reaches the server at most once, the right server, and none is invented.
* World: the copy shows what the client shows; a position is locked against synchronising only while
  an update for it is under way; no click is refused for blocks the server accepted.
* Blocks: no half doors or double flowers, no crop, plant, cane, cactus, door, coral, kelp, pickle,
  cake or carpet without its ground, nobody walled in, progress for one block only.
* Movement: nobody ends inside a block or falls over an edge while sneaking; a teleport or knockback
  takes effect once; who flies was allowed to.
* Chunk cache: counts are exact, a player reads decodings of what its own backend sent, all is given
  up at the end.
* Allowance and detections: over any stretch no more inputs than ticks and the first lag; nobody
  unmodified is refused or flagged; who persists in what is detected is flagged.

## 2. Modules

| Module | Models | Code it stands for |
|---|---|---|
| `ProxySession` | session, its three goroutines, transfer and fallback | `deps/proxy/proxy.go` |
| `ProxyTransferState` | ID rewriting, client-visible state, dimension reset | `deps/proxy/proxy.go`, `state_tracker.go` |
| `AckPipeline` | acknowledgement batches, game mode, corrections, teleports, time-out | `player/component/acks.go`, `acknowledgement/`, `movement.go`, `player/player.go` |
| `InventoryRequests` (`MCInventoryRequests`) | predicted inventory and request chain | `player/component/inventory.go`, `inventory_transaction.go` |
| `EntityTracker` | positions, interpolation, ring buffer, rewind | `entity/`, `utils/circular_queue.go`, `entities.go` |
| `Combat` | the two combat components and the handlers that feed them | `player/component/combat.go`, `player/packet.go` |
| `WorldUpdater` (`MCWorldUpdater`) | block updates, their acknowledgements, chained placements | `player/component/world.go`, `acknowledgement/block.go`, `player/world.go` |
| `BlockInteraction` (`MCBlockInteraction`) | clicks with every kind of item, block actions | `utils/interaction.go`, `player/world.go`, `player/component/world.go` |
| `Collision` | boxes near a player, clipping of a box against another | `game/aabb.go`, `utils/world.go` |
| `Movement` (`MCMovement`) | the movement component and the simulation of a frame | `player/simulation/movement.go`, `player/component/movement.go`, `acknowledgement/movement.go` |
| `ChunkCache` (`MCChunkCache`) | worlds of several players, the shared caches, Close | `world/`, `acknowledgement/chunks.go`, `player/player.go` |
| `DetectionRules` | every registered detection as an operator, buffers and violations | `player/detection/`, `player/detection.go` |
| `Detections` (`MCDetections`) | a client, the tick loop, the allowance and all detections together | `player/packet.go`, `player/movement.go`, `player/player.go`, `movement.go` |
| `InputBudget` | the abstract specification of the allowance | – |
| `ProxyProofs` (of `ProxySession` and `ProxyTransferState`), `AckPipelineProofs`, `EntityTrackerProofs`, `InteractionProofs` (of `Combat`, `InventoryRequests` and `BlockInteraction`), `MovementProofs`, `ChunkCacheProofs`, `DetectionsProofs`, `WorldUpdaterProofs` | theorems and proofs | – |

The MC modules give the small worlds, requests and scenarios to TLC. `Movement` extends `Collision`,
`Detections` extends `DetectionRules` and instantiates `InputBudget`. Otherwise the modules meet at
contracts. `ProxyTransferState` takes from `ProxySession` that packets and transfers happen one at a
time (ForwardsCurrentWorld and HandlerAgrees, proved). `Combat` takes from `EntityTracker` that a
rewind finds a position exactly when the entity has been ticked since it was added (RewindNearest).
`BlockInteraction` changes the copy of the world that `WorldUpdater` keeps in line with the client.
The components under procMu see the same TransferServerConn each from its own side; what crosses
between them (an acknowledgement writes a slot, changes the game mode) is an action of its own in the
module that is written to. Only `ChunkCache` has several players, since nothing else is shared.

### 2.1 State and actions

**ProxySession.** A connection is what a Read or Write on it does: open, lost, kicked, closed. `pcC`
and `pcB` are the points at which clientLoop and backendLoop can be interrupted: reading, waiting for
routeMu, between handling and writing, and inside a transfer at every call that takes time or fails
(back-off, dial, hash mode, spawn, attach, swap, reset, close). `main` is serveClient with run and
close. `view` is the backend whose world the client was put into by the reset packets. transferMu is
only taken by backendLoop immediately before routeMu, so one variable stands for both.

**ProxyTransferState.** `world` is what is on the backend, `seen` what the client was told, `tracker`
the proxy's memory of it. One action per kind of packet that shows or hides something, one for a
backend's own ChangeDimension, one for a transfer, with arbitrary IDs and dimension on the new
backend.

**AckPipeline.** Batches are numbered; the number stands for the random timestamp. `held` is the
packet between HandleServerPacket and the proxy's write. Acknowledgements are of four kinds: set the
game mode, count a teleport down, count a correction down and clear the correction flag, and the
correction's actor data. The client answers in order; its inputs carry the newest update it had seen,
so that `staleAccept` can tell when KillLime believes a position that is too old. Where an action
stands for a whole handler (Tick: count, time-out, flush) the order of the handler is kept.

**InventoryRequests.** Request objects are records addressed by index; `prev`, `next`, `first` and
`current` are the code's pointers. An action keeps what it remembered for its undo. A request is
built from wire actions exactly as the handlers do, with their early returns; the wire actions are
worked off by functions of their number (`perform`, `Steps`). `confirmed` is what the
server's answers amount to; `mixed` and `skipped` mark histories for which the code makes no promise.
Besides requests and answers there are acknowledged server writes, drops, refused uses, containers
opening and closing, and a transfer.

**EntityTracker.** The ring buffer keeps its array, head, tail and size. `log` is what the buffer
should hold. Rewind's loop over the buffer is a recursive function (`Search`) of the number of entries
walked, which can be reasoned about. TickAll advances by one or, after a stall, by two ticks.

**Combat.** One record per component, with the code's fields that survive a call. What the geometry
says (hit valid, which entities are near) is chosen freely at each input. An attack is numbered and
remembers the backend it was made on; `received` is the sequence of attacks the server was sent.

**WorldUpdater.** Positions lie on one axis, so that chains of placements have two directions.
`chunk` and `blockUpdates` are KillLime's copy, `client` and `server` the two blocks it stands
between, `batch`, `acks` and `pending` the three places an update passes through. Packets travel in
bundles, as the connections flush once a tick. `placements` keeps every chained placement by number,
so that the links the code leaves behind stay links. The lag options are a parameter: the ghost
limit, a delay after which a batch runs unanswered, the movement cutoff. Clicks find the copy as it is when
they arrive. `early`, `resent`, `through` and `lost` record what the properties except: updates applied
without an answer, replaced chunks, placements let through, and pending entries taken off before the
last update of their position was answered.

**BlockInteraction.** A slice of cells. UseOnBlock's cases are kept by the name of the kind of block,
as the rule it applies to the place; what is put into the world is a map from cells to blocks, merged
over it. A click is AttemptItemInteractionWithBlock or
ValidateInteraction with all its refusals; an input carries up to MaxActions block actions in any
order.

**Collision, Movement.** A slice of whole units, two to a block. One frame is Update: flags and
timers, attemptTeleport, then the branch of SimulatePlayerMovement the input takes (immobile, not
loaded, gliding, climbing, in a web, walking), tryCollisions with step and one-way exits, avoidEdge,
friction and gravity, and the counters. The server's changes wait for acknowledgements; a knockback
also has its expiry and the cutoff.

**ChunkCache.** A handler is a sequence of steps, one for each call on a shared cache, between which
handlers of other players run: `task` is the handler in progress, `drops` the set of references it
still has to give up. A hash covers the payload and the mode, as in the code, while what is decoded
depends on the dimension and the number of sub-chunks as well: whoever comes first decides what the
others get, and in which layer a sub-chunk lies. `view` is what the player may read, layer by layer.
Close takes effect at once, in any handler; the purge runs when procMu is free; the ticker ends by
the next tick or by CloseChan.

**DetectionRules, Detections.** A packet is a record with the labels detections read; what they
compute from vectors is a label. Each registered detection is an operator that yields what it
remembers next and whether it fails or passes, with the buffers and trust durations of its
constructor. The violations at which a player is removed are those of the configuration
(`Configured`; `DefaultDetections` is the default one), ten for a detection it does not name. Each
button has its own queue of clicks and its limits. In `Detections` a client does one thing in all of a behaviour, legitimate or not, while the
server changes something and packets and ticks may be late; `quota` counts what the budget has left.

## 3. Runs

All runs take two workers; the longest (`chunk_cache`, `block_interaction`, `movement`) need one to
two and a half minutes.

| Run | Result | What it shows |
|---|---|---|
| `session` | pass | HandlerAgrees, NoStrayBackend, ForwardsCurrentWorld, FallbackInTurn in all interleavings of the session; under fairness ClientLeavesEndsSession, RoutingResumes, LostBackendReplaced |
| `transfer_state` | pass | ClientMirrorsBackend, StableIdentity for backends with arbitrary, colliding IDs |
| `acks` | pass | CountersMatchAcks, QuiescentGameMode, TimeoutNotEarly, CorrectionFlagWillClear, AcceptsOnlyCorrected |
| `inventory` | pass | ChainConsistent, PredictionIsReplay |
| `entity_tracker` | pass | RewindNearest, SettledWhereReceived |
| `combat` | pass | AttackSentOnce, AttackStaysWithBackend, MadeUpInTurn |
| `world_updater` | pass | PendingCovered, CopyAgrees, RefusedOnlyAfterRejection, AcceptedStays with three lag options |
| `block_interaction` | pass | ProgressBelongs, Standing, NotWalledIn for clicks and block actions in any order |
| `movement` | pass | NoEntry, EdgeSafe, MovedOnce, FlightGranted in a room with every kind of block |
| `detections` | pass | FlaggedForCause: no unmodified client is flagged, and each that persists is flagged by the detection that is there for it; RemovedForCause, InTimeAccepted; BudgetKept: the allowance implements `InputBudget` |
| `chunk_cache` | pass | CountsExact, ReadsOwnChunks, ChunksAheadKept for two players; under fairness CloseReleases |
| `badpacket_n` | violation | AuthorisedTeleportNotFlagged: a server's teleport over fifty blocks is flagged as an injected position |

The type invariant of a module is part of its structural property (ClientMirrorsBackend,
ChainConsistent, RewindNearest, PendingCovered, ProgressBelongs, NoEntry, FlaggedForCause,
CountsExact); for `ProxySession`, `AckPipeline` and `Combat` it is proved instead, and with all
but FlaggedForCause it is proved as well.

Every property of a passing run has a mutant: an operator with a plausible defect in the code
(`..._KeepCounters`, `..._NoRouteLock`), defined in front of the definition it would replace, under
which TLC finds the property violated with the same configuration.

### 3.1 Bounds, and why they are enough

* `session`: MaxDials = 4. An initial backend, two attempts that fail and a candidate give every
  interleaving of old, candidate and current, and two steps of the back-off; the cap at 2 s is only
  reached by longer runs and is a minimum in one place.
* `transfer_state`: three IDs (the player's on the client, the player's on the backend, another) are
  the cases the rewriting tells apart; two entities at a time can collide with each other; one name
  per kind of shown state, as kinds do not interact; the three dimensions are all there are.
* `acks`: two updates in up to three batches, with three inputs and one transfer: enough for two
  updates in one batch, in successive batches, and on both sides of a transfer. Orbis = TRUE covers
  the client whose echoes are divided by another factor. MaxAckTicks = 1 brings the time-out within
  reach.
* `inventory`: three requests from a set of five (sharing slots, dependent actions, an untracked one,
  crafts with and without ingredients), two outside events, one transfer, two answers per packet.
  A chain of three is the smallest with a request that is neither next nor last after a rejection.
* `entity_tracker`: a buffer of three positions and nine ticks wrap it several times, with two
  entities, of which one is a player, and three packets. Interpolation takes at most six ticks.
* `combat`: two entities, two attacks, five other events, one transfer. An attack that is held, one
  that follows, a change of mode and an input to release it fit.
* `world_updater`: three positions, which make a ground and a chain of two ghosts; a budget of four
  clicks, packets, transfers and time-outs; three ticks. Two packets and two clicks in three batches
  under way at once are the least in which a pending entry is lost (section 5): with two ticks
  CopyAgrees holds also without its exception. Lifetime 3 (200 in the code) leaves a placement time for
  two answers before it is destroyed with the third tick. MaxChainSize 4 (100) exceeds every chain but
  a circle, as it does in the program. The options are no ghosts, a chain of one, and no limit with a
  time-out and the movement cutoff; the theorems hold for all of them.
* `block_interaction`: three columns of four cells with farmland, grass, a cake on water and a hanging
  stone; thirteen hands, with a kind for the rules of UseOnBlock that the properties tell apart, and
  tall grass and a lily pad, which leave the exceptions of Standing behind; three clicks, inputs or
  updates, and any walking in between: place, disturb, place again. MaxActions = 2 block
  actions in one input are the least of which the second finds what the first left.
* `movement`: seven columns of five cells with a ledge, a slab under a ceiling, a pit, a fence, a web,
  a vine, water and a column that is not loaded; a budget in which a change of the server costs as
  much as four inputs, so that two changes, or one and a jump with its landing, fit.
* `chunk_cache`: two players, of which one travels and the other may be closed; three positions, one
  of them out of range of the others; the same or different representations; three packets, moves or
  transfers; one payload, sent in two dimensions of which one begins a layer higher. Two users of one
  entry, one of which gives it up, is the smallest case of each hazard.
* `detections`: Settle 1 (20 in the code), SwingTicks 2 (10), Window 2 (20), Tolerance 1 (5), Ring 2
  (20), two clicks of a button in the ring, one on a touch screen; four ticks and one change of the
  server. Each constant is scaled so that it is passed within the behaviour. The buffers are those of
  the constructors and the limits those of the default configuration, but for BadPacketG, which it does
  not name and which gets two violations instead of ten, so that a limit of more than one flag is
  reached. The scenarios pair each client with the changes that could disturb what it does. A client
  that persists reaches the row of inputs its detection asks for; what takes longer (AimA, HitboxA),
  more time (TimerA, BadPacketJ) or is a part of a session (BadPacketA, H, M) is only checked for not
  flagging the unmodified.

Deadlock is checked where nothing stops the model: `session`, `transfer_state`, `combat`. In the
others the counters that bound the environment (updates, moves, requests, time) end every behaviour,
which is not a deadlock of the program, so CHECK_DEADLOCK is FALSE there.

### 3.2 Fairness

`ProxySession`: weak fairness for each goroutine's own steps, since Go runs every runnable goroutine,
Dial and DoSpawn have time-outs and the back-off is a timer; strong fairness for taking routeMu, which
clientLoop and backendLoop compete for: sync.Mutex hands the lock to a waiter that has starved for a
millisecond. Nothing is assumed of the network: packets may never come, connections may break or not.

`ChunkCache`: weak fairness for a handler that has begun; strong fairness for the goroutine of Close,
which competes for procMu with handlers and ticks, by the same rule of sync.Mutex; strong fairness for
the end of the ticker, whose channel keeps firing. No packet is assumed to arrive.

### 3.3 Refinement

`InputBudget` says what the allowance promises in three variables: before the limit begins everything
is accepted; afterwards an input costs one credit, a tick leaves at least one, and credit never
exceeds the quota, which only ticks and the first lag raise. `Detections` maps `credit` to
allowedInputs and `quota` to the auxiliary count; BudgetKept (checked, and proved as BudgetRefined)
says that latency acknowledgements, stalls of the loop, late packets and transfers are nothing but
steps of the budget.

## 4. Proofs

TLAPS proves, for every value of the constants that satisfies the modules' ASSUMEs:

* **ProxySession** (MaxDials is a positive number): TypeCorrect, HandlerAgreement,
  NoConnectionForgotten, WorldAgreement, FallbackSoundness, SnapshotIsCurrent. The inductive
  invariant adds who holds routeMu at each point of the loops (LockOwner), that candidate and replaced
  backend exist exactly while transferLocked works on them (InFlight), when handler and client view
  follow the session (HandlerFollows, ViewFollows), that backendLoop's snapshot is current from the
  read to the swap (SnapFollows: only backendLoop swaps), and that a fallback waits and works with a
  dead backend (FallbackLost). It is needed because a transfer changes handler, backend and view in
  three separate steps, and only the lock makes the states in between invisible. SnapshotIsCurrent
  says more than a run: the two generation tests of backendLoop never fail. FallbackWaitsItsTurn adds
  DelayTable, which gives the delay of each attempt in a row as a value; that the code's doubling
  agrees with the table for every number of attempts is shown by taking the least attempt at which it
  would not (LeastNatural).
* **ProxyTransferState** (the client's IDs are IDs, the stand-in is not one; the dimensions are 0 to
  2): ViewIsBackend, IdentityKept, for any number of entities. The invariant adds that the tracker's
  unique IDs and effects are those of the backend and that its shown state covers it (Mirrored), that
  no two entities share an ID (Apart), and that the session's note of the dimension is right until a
  backend moves the player (Placed). Without Mirrored a transfer could leave something on the client.
* **AckPipeline** (natural number bounds; Modes a non-empty set of naturals): TypeCorrect,
  CountersExact, CorrectionsResume, TimeoutJustified. The invariant adds that the set of outstanding
  acknowledgements is finite and each numbered no higher than the last one created, so that adding one
  raises its count by exactly one and running a batch with all earlier ones lowers it by exactly what
  it removes; and that the time-out counter stays below the age of some pending batch until the player
  is disconnected, and is zero when nothing is pending. OnlyCorrectedAccepted and GameModeConverges
  rest on ChannelInv, which follows every message on its way: acknowledgements are ordered by batch;
  echoes and latencies under way belong to batches that are closed; a correction whose acknowledgement
  is outstanding is processed, with the inputs behind the answer taking it into account, or on its way
  ahead of every latency that would run it; the game mode KillLime will have when all its
  acknowledgements have run is the one the client will have when it has processed everything. The
  packet held between HandleServerPacket and the write is in both sums, so that a flush in between
  breaks neither.
* **EntityTracker** (HistorySize is a positive number, positions are integers): EntitiesSettle, and
  BufferKept, which no run states: for every size the ring that Rewind walks holds the positions
  recorded last, in order, behind zero entries only. The invariant says it by age (the slot of the
  k-th newest entry), because one Append then moves each entry by one slot; `Wrap` turns the code's
  remainder into a comparison. RewindFindsNearest adds that the ticks of the log increase: the walk
  passes zero entries, then entries in order, and the last one looked at is the nearest as long as the
  loop goes on; where it breaks off, the distance has begun to grow and only grows from there (`Knows`,
  by induction on the number of entries walked).
* **WorldUpdater** (any options; numbers are natural, Lifetime and MaxChainSize positive): NoUpdateForgotten,
  RefusedForRejection, AnswersStay, CopyStaysInLine. `Covered` is PendingCovered; what it needs beside it is that no
  pending entry is from a backend that is yet to come, so that a transfer, which drops the
  acknowledgements, leaves none of its own behind. For the chains the invariant says that a link
  leads to a placement, and every link but the one to the parent to something placed against this one
  (Links): so what setPlacementAllowed reaches going down rests on the block that was refused, and a
  block that is not allowed rests on one the server has rejected (Ghosts). Foundation follows what a
  block was placed on, not the links, because destroy cuts links also where it should not and they can
  form a circle; `Later` says that nothing is taken back, and gives AcceptedStays. That the time of a
  placement with a position is never over (Alive) keeps the count-down typed. A loop over one of Go's
  maps is a function of the number of turns, and holds for every order of the map.
  CopyStaysInLine is CopyAgrees. That property speaks of the moment when nothing is under way; to get
  there, CopyInv compares in every state what the two sides will end with: the block the copy has when
  the open batch and all acknowledgements have run (Ends), and the last one on its way to the client,
  or what it shows when there is none (Arrives, Silent). They are the same but for a block the client
  has placed and whose click is under way behind everything that sets its position (Predicted). It
  needs that acknowledgements, bundles and answers are in the order of their numbers and each
  acknowledgement has a bundle or an answer (Ordered, Awaited), that bundle and acknowledgement are
  about the same blocks (Carried, NothingElse), and that the client shows what a click under way places
  (Visible). SyncBlock keeps it by Covered: where it is silent, an update is on its way. For the second
  part the copy ends with the block of the server, and where nothing is pending it has it already
  and all that is coming is that block (Served); this is where the entries taken off too early (`lost`)
  have to be excepted.
* **Combat** (runtime ids are integers other than 0; natural number bounds): TypeCorrect,
  AttacksNotRepeated, AttacksNotMisdirected, NoAttackInvented, ComponentsRecover. The invariant adds
  `Sound`, what a component may hold (only an attack of the client, received, made on the current
  backend), and `HeldNotSent`: the held attack is not among those that were sent. Without it
  AttackSentOnce is not inductive, since an input would send the held attack again.
* **InventoryRequests** (any slots, grids, requests and updates of their types): InventoryInvariant,
  RequestsStayLinked (ChainConsistent), PredictionReplays (PredictionIsReplay). The invariant says that
  the pending requests are the objects first..last, linked both ways with increasing ids (Linked), and
  that there is a run of them (Predicted): a sequence of inventories from the confirmed one to the
  predicted one, each the result of the next request, whose actions remember what they found there.
  The run is what a rejection needs: it undoes the requests from the last on and performs the next
  again. An undo gives back the inventory before the action (RevertExecuted) and performing again what
  was undone gives the same result and memory (ExecuteAgain); an accepted request leaves the head of
  the run for the confirmed inventory.
* **BlockInteraction** (TerrainAssumption: in the worlds it starts with, doors and double flowers are
  whole and what Footing names has its ground): ProgressIsOfItsBlock (ProgressBelongs),
  PlacedBlocksStand (Standing), PlayerStaysFree (NotWalledIn), for any size of the slice and any number
  of clicks and block actions. BreakInv adds that no progress means nothing spent, and progress or a
  break under way means a position. What UseOnBlock wants to place has its footing, and a half comes
  with the other, in the world it is placed into, for every kind (Sits); a placement only replaces what
  can be replaced, on which, of the kinds of Footing, only cakes and carpets stand, and never by air
  (Ground); the table of rules gives no rule to a half (Regular).
* **Collision, Movement** (a positive Unit, a world of known kinds of any size, inputs and updates
  of their types, places where the server puts the player free): of the geometry, ClipStaysOut (a box
  that is outside of a block is outside of it after moving along an axis by the clipped velocity),
  ClipNeverAdds and PenetrationIsLeft. From them NeverEntered: clipping against all boxes found clears
  each of them (`ClipAll` is a recursive function of the number of boxes visited, and what one clip
  leaves out the later ones keep out), the boxes found cover the way, and so a frame that starts in the
  open ends there, by each of its branches. MovementTyped, EdgeKept, MovedOnceEach and OnlyGrantedFlight
  follow with MoveInv, whose parts are: the updates in flight have numbers of their own, and a knockback
  among them that has not been run was not set and has an input left before its expiry (Queue); a
  teleport in progress started at its place and ends there (Guided); who flies or would be let fly was
  allowed to (Trusted); penetrated and stuck are what the last two frames saw (Open); EdgeSafe itself.
* **ChunkCache** (finite players, radii positive): SentAheadStays. The invariant says of each chunk a
  player was sent that it is there until it lies behind the player, and exempt as long as it lies
  ahead; it needs no fact about lastCleanPos, the radii or the caches. EntriesCounted and
  OwnChunksRead are about the caches: the count of an entry is the cardinality of the set of references
  to it, those in the worlds of all players and those a handler in progress has taken out and not yet
  given up. One lemma per shared call says how that set changes; the shape of each handler's task
  (Shapes), what a hash does say of its entry (SharedShape: payload and mode, and that some dimension
  has the sub-chunk in that layer) and that a world reads what its view allows (Owns) complete the
  invariant.
* **Detections** (the numbers are natural, Window and Ring positive): BudgetInvariant, BudgetRefined,
  GrantedWithinQuota. The invariant BudgetInv relates the allowance, the server's tick and the quota:
  the refill of a tick is never more than the ticks that passed, also when the loop was late.
  InTimeIsAccepted is the converse for who keeps to the pace, with the hypothesis that its latency is
  below the first allowance of 65535 inputs (most of an hour): PaceInv says that the inputs under way
  are no more than the allowance and the ticks due, that the client's tick and the inputs under way are
  no more than the server's tick and those due, and the same of the tick a flushed batch will set with
  the inputs behind its answer. Without the last part it is not inductive, since a latency
  acknowledgement moves the client's tick and with it what the next tick of the loop refills.
  RemovedAtTheLimit rests on RemovalInv: the violations in the record of a detection are no more than
  the flags it kept, since a flag is worth at most one and, with a trust duration, less the longer
  ago the last one was; that needs the last flag not to be in the future, hence a server's tick that never
  goes back, and that the packets under way come from a touch screen only if the client touches.

The proofs have one lemma per action or group of actions and combine them in `Invariance`; the
theorems follow from it.

Only model-checked: the liveness properties of `ProxySession` and `ChunkCache`; and FlaggedForCause,
which depends on the code's numbers for each of forty detections and on what each scenario does. Liveness
under fairness is out of the prover's reach. So are facts about folds and the theorems of the library
that take an operator, among them the rules of induction; where a proof needs induction over the naturals
it takes a least element instead (LeastNatural), which works for recursive functions.

## 5. Findings and observations

`badpacket_n`: BadPacketN exempts an input while a teleport is pending or under way, but runs after
the movement component has consumed both with the same packet, so that the first input at the place
the server sent the client to fails, the second as well, and that one is flagged (FailBuffer 2). `PROJECT.json` "findings" quotes the comment and the test.

The models contain the following behaviour, which no property forbids; a maintainer may want to know.

*Session and transfer*
* close() during a transfer's Dial closes the backend that is about to be replaced; the one swapped in
  afterwards is closed by nobody (`proxy.go:429`, `:450`).
* A tick between handling a server packet and writing it to the client sends the batch with its
  acknowledgement ahead of the packet (`proxy.go:375`, `player.go:579`).
* A lost backend that clientLoop's write meets first ends the session; one that backendLoop's read
  meets first is replaced by the fallback (`proxy.go:327`).
* `clientDimension` does not follow a backend's own ChangeDimension, so a later transfer may send the
  client a change to the dimension it is in (`proxy.go:463`; ClientMirrorsBackend: `stuck => moved`).

*Acknowledgements*
* Two overlapping game mode changes: the first acknowledgement clears PendingGameMode while the second
  is under way; a transfer leaves PendingGameMode set. The mode itself converges.
* Two corrections can be in flight although PendingCorrectionACK is meant to prevent it, since one of
  two acknowledgements clears the flag.
* After a transfer the answers to batches of the old backend match nothing and count for BadPacketH,
  although `acks.go:52-54` says legitimate responses always match; three of them fail it, and matched
  answers do not reset the count.
* ACKComponent.Invalidate has no caller.

*Inventory and combat*
* reject() executes the next request a second time and does not replay those behind it
  (`inventory_transaction.go:57`).
* A transfer leaves the requests to the old backend at the head of the chain (`network.go:106`).
* An answer to an untracked request ends HandleItemStackResponse with return, and the answers behind it
  in the packet are lost (`inventory.go:268`). pendingInventorySync is only cleared by Sync, which has
  no caller, so that ForceSync acts once in a session (`inventory.go:175`). An action names a
  container, not a window, so one that was closed and opened again under a pending request takes its
  undo (`inventory.go:94`).
* In creative and spectator mode an air swing near an entity sends a made-up attack whatever the
  geometry says; MadeUpInTurn counts these modes as trusted, as the code's comment does.
* RemoveActor's unique id is used as a runtime id (`packet.go:454`). MaxEntityRewind may be configured
  as -1 ("Set to -1 to disable"), which becomes the length of a slice (`circular_queue.go:17`).

*World and blocks*
* A pending update is one block per position, and any batch with the same block takes it off
  (`player/component/world.go:388`). When a block changes to another and back within the latency (air,
  stone, air in three batches), the answer to the first batch takes off the entry of the last.
  SyncBlock then finds nothing pending and sends the block the copy holds by then behind the update,
  although its comment (`player/world.go:119`) says that this is to be avoided: client and copy agree
  on a block the server does not have, until it is updated again. `Lost` collects these positions, and
  CopyAgrees excepts them; with `Lost` empty, `world_updater` violates it.
* A LevelChunk is in the copy at once, while older block updates still wait for their
  acknowledgement; updates of unloaded chunks survive PurgeChunks and AddChunk; a transfer does not
  reset the world updater, so batched updates of the old backend are applied to the new world.
* SendBlockUpdates resends without looking at pending updates or adding one, although SyncBlock's
  comment (`player/world.go:119`) warns of it.
* The links of ghost placements can form a circle, in which ghostBlockChain counts to 100; destroy
  cuts a neighbour's onward link as well. With MaxGhostBlockChain 0, or past the cutoff, updates
  overtake older batches.
* A door or tall plant takes two items per click; ActivateBlock turns the clicked half of a door only;
  a full composter becomes air; slabs are not doubled, nor petals or pickles added to, because
  PlaceBlock asks for a replaceable block; half a door is placed when an entity stands in one cell.
* Tall grass can be replaced, and PlaceBlock replaces the clicked half alone: the other half stays, an
  upper one above the new block or a lower one below it. A lily pad stands on water, which can be
  replaced too: a block placed into it is left under the pad. Standing states neither of the two
  (Whole, Footing); campfires, and what hangs from a block or is fixed to the side of one, are not
  looked at either.
* PredictDestroy judges BlockBreakPos but removes action.BlockPos. initalInteractionAccepted is set
  and never read.

*Chunk cache*
* Handlers do not look at Closed: a chunk packet handled after the purge takes references nobody gives
  up (CloseReleases states the rest).
* A SubChunk for a cached chunk would write into the chunk all players share; a comment assumes that a
  backend sends either kind (`chunks.go:71`), and so does the model.
* The hashes of the caches leave out the dimension and, of chunks, the number of sub-chunks
  (`world/cache.go:55`, `:83`), on which decoding depends. A payload that is cached is therefore
  accepted in a dimension that is not known and read as it was decoded for its first user; a sub-chunk
  is put in the layer it had in the chunk of its first user (`chunks.go:102`), which in a dimension
  with another range is another height. ReadsOwnChunks leaves just this open. A layer above those of
  the chunk is an index out of range: the handler panics with a reference nobody gives up. The model
  gives all dimensions as many layers and does not contain the panic.
* exemptedChunks is not emptied by removeChunk; nothing is cleaned while a player stays in one chunk,
  so a chunk received and left by a teleport from the same chunk stays until it is visited; an entry
  of a SubChunk packet that fails still adds an empty chunk. SetCloser, SaveTheWorld and SetSTWTicks
  have no callers.

*Movement and detections*
* Revoked abilities do not clear trustFlyStatus unless toggledFly is set. A knockback acknowledged in a
  teleport or immobile frame is lost. The step is tried against boxes that leave out the space above
  the head; only the final HasNearbyBBoxes keeps it out of ceilings. avoidEdge takes a wall ahead for
  support.
* BadPacketC lacks the PendingGameMode exemption BadPacketD has. BadPacketM flags any change of the
  input mode and never a constant wrong one. BadPacketQ exempts one tick after a knockback.
  EditionFakerC's branch for knownInvalidInputs does nothing, and input mode 0 fails it while
  BadPacketM's comment calls 0 valid. A client that always sends tick 0 is never flagged by A or J.
  PhaseA's row is not interrupted by exempt frames. InvMoveA reads the last accepted input.
* The floor of one in the allowance's Tick is never reached otherwise. ServerTick can run ahead, as the
  tick is taken before the wait for procMu (`player.go:557-560`), and delays under 100 ms can let it
  fall behind.

## 6. Plan

Done: the modules of section 2, the refinement of `InputBudget`, proofs in eight modules. Left, in
this order:

1. **More theorems**: FlaggedForCause, one detection at a time: which Settle and Window keep each of
   them from flagging each unmodified client.
2. **Abstract specifications**: a session that is at any time on one backend and moves by atomic
   transfers, implemented by `ProxySession`; a single-attack mailbox implemented by `Combat`.
3. **Composition** of `ProxyTransferState` with `EntityTracker` (unique and runtime ids), of
   `AckPipeline` with `InventoryRequests` and `WorldUpdater`.
4. **Dragonfly connection**: the merged stream loses and reorders nothing, and Close ends the reader.
5. **The z axis** of the simulation, swimming and riptide.

## 7. Not modelled

* The values of the floating point computations: friction per block, trigonometry, ray tracing, block
  shapes, the aim and reach of an attack. `Movement` keeps their control flow on a grid; detections and
  combat take their outcome as given. The z axis goes like x in the code.
* The dragonfly integration: one reader, one queue under a mutex and a close both select on.
* Administration: lists under one mutex and a file written as a whole and renamed without a sync, about
  whose survival of a crash the repository says nothing.
* The Lua interpreter and gophertunnel are libraries; connections are modelled as ordered and reliable,
  as RakNet's are. Configuration, command parsing, formatting and block encoding are straight-line
  conversions; listening and dialing is I/O.
* `store/sqlite.go` does not build against `player.BanEntry` at this commit.
* In `AckPipeline` a random 32-bit timestamp does not repeat while an old echo is under way. In
  `EntityTracker` the client's own tracker, whose moves wait for acknowledgements, is left out, and an
  entity has one id. In `InventoryRequests` the held slot is left out, which touches no slot.
