---------------------------- MODULE WorldUpdater ----------------------------
(***************************************************************************)
(* The copy of the world KillLime keeps for a player: the                  *)
(* WorldUpdaterComponent (player/component/world.go), the block update     *)
(* acknowledgement (player/component/acknowledgement/block.go) and         *)
(* SyncBlock and PlaceBlock of the player (player/world.go).               *)
(*                                                                         *)
(* A block update of the server is forwarded at once and applied to the    *)
(* copy only when the client has answered the acknowledgement that follows *)
(* it, so that the copy is what the client saw when it sent the packet     *)
(* being handled.  Packets to the client leave with the next tick (the     *)
(* connections are opened with FlushRate -1), the acknowledgement last, so *)
(* a bundle of them is one message here.  A block the client places is     *)
(* remembered for a while, linked to the one it was placed against: when   *)
(* the server refuses it, what was placed against it is refused with it.   *)
(***************************************************************************)
EXTENDS Integers, Sequences, FiniteSets, SequencesExt

CONSTANTS
    Width,              \* the positions are 0..Width - 1, along one axis
    Options,            \* the options for lag compensation to consider
    Lifetime,           \* maxChainedBlockPlacementLifetime, 200 ticks in the code
    MaxChainSize,       \* maxGhostBlockChainSize, 100 in the code
    MaxEvents,          \* bound on clicks, packets of the server, changes of the
                        \* backend, and ticks a batch is not waited for
    MaxTicks,           \* bound on the ticks of the player
    MaxTransfers        \* bound on the changes of the backend

\* MaxGhostBlockChain (negative: no limit), MaxBlockUpdateDelay (negative: none), and
\* whether GlobalMovementCutoffThreshold is set.
Opts == [maxChain : Int, delay : Int, cutoff : BOOLEAN]

ASSUME WorldAssumption ==
    /\ Width \in Nat \ {0, 1} /\ Options \subseteq Opts
    /\ Lifetime \in Nat \ {0} /\ MaxChainSize \in Nat \ {0}
    /\ MaxEvents \in Nat /\ MaxTicks \in Nat /\ MaxTransfers \in Nat

VARIABLES
    opts,       \* NetworkOpts of the player
    chunk,      \* the chunk of player.world, or Unloaded
    blockUpdates, \* the blocks set in the copy since, over the chunk
    client,     \* the blocks the client shows, or Unloaded
    server,     \* the blocks of the backend
    outbox,     \* packets written to the client and not yet flushed
    down,       \* bundles on their way to the client
    up,         \* packets on their way from the client
    batch,      \* batchedBlockUpdates
    acks,       \* the flushed batches: UpdateBlockBatch acknowledgements
    pending,    \* pendingBlockUpdates
    placements, \* every chainedBlockPlacement made so far, by number
    placed,     \* clientPlacedBlocks: number of the placement at a position
    ticks,      \* ticks so far: the number of the next acknowledgement
    events,     \* of those that MaxEvents bounds, so far
    backend,    \* number of the backend connection
    early,      \* an update was applied before its acknowledgement
    resent,     \* a chunk replaced one that was loaded
    through,    \* the positions a placement was let through at
    lost,       \* positions whose pending entry went before their last update
    refused     \* the last click refused as part of a ghost chain

copyVars == <<batch, acks, pending, placements, placed>>
worldVars == <<chunk, blockUpdates>>
vars == <<opts, chunk, blockUpdates, client, server, outbox, down, up, batch, acks, pending,
          placements, placed, ticks, events, backend, early, resent, through, lost, refused>>

Positions == 0..Width - 1
Blocks == {"air", "stone"}
Faces == {-1, 1}                    \* west and east; Opposite(f) is -f
None == 0                           \* no face, and no placement
Side(pos, face) == pos + face

\* A map as a function on the positions it has entries for.
Empty == [p \in {} |-> "air"]
Over(m, n) == [p \in DOMAIN m \cup DOMAIN n |-> IF p \in DOMAIN m THEN m[p] ELSE n[p]]
Put(m, pos, v) == [p \in DOMAIN m \cup {pos} |-> IF p = pos THEN v ELSE m[p]]

\* The blocks a backend starts with: ground at one end.
Ground == [p \in Positions |-> IF p = 0 THEN "stone" ELSE "air"]
Unloaded == <<>>

\* World.Block: what was set over the chunk, else the chunk, else air.
Block(pos) == IF pos \in DOMAIN blockUpdates THEN blockUpdates[pos]
              ELSE IF chunk # Unloaded THEN chunk[pos] ELSE "air"

-----------------------------------------------------------------------------
(* chainedBlockPlacement *)

\* `against' and `rejected' record, for the properties, what it was placed on and
\* whether the server ever answered for it with air, which was there before.
\* Defect: it is kept for one tick too long.
Placement_Longer(pre, parentFace, parent) ==
    [against |-> parent, rejected |-> FALSE,
     allowed |-> TRUE, confirmed |-> FALSE, remaining |-> Lifetime + 1, pre |-> pre,
     parentFace |-> parentFace,
     connections |-> [f \in Faces |-> IF f = parentFace THEN parent ELSE None]]

Placement(pre, parentFace, parent) ==
    [against |-> parent, rejected |-> FALSE,
     allowed |-> TRUE, confirmed |-> FALSE, remaining |-> Lifetime, pre |-> pre,
     parentFace |-> parentFace,
     connections |-> [f \in Faces |-> IF f = parentFace THEN parent ELSE None]]

\* newChainedBlockPlacement: placed on the face of the parent, if it has one.
newChainedBlockPlacement(ps, pre, face, parent) ==
    LET linked == IF parent = None THEN ps
                  ELSE [ps EXCEPT ![parent].connections[face] = Len(ps) + 1]
    IN  Append(linked, Placement(pre, IF parent = None THEN None ELSE -face, parent))

\* The ghost blocks met walking up from one of them, as far as the walk goes.
\* Its links can form a circle, so the walk is bounded in length.
GhostWalk(ps, n) ==
    LET above(k) == IF ps[k].parentFace = None THEN None
                    ELSE ps[k].connections[ps[k].parentFace]
        walk[i \in 1..MaxChainSize] ==
            IF i = 1 THEN n
            ELSE IF walk[i - 1] = None \/ above(walk[i - 1]) = None THEN None
            ELSE IF ps[above(walk[i - 1])].allowed THEN None ELSE above(walk[i - 1])
    IN  walk

\* ghostBlockChain: the length of the walk, and whether the server has
\* answered for any block of it.
ghostBlockChain(ps, n) ==
    IF ps[n].allowed THEN [size |-> 0, anyConfirmed |-> TRUE]
    ELSE LET walk == GhostWalk(ps, n)
             steps == {i \in 1..MaxChainSize : walk[i] # None}
         IN  [size |-> Cardinality(steps),
              anyConfirmed |-> \E i \in steps : ps[walk[i]].confirmed]

\* The server's answer for this placement is final.
Settled(p) == p.confirmed /\ p.allowed

\* The placements setPlacementAllowed visits: down the links that do not lead to
\* the parent, not past a settled one.
Below(ps, n) ==
    LET children(k) == {ps[k].connections[f] : f \in Faces \ {ps[k].parentFace}} \ {None}
        closed(S) == \A k \in S : ~Settled(ps[k]) => children(k) \subseteq S
    IN  {k \in DOMAIN ps : \A S \in SUBSET DOMAIN ps : n \in S /\ closed(S) => k \in S}

\* Defect: the answer also travels up, to the placement it was placed against.
BelowAndAbove(ps, n) ==
    LET linked(k) == {ps[k].connections[f] : f \in Faces} \ {None}
        closed(S) == \A k \in S : ~Settled(ps[k]) => linked(k) \subseteq S
    IN  {k \in DOMAIN ps : \A S \in SUBSET DOMAIN ps : n \in S /\ closed(S) => k \in S}
setPlacementAllowed_Parent(ps, n, allowed) ==
    IF Settled(ps[n]) THEN ps
    ELSE [k \in DOMAIN ps |->
            IF k \in BelowAndAbove(ps, n) /\ ~Settled(ps[k])
            THEN [ps[k] EXCEPT !.allowed = allowed, !.confirmed = TRUE] ELSE ps[k]]

\* Defect: a settled placement is overwritten by a later update.
setPlacementAllowed_Overwrite(ps, n, allowed) ==
    [k \in DOMAIN ps |->
        IF k \in Below(ps, n)
        THEN [ps[k] EXCEPT !.allowed = allowed, !.confirmed = TRUE] ELSE ps[k]]

setPlacementAllowed(ps, n, allowed) ==
    IF Settled(ps[n]) THEN ps
    ELSE [k \in DOMAIN ps |->
            IF k \in Below(ps, n) /\ ~Settled(ps[k])
            THEN [ps[k] EXCEPT !.allowed = allowed, !.confirmed = TRUE] ELSE ps[k]]

\* destroy: both links of a neighbour along the axis are cut, also the one that
\* leads away from the destroyed placement, and the neighbour has no parent.
destroy(ps, n) ==
    LET neighbours == {ps[n].connections[f] : f \in Faces} \ {None}
        faceTo(k) == CHOOSE f \in Faces : ps[n].connections[f] = k
    IN  [k \in DOMAIN ps |->
            IF k \in neighbours
            THEN [ps[k] EXCEPT !.connections[faceTo(k)] = None,
                               !.connections[-faceTo(k)] = None, !.parentFace = None]
            ELSE ps[k]]

-----------------------------------------------------------------------------
(* Pending updates *)

\* AddPendingUpdate, for the blocks us.
AddPendingUpdates(us) ==
    LET tagged == [p \in DOMAIN us |-> [rid |-> us[p], from |-> backend]]
    IN  batch' = Over(tagged, batch) /\ pending' = Over(tagged, pending)

\* RemovePendingUpdate, for all the blocks of a batch that has run.
\* Defect: nothing is removed.
RemovePendingUpdates_Keep(pend, us) == pend

RemovePendingUpdates(pend, us) ==
    LET gone == {p \in DOMAIN pend \cap DOMAIN us : pend[p].rid = us[p].rid}
    IN  [p \in DOMAIN pend \ gone |-> pend[p]]

\* The packets written to the client, with updates of the blocks us.
Sent(us) == IF us = Empty THEN outbox ELSE Append(outbox, [type |-> "update", blocks |-> us])

\* SyncBlock for several positions in turn: one without a pending update is sent
\* to the client as it is in the copy, and is pending from then on.
\* Defect: the block is sent although an update for it is pending.
SyncBlocks_Always(positions) ==
    LET send == [p \in positions |-> Block(p)]
    IN  AddPendingUpdates(send) /\ outbox' = Sent(send)

SyncBlocks(positions) ==
    LET send == [p \in positions \ DOMAIN pending |-> Block(p)]
    IN  AddPendingUpdates(send) /\ outbox' = Sent(send)

-----------------------------------------------------------------------------
(* Acknowledgements *)

\* World.SetBlock for the blocks of us, over the blocks set before.
SetBlocks(set, us) == Over([p \in DOMAIN us |-> us[p].rid], set)

\* The batch of blocks that an acknowledgement stands for; it is not valid when
\* there was nothing to update or it has been run.
Batch(id, blocks) == IF blocks = Empty THEN [id |-> id, blocks |-> Empty, expiresIn |-> 0, valid |-> FALSE]
                     ELSE [id |-> id, blocks |-> blocks, expiresIn |-> opts.delay, valid |-> TRUE]

\* Run of the acknowledgements as, in order: one that is not valid does nothing, a
\* block is what the last of them makes it, and each takes its own updates off the
\* pending ones.
RunAll(as) ==
    LET of(p) == {i \in DOMAIN as : as[i].valid /\ p \in DOMAIN as[i].blocks}
        last(p) == as[CHOOSE i \in of(p) : \A j \in of(p) : j <= i].blocks[p]
        found == {p \in DOMAIN pending : \E i \in of(p) : as[i].blocks[p].rid = pending[p].rid}
    IN  [set |-> SetBlocks(blockUpdates, [p \in {q \in Positions : of(q) # {}} |-> last(p)]),
         pending |-> RemovePendingUpdates(pending, [p \in found |-> pending[p]])]

\* A pending entry is taken off by any batch with the same block, also by an earlier
\* one than its own.  The positions this happens at with the result r, while an
\* update that changes the block is still in the open batch or in one of as.
Lost(r, as) ==
    LET coming(p) == (IF p \in DOMAIN batch THEN {batch[p].rid} ELSE {})
            \cup {as[i].blocks[p].rid : i \in {j \in DOMAIN as : as[j].valid /\ p \in DOMAIN as[j].blocks}}
    IN  {p \in DOMAIN pending \ DOMAIN r.pending : \E rid \in coming(p) : rid # r.set[p]}

\* Defect: the batch that is answered for is left out.
Executed_Before(n) == SubSeq(acks, 1, n - 1)

\* ACKComponent.Execute: the batches up to the one the client answers for.
Executed(n) == SubSeq(acks, 1, n)

\* The client answers an acknowledgement.
ExecuteACK ==
    /\ up # <<>> /\ Head(up).type = "ack"
    /\ up' = Tail(up)
    /\ \/ \E n \in DOMAIN acks :
             /\ acks[n].id = Head(up).id
             /\ acks' = SubSeq(acks, n + 1, Len(acks))
             /\ LET r == RunAll(Executed(n))
                IN  /\ blockUpdates' = r.set /\ pending' = r.pending
                    /\ lost' = lost \cup Lost(r, acks')
       \/ /\ \A n \in DOMAIN acks : acks[n].id # Head(up).id
          /\ UNCHANGED <<blockUpdates, pending, acks, lost>>
    /\ UNCHANGED <<opts, chunk, client, server, outbox, down, batch, placements, placed,
                   ticks, events, backend, early, resent, through, refused>>

\* PlayerAuthInput ticks the acknowledgements: a batch the client has not
\* answered for in time is run without an answer.
ClientTick ==
    LET older == [i \in DOMAIN acks |-> IF acks[i].valid THEN [acks[i] EXCEPT !.expiresIn = @ - 1]
                                        ELSE acks[i]]
        due(i) == older[i].valid /\ older[i].expiresIn <= 0
        done(i) == Batch(acks[i].id, Empty)
        r == RunAll([i \in DOMAIN acks |-> IF due(i) THEN older[i] ELSE done(i)])
    IN  /\ opts.delay >= 0 /\ events < MaxEvents
        /\ events' = events + 1
        /\ \E i \in DOMAIN acks : acks[i].valid
        /\ acks' = [i \in DOMAIN acks |-> IF due(i) THEN done(i) ELSE older[i]]
        /\ blockUpdates' = r.set /\ pending' = r.pending
        /\ lost' = lost \cup Lost(r, acks')
        /\ early' = (early \/ \E i \in DOMAIN acks : due(i))
        /\ UNCHANGED <<opts, chunk, client, server, outbox, down, up, batch, placements,
                       placed, ticks, backend, resent, through, refused>>

-----------------------------------------------------------------------------
(* Packets of the server *)

\* HandleUpdateBlock and HandleUpdateSubChunkBlocks: the packet is forwarded.
\* A backend sends them for chunks it has sent.
HandleBlockUpdates(us) ==
    /\ events < MaxEvents /\ chunk # Unloaded
    /\ events' = events + 1
    /\ server' = Over(us, server)
    /\ AddPendingUpdates(us) /\ outbox' = Sent(us)
    /\ UNCHANGED <<opts, worldVars, client, down, up, acks, placements, placed, ticks,
                   backend, early, resent, through, lost, refused>>

\* HandleLevelChunk: the chunk is in the copy at once, without an
\* acknowledgement.  What was set over the chunk it replaces is dropped with that
\* chunk (World.AddChunk); what was set while there was none stays.
HandleLevelChunk ==
    /\ events < MaxEvents
    /\ events' = events + 1
    /\ chunk' = server
    /\ blockUpdates' = IF chunk = Unloaded THEN blockUpdates ELSE Empty
    /\ resent' = (resent \/ chunk # Unloaded)
    /\ outbox' = Append(outbox, [type |-> "chunk", blocks |-> server])
    /\ UNCHANGED <<opts, client, server, down, up, copyVars, ticks, backend, early,
                   through, lost, refused>>

\* TransferServerConn: the chunks are purged, with what was set over them, and
\* the acknowledgements dropped; the updates batched and pending and the
\* placements of the client are kept.
TransferServerConn ==
    /\ backend < MaxTransfers /\ events < MaxEvents
    /\ events' = events + 1
    /\ backend' = backend + 1
    /\ chunk' = Unloaded /\ server' = Ground
    /\ blockUpdates' = IF chunk = Unloaded THEN blockUpdates ELSE Empty
    /\ outbox' = Append(outbox, [type |-> "reset", blocks |-> Empty])
    /\ acks' = <<>>
    /\ UNCHANGED <<opts, client, down, up, batch, pending, placements, placed, ticks,
                   early, resent, through, lost, refused>>

-----------------------------------------------------------------------------
(* Player.Tick *)

\* Tick: a placement is forgotten when its time is over.
Tick(order) ==
    LET older == [n \in DOMAIN placements |->
                    IF \E p \in DOMAIN placed : placed[p] = n
                    THEN [placements[n] EXCEPT !.remaining = @ - 1] ELSE placements[n]]
        destroyed[i \in 0..Len(order)] ==
            IF i = 0 THEN older ELSE destroy(destroyed[i - 1], order[i])
    IN  [placements |-> destroyed[Len(order)],
         placed |-> [p \in {q \in DOMAIN placed : older[placed[q]].remaining > 0} |-> placed[p]]]

\* The placements whose time is over with this tick.
Expiring == {placed[p] : p \in {q \in DOMAIN placed : placements[placed[q]].remaining = 1}}

\* A placement is refused when the server puts back what was there before.
placementAllowed(p, rid) == rid # p.pre

\* Flush: the server's updates are its answers for the placements.  A refused
\* placement is undone at once when no ghost block is allowed.
Judged(ps, pl, order) ==
    LET judge(acc, pos) ==
            LET n == pl[pos]
                rejected == batch[pos].rid = "air"
            IN  setPlacementAllowed([acc EXCEPT ![n].rejected = @ \/ rejected], n,
                                    placementAllowed(acc[n], batch[pos].rid))
        judged[i \in 0..Len(order)] == IF i = 0 THEN ps ELSE judge(judged[i - 1], order[i])
    IN  judged[Len(order)]

Refused(ps, pl) ==
    IF opts.maxChain # 0 THEN {}
    ELSE {pos \in DOMAIN batch \cap DOMAIN pl : ~placementAllowed(ps[pl[pos]], batch[pos].rid)}

\* Player.Tick: worldUpdater.Tick, then acks.Flush, which flushes the world
\* updater first, then the connection.  The order in which Go ranges over its
\* maps is arbitrary.
PlayerTick ==
    /\ ticks < MaxTicks
    /\ ticks' = ticks + 1
    /\ \E expired \in SetToSeqs(Expiring), noLagComp \in {FALSE, opts.cutoff} :
          LET t == Tick(expired)
              undone == [p \in Refused(t.placements, t.placed) |-> batch[p]]
              rest == [p \in DOMAIN batch \ DOMAIN undone |-> batch[p]]
              pend == RemovePendingUpdates(pending, undone)
              set == SetBlocks(blockUpdates, undone)
          IN  /\ events' = events + (IF noLagComp THEN 1 ELSE 0)
              /\ events' <= MaxEvents
              /\ \E order \in SetToSeqs(DOMAIN batch \cap DOMAIN t.placed) :
                    placements' = IF opts.maxChain >= 1
                                  THEN Judged(t.placements, t.placed, order) ELSE t.placements
              /\ placed' = t.placed
              /\ IF noLagComp
                 THEN /\ blockUpdates' = SetBlocks(set, rest)
                      /\ pending' = RemovePendingUpdates(pend, rest)
                      /\ acks' = Append(acks, Batch(ticks + 1, Empty))
                 ELSE /\ blockUpdates' = set /\ pending' = pend
                      /\ acks' = Append(acks, Batch(ticks + 1, rest))
              /\ early' = (early \/ undone # Empty \/ (noLagComp /\ rest # Empty))
    /\ batch' = Empty
    /\ down' = Append(down, [packets |-> outbox, id |-> ticks + 1])
    /\ outbox' = <<>>
    /\ UNCHANGED <<opts, chunk, client, server, up, backend, resent, through, lost, refused>>

-----------------------------------------------------------------------------
(* The client *)

\* external: the blocks the client shows after a packet; it has no place for
\* updates of a chunk it does not have.
Shown(blocks, pk) ==
    CASE pk.type = "reset" -> Unloaded
      [] pk.type = "chunk" -> pk.blocks
      [] pk.type = "update" -> IF blocks = Unloaded THEN Unloaded ELSE Over(pk.blocks, blocks)

\* external: the client applies a bundle and answers its acknowledgement.
ClientReceive ==
    /\ down # <<>>
    /\ down' = Tail(down)
    /\ LET pks == Head(down).packets
           shown[i \in 0..Len(pks)] == IF i = 0 THEN client ELSE Shown(shown[i - 1], pks[i])
       IN  client' = shown[Len(pks)]
    /\ up' = Append(up, [type |-> "ack", id |-> Head(down).id])
    /\ UNCHANGED <<opts, worldVars, server, outbox, copyVars, ticks, events, backend, early,
                   resent, through, lost, refused>>

\* external: the client places a block on a face of one it sees.
ClientPlace(pos, face) ==
    /\ events < MaxEvents /\ events' = events + 1
    /\ client # Unloaded /\ client[pos] # "air"
    /\ Side(pos, face) \in Positions /\ client[Side(pos, face)] = "air"
    /\ client' = [client EXCEPT ![Side(pos, face)] = "stone"]
    /\ up' = Append(up, [type |-> "click", pos |-> pos, face |-> face])
    /\ UNCHANGED <<opts, worldVars, server, outbox, down, copyVars, ticks, backend, early,
                   resent, through, lost, refused>>

-----------------------------------------------------------------------------
(* Packets of the client *)

\* QueueBlockPlacement: the block is not yet set, so pre is what it replaces.
QueueBlockPlacement(clicked, pos, face) ==
    IF opts.maxChain < 0 THEN UNCHANGED <<placements, placed>>
    ELSE LET parent == IF clicked \in DOMAIN placed THEN placed[clicked] ELSE None
         IN  /\ placements' = newChainedBlockPlacement(placements, Block(pos), face, parent)
             /\ placed' = Put(placed, pos, Len(placements) + 1)

\* PlaceBlock: not over a block that cannot be replaced, and not into a player
\* or an entity (`blocked'), when the client is told what is there.
PlaceBlock(clicked, pos, face, blocked) ==
    IF Block(pos) # "air" THEN UNCHANGED <<blockUpdates, outbox, copyVars, through>>
    ELSE IF blocked
    THEN SyncBlocks({pos}) /\ UNCHANGED <<blockUpdates, acks, placements, placed, through>>
    ELSE /\ QueueBlockPlacement(clicked, pos, face)
         /\ blockUpdates' = Put(blockUpdates, pos, "stone")
         /\ through' = through \cup {pos}
         /\ UNCHANGED <<outbox, batch, acks, pending>>

\* The ghost chain of the clicked block, if it is one the client placed.
chainOf(pos) == ghostBlockChain(placements, placed[pos])

\* Whether a click is refused because of the chain of the clicked block.
ChainExceeded(pos) ==
    /\ pos \in DOMAIN placed /\ opts.maxChain >= 0
    /\ LET c == chainOf(pos)
       IN  /\ c.anyConfirmed /\ ~placements[placed[pos]].allowed
           /\ c.size + 1 > opts.maxChain

\* AttemptItemInteractionWithBlock, with a block in hand.  The clicked block may
\* be too far away, and something may be where the new one would go.
AttemptItemInteractionWithBlock(obstacle) ==
    /\ up # <<>> /\ Head(up).type = "click"
    /\ up' = Tail(up)
    /\ LET pos == Head(up).pos
           side == Side(pos, Head(up).face)
       IN  IF Block(pos) = "air" \/ (~ChainExceeded(pos) /\ obstacle = "far")
           THEN /\ SyncBlocks({pos, side})
                /\ UNCHANGED <<blockUpdates, acks, placements, placed, through, lost, refused>>
           ELSE IF ChainExceeded(pos)
           THEN /\ SyncBlocks({pos, side})
                /\ refused' = placed[pos]
                /\ UNCHANGED <<blockUpdates, acks, placements, placed, through>>
           ELSE /\ PlaceBlock(pos, side, Head(up).face, obstacle = "blocked")
                /\ UNCHANGED refused
    /\ UNCHANGED <<opts, chunk, client, server, down, ticks, events, backend, early, resent,
                   lost>>

-----------------------------------------------------------------------------

Init ==
    /\ opts \in Options
    /\ chunk = Ground /\ blockUpdates = Empty /\ client = Ground /\ server = Ground
    /\ outbox = <<>>
    /\ down = <<>> /\ up = <<>>
    /\ batch = Empty /\ acks = <<>> /\ pending = Empty
    /\ placements = <<>> /\ placed = Empty
    /\ ticks = 0 /\ events = 0 /\ backend = 0
    /\ early = FALSE /\ resent = FALSE /\ through = {} /\ lost = {} /\ refused = None

Next ==
    \/ \E D \in SUBSET (Positions \ {0}) \ {{}}, rid \in Blocks : HandleBlockUpdates([p \in D |-> rid])
    \/ HandleLevelChunk
    \/ TransferServerConn
    \/ PlayerTick
    \/ ClientTick
    \/ ExecuteACK
    \/ ClientReceive
    \/ \E pos \in Positions, face \in Faces : ClientPlace(pos, face)
    \/ \E obstacle \in {"none", "far", "blocked"} : AttemptItemInteractionWithBlock(obstacle)

Spec == Init /\ [][Next]_vars

-----------------------------------------------------------------------------

Update == [rid : Blocks, from : 0..MaxTransfers]
Updates == UNION {[D -> Update] : D \in SUBSET Positions}

\* Every variable that is a map or a queue has entries of its kind, and the
\* placement recorded for a position is one that was made.
TypeOK ==
    /\ opts \in Opts
    /\ chunk = Unloaded \/ chunk \in [Positions -> Blocks]
    /\ client = Unloaded \/ client \in [Positions -> Blocks]
    /\ server \in [Positions -> Blocks]
    /\ DOMAIN blockUpdates \subseteq Positions /\ Range(blockUpdates) \subseteq Blocks
    /\ batch \in Updates /\ pending \in Updates
    /\ \A i \in DOMAIN acks : acks[i].blocks \in Updates /\ acks[i].id \in 1..ticks
    /\ DOMAIN placed \subseteq Positions /\ Range(placed) \subseteq DOMAIN placements
    /\ \A n \in DOMAIN placements : placements[n].remaining \in 0..Lifetime

\* SyncBlock sends nothing for a position with a pending update, because that
\* update will bring the client back in line.  So such an update must exist: every
\* pending entry of this backend is in the open batch or in one still to be run.
PendingCovered ==
    TypeOK /\ \A p \in DOMAIN pending :
        pending[p].from = backend =>
            \/ p \in DOMAIN batch /\ batch[p].rid = pending[p].rid
            \/ \E i \in DOMAIN acks :
                  /\ acks[i].valid /\ p \in DOMAIN acks[i].blocks
                  /\ acks[i].blocks[p].rid = pending[p].rid

\* Nothing is on its way between the three parties.
Quiet == outbox = <<>> /\ down = <<>> /\ up = <<>> /\ batch = Empty

\* When all is answered the copy shows what the client shows, whatever was placed,
\* refused and updated in between, unless a loaded chunk was replaced; and where no
\* placement was let through the client shows the block of the server: sending a
\* block back to undo what the client predicted never overrides an update that is
\* on its way, unless an earlier batch with the same block took its pending entry
\* off (Lost), as the code does when a block changes back within the latency.
\* Updates applied before the client answered for them (a timeout, the lag cutoff,
\* or ghost blocks not allowed) and a change of the backend excepted.
CopyAgrees ==
    Quiet /\ ~early /\ backend = 0 => \A p \in Positions :
        /\ ~resent => Block(p) = client[p]
        /\ p \notin through \cup lost => client[p] = server[p]

\* The placements a placement rests on, itself included.
Foundation(ps, n) ==
    LET closed(S) == \A k \in S : ps[k].against \in S \cup {None}
    IN  {k \in DOMAIN ps : \A S \in SUBSET DOMAIN ps : n \in S /\ closed(S) => k \in S}

\* A click is refused as part of a ghost chain only if the server has put back
\* what was there before for the clicked block or one that it rests on: blocks the
\* server has accepted, or not yet answered for, never cost the player a click.
RefusedOnlyAfterRejection ==
    refused # None => \E n \in Foundation(placements, refused) : placements[n].rejected

\* Once the server has accepted a placement no later update takes that back, so
\* that servers that send several updates for one block make no ghost of it.
AcceptedStays ==
    [][\A n \in DOMAIN placements : Settled(placements[n]) => Settled(placements'[n])]_vars

=============================================================================
