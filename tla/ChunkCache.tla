----------------------------- MODULE ChunkCache -----------------------------
(***************************************************************************)
(* The chunks KillLime keeps for its players (world/world.go), decoded     *)
(* once for all of them in a cache that counts its users (world/cache.go), *)
(* the handlers that fill it (player/component/acknowledgement/chunks.go)  *)
(* and the closing of a player, which releases it (player/player.go).      *)
(*                                                                         *)
(* A player is handled under its own procMu; the two caches are shared and *)
(* each call on them takes their mutex.  A handler is therefore a sequence *)
(* of steps, one for each call on a cache, between which the handlers of   *)
(* other players run: task is the handler that holds the player's mutex,   *)
(* drops the references it still has to give up.                           *)
(*                                                                         *)
(* Chunk positions lie on one axis.  A chunk is a stack of layers.  What   *)
(* is read in a layer is what was decoded: a payload in the representation *)
(* (the mode of the block network) of the player that decoded it and, for  *)
(* a LevelChunk, in the dimension and with the number of sub-chunks its    *)
(* packet named.  The caches only look at the payload and the mode, so a   *)
(* player may be given what was decoded for another dimension; and the     *)
(* layer of a sub-chunk is the one it had in the chunk of its first user.  *)
(* All dimensions have as many layers here: in the code a layer above the  *)
(* chunk's own is an index out of range, and the handler panics.           *)
(* SetSTWTicks has no caller, so stwTicks is 0 throughout and left out.    *)
(***************************************************************************)
EXTENDS Integers, Sequences, FiniteSets, Functions

CONSTANTS
    Players,
    Positions,       \* the positions of chunks
    Layers,          \* the sub-chunks of a chunk
    Heights,         \* what the payload of a sub-chunk says of its place
    Dimensions,      \* the dimensions DimensionByID knows
    LayerOf,         \* the layer of a height in the range of a dimension
    Payloads,        \* what is decoded
    LevelChunks,     \* LevelChunk packets: payload, dimension, number of sub-chunks
    Decodable,       \* those that can be decoded
    SubPackets,      \* SubChunk packets: dimension, entries
    Radii,           \* the chunk radii the client and the server name
    Sessions,        \* the modes and the kinds of backend to consider
    Travellers,      \* the players that move and change their chunk radius
    Leavers,         \* the players whose session may end at any time
    MaxCalls         \* bound on the packets, moves and transfers handled

Overworld == "overworld"

\* An entry of a SubChunk packet: a decodable one names a height.
Entries == [pos : Positions, result : {"success", "air", "missing", "corrupt"},
            y : Heights, data : Payloads]

ASSUME ChunkCacheAssumption ==
    /\ IsFiniteSet(Players)
    /\ Positions \subseteq Nat /\ IsFiniteSet(Positions) /\ 0 \in Positions
    /\ Overworld \in Dimensions /\ LayerOf \in [Dimensions -> [Heights -> Layers]]
    /\ Decodable \subseteq LevelChunks
    /\ \A pk \in LevelChunks : pk.data \in Payloads
    /\ \A pk \in Decodable : pk.dimension \in Dimensions
    /\ \A pk \in SubPackets : pk.entries \in Seq(Entries)
    /\ Radii \subseteq Nat \ {0}
    /\ Sessions \subseteq [mode : [Players -> {"ids", "hashes"}], request : [Players -> BOOLEAN]]
    /\ Travellers \subseteq Players /\ Leavers \subseteq Players
    /\ MaxCalls \in Nat

VARIABLES
    chunkCache,  \* by hash: number of users and decoded chunk, with its dimension
    subCache,    \* subChunkCache: by hash: number of users, layer and decoded sub-chunk
    world,       \* of a player: chunks, subChunks, exempted, lastCleanPos
    radius,      \* of a player: serverChunkRadius (0: none yet) and chunkRadius
    task,        \* the handler that holds the procMu of a player
    drops,       \* the references that handler has still to give up
    closed,      \* Closed
    purged,      \* Close's goroutine has had procMu: CloseChan is closed
    ticking,     \* StartTicking has not returned
    mode,        \* the block network mode of a player's session
    request,     \* the backend sends SubChunks: its LevelChunks are requests
    pos,         \* the chunk the player is in
    view,        \* what the player may read of what it was sent (auxiliary)
    late,        \* a chunk packet was handled after the purge (auxiliary)
    calls        \* packets, moves and transfers so far

cacheVars == <<chunkCache, subCache>>
lifeVars == <<closed, purged, ticking, mode>>
vars == <<chunkCache, subCache, world, radius, task, drops, closed, purged, ticking, mode,
          request, pos, view, late, calls>>

------------------------------------------------------------------------------
(* Values. *)

Idle == [kind |-> "idle"]
Unlimited == 1000000000
Nowhere == [sent |-> FALSE]
AllAir == [l \in Layers |-> <<"air">>]
Decoded(data, m) == <<data, m>>
\* NetworkDecode: the whole depends on the dimension and the number of sub-chunks.
DecodedChunk(pk, m) == [l \in Layers |-> <<pk, m>>]

\* Defect: a hash that is not seeded with the mode.
HashOf_Unseeded(data, m) == <<data, "ids">>

\* hash := xxh3.Hash128Seed(payload, mode): not the dimension, not the number of sub-chunks.
HashOf(data, m) == <<data, m>>
\* The payload of a sub-chunk names its height, not its layer.
SubHashOf(e, m) == <<e.y, e.data, m>>

------------------------------------------------------------------------------
(* cache.go: each of these runs under cMu or scMu. *)

\* What CacheChunk and CacheSubChunk return: what is there, whoever decoded it.
Found(cache, hash, entry) == IF hash \in DOMAIN cache THEN cache[hash] ELSE entry

\* CacheChunk and CacheSubChunk: another user of an entry, or a new entry with one.
Subscribed(cache, hash, entry) ==
    IF hash \in DOMAIN cache
    THEN [cache EXCEPT ![hash].subs = @ + 1]
    ELSE [h \in DOMAIN cache \cup {hash} |-> IF h = hash THEN entry ELSE cache[h]]

\* Defect: an entry stays when its last user has left.
Unsubscribed_Kept(cache, hash) ==
    IF hash \notin DOMAIN cache THEN cache
    ELSE [cache EXCEPT ![hash].subs = @ - 1]

\* unsubC and unsubSC: one user less; the last one takes the entry with it.
Unsubscribed(cache, hash) ==
    IF hash \notin DOMAIN cache THEN cache
    ELSE IF cache[hash].subs - 1 <= 0 THEN Restrict(cache, DOMAIN cache \ {hash})
    ELSE [cache EXCEPT ![hash].subs = @ - 1]

------------------------------------------------------------------------------
(* world.go. *)

NewWorld == [chunks |-> <<>>, subChunks |-> <<>>, exempted |-> {}, lastCleanPos |-> 0]
Put(f, x, v) == [y \in DOMAIN f \cup {x} |-> IF y = x THEN v ELSE f[y]]

\* A reference of the chunk at a position: its own, and one for each sub-chunk that was added.
ChunkRef(c, hash) == [of |-> "chunk", hash |-> hash, at |-> c, nth |-> 0]
SubRef(c, hash, i) == [of |-> "sub", hash |-> hash, at |-> c, nth |-> i]

\* Defect: only the chunk's own reference is given up.
RefsOf_ChunkOnly(w, cs) ==
    {ChunkRef(c, w.chunks[c].hash) : c \in {d \in cs \cap DOMAIN w.chunks : w.chunks[d].cached}}

\* removeChunk: what the chunks at cs refer to.
RefsOf(w, cs) ==
    {ChunkRef(c, w.chunks[c].hash) : c \in {d \in cs \cap DOMAIN w.chunks : w.chunks[d].cached}}
      \cup UNION {{SubRef(c, w.subChunks[c][i], i) : i \in DOMAIN w.subChunks[c]} :
                    c \in cs \cap DOMAIN w.subChunks}

\* removeChunk: the chunks of cs are gone from w; what they exempted is not.
Without(w, cs) ==
    [w EXCEPT !.chunks = Restrict(@, DOMAIN @ \ cs),
              !.subChunks = Restrict(@, DOMAIN @ \ cs)]

\* Defect: a chunk that is sent ahead is cleaned like any other.
AddChunk_NotExempt(w, c, info) == [w EXCEPT !.chunks = Put(@, c, info)]

\* AddChunk, once removeChunk has taken what was there: exempt from cleaning until it has
\* been in range.
AddChunk(w, c, info) == [w EXCEPT !.chunks = Put(@, c, info), !.exempted = @ \cup {c}]

\* AddSubChunk: another reference at a position.
AddSubChunk(w, c, hash) ==
    [w EXCEPT !.subChunks =
        Put(@, c, Append(IF c \in DOMAIN @ THEN @[c] ELSE <<>>, hash))]

\* chunkInRange
InRange(r, c, at) == IF c < at THEN at - c <= r ELSE c - at <= r

\* CleanChunks: who comes into range is exempt no longer, who is not exempt and out of
\* range is removed. Nothing happens while the player stays in one chunk.
Cleaned(w, r, at) ==
    [w EXCEPT !.lastCleanPos = at,
              !.exempted = {c \in @ : c \in DOMAIN w.chunks => ~InRange(r, c, at)}]
OutOfRange(w, r, at) ==
    {c \in DOMAIN w.chunks : c \notin w.exempted /\ ~InRange(r, c, at)}

------------------------------------------------------------------------------
(* What the player may read, and where it has been since (auxiliary). *)

\* Of a LevelChunk: any decoding of its payload in the player's representation.
MayRead(data, m) == [l \in Layers |-> {<<pk, m>> : pk \in {q \in Decodable : q.data = data}}]

\* Of a sub-chunk: it is in a layer that some dimension has at its height, and in place of
\* what was there when there is only one such layer.
Places(y) == {LayerOf[d][y] : d \in Dimensions}
AirOnly == [l \in Layers |-> {<<"air">>}]
Tell(layers, y, sub) ==
    [l \in Layers |-> IF l \notin Places(y) THEN layers[l]
                      ELSE IF Places(y) = {l} THEN {sub} ELSE layers[l] \cup {sub}]

Stage(p, c) == IF InRange(radius[p].chunk, c, pos[p]) THEN "near" ELSE "ahead"
SentTo(p, c, ls) == [view EXCEPT ![p][c] = [sent |-> TRUE, layers |-> ls, stage |-> Stage(p, c)]]
Forgotten(p) == [view EXCEPT ![p] = [c \in Positions |-> Nowhere]]

\* A chunk is ahead until the player is in range of it, near while it stays so, then behind.
Passed(v, c, r, at) ==
    IF ~v.sent \/ v.stage = "behind" THEN v
    ELSE [v EXCEPT !.stage = IF InRange(r, c, at) THEN "near"
                             ELSE IF @ = "near" THEN "behind" ELSE @]

------------------------------------------------------------------------------
(* The life of a player. *)

Init ==
    /\ chunkCache = <<>> /\ subCache = <<>>
    /\ world = [p \in Players |-> NewWorld]
    /\ radius = [p \in Players |-> [server |-> 0, chunk |-> Unlimited]]
    /\ task = [p \in Players |-> Idle] /\ drops = [p \in Players |-> {}]
    /\ closed = [p \in Players |-> FALSE] /\ purged = [p \in Players |-> FALSE]
    /\ ticking = [p \in Players |-> TRUE]
    /\ \E s \in Sessions : mode = s.mode /\ request = s.request
    /\ pos = [p \in Players |-> 0]
    /\ view = [p \in Players |-> [c \in Positions |-> Nowhere]]
    /\ late = [p \in Players |-> FALSE]
    /\ calls = 0

\* Nobody holds the procMu of p.
Free(p) == task[p] = Idle /\ drops[p] = {}

\* A packet of the backend is handled: HandleServerPacket does not look at Closed, so one
\* that was read before the connections were closed is handled even after the purge.
Handles(p) ==
    /\ Free(p) /\ calls < MaxCalls /\ (purged[p] => ~late[p])
    /\ calls' = calls + 1
    /\ late' = [late EXCEPT ![p] = purged[p]]

\* Close, from the session, the ticker or a detection: it takes effect at once.
Close(p) ==
    /\ p \in Leavers /\ ~closed[p]
    /\ closed' = [closed EXCEPT ![p] = TRUE]
    /\ UNCHANGED <<chunkCache, subCache, world, radius, task, drops, purged, ticking, mode,
                   request, pos, view, late, calls>>

\* Defect: the goroutine of Close closes the connections and leaves the chunks.
Purge_Connections(p) ==
    /\ closed[p] /\ ~purged[p] /\ Free(p)
    /\ purged' = [purged EXCEPT ![p] = TRUE]
    /\ UNCHANGED <<cacheVars, world, radius, task, drops, closed, ticking, mode, request, pos,
                   view, late, calls>>

\* The goroutine of Close, once procMu is free: the connections are closed, the chunks
\* released and the ticker told.
Purge(p) ==
    /\ closed[p] /\ ~purged[p] /\ Free(p)
    /\ drops' = [drops EXCEPT ![p] = RefsOf(world[p], DOMAIN world[p].chunks)]
    /\ world' = [world EXCEPT ![p] = Without(@, DOMAIN @.chunks)]
    /\ purged' = [purged EXCEPT ![p] = TRUE]
    /\ view' = Forgotten(p)
    /\ UNCHANGED <<chunkCache, subCache, radius, task, closed, ticking, mode, request, pos,
                   late, calls>>

\* StartTicking: Tick reports that the player is closed, or CloseChan is closed. A Tick that
\* finds the player unresponsive disconnects it, which is Close.
TickStops(p) ==
    /\ ticking[p] /\ closed[p] /\ (Free(p) \/ purged[p])
    /\ ticking' = [ticking EXCEPT ![p] = FALSE]
    /\ UNCHANGED <<cacheVars, world, radius, task, drops, closed, purged, mode, request, pos,
                   view, late, calls>>

\* TransferServerConn: the chunks of the old backend are released.
TransferServerConn(p) ==
    /\ Free(p) /\ ~purged[p] /\ calls < MaxCalls
    /\ drops' = [drops EXCEPT ![p] = RefsOf(world[p], DOMAIN world[p].chunks)]
    /\ world' = [world EXCEPT ![p] = Without(@, DOMAIN @.chunks)]
    /\ \E b \in BOOLEAN : request' = [request EXCEPT ![p] = b]
    /\ view' = Forgotten(p)
    /\ calls' = calls + 1
    /\ UNCHANGED <<cacheVars, radius, task, lifeVars, pos, late>>

\* unsubC and unsubSC, one at a time, from removeChunk: chunk by chunk in the order of a Go
\* map, of a chunk its own reference first.
Unsub(p) ==
    /\ \E ref \in drops[p] :
        /\ \A other \in drops[p] : other.at = ref.at => ref.nth <= other.nth
        /\ chunkCache' = IF ref.of = "chunk" THEN Unsubscribed(chunkCache, ref.hash) ELSE chunkCache
        /\ subCache' = IF ref.of = "sub" THEN Unsubscribed(subCache, ref.hash) ELSE subCache
        /\ drops' = [drops EXCEPT ![p] = @ \ {ref}]
    /\ UNCHANGED <<world, radius, task, lifeVars, request, pos, view, late, calls>>

------------------------------------------------------------------------------
(* LevelChunk. *)

\* ChunkUpdate.Run: CacheChunk decodes the payload if no player has it yet; otherwise it does
\* not matter whether it can be decoded in the dimension of this packet.
Fresh(pk, m) == [subs |-> 1, dimension |-> pk.dimension, layers |-> DecodedChunk(pk, m)]
HandleLevelChunk(p) ==
    /\ Handles(p) /\ ~request[p]
    /\ \E c \in Positions, pk \in LevelChunks :
        LET hash == HashOf(pk.data, mode[p])
            fresh == Fresh(pk, mode[p])
        IN
        /\ hash \in DOMAIN chunkCache \/ pk \in Decodable
        /\ chunkCache' = Subscribed(chunkCache, hash, fresh)
        /\ task' = [task EXCEPT ![p] =
                      [kind |-> "chunk", at |-> c, hash |-> hash, data |-> pk.data,
                       dimension |-> Found(chunkCache, hash, fresh).dimension]]
    /\ UNCHANGED <<subCache, world, radius, drops, lifeVars, request, pos, view>>

\* ChunkUpdate.Run: the client's blob cache was used, or a chunk nobody has cannot be decoded.
HandleCorruptLevelChunk(p) ==
    /\ Handles(p) /\ ~request[p]
    /\ closed' = [closed EXCEPT ![p] = TRUE]
    /\ UNCHANGED <<cacheVars, world, radius, task, drops, purged, ticking, mode, request,
                   pos, view>>

\* ChunkUpdate.Run, AddChunk: the chunk that was there is removed first.
ReplaceLevelChunk(p) ==
    /\ task[p].kind = "chunk" /\ task[p].at \in DOMAIN world[p].chunks
    /\ drops' = [drops EXCEPT ![p] = RefsOf(world[p], {task[p].at})]
    /\ world' = [world EXCEPT ![p] = Without(@, {task[p].at})]
    /\ view' = [view EXCEPT ![p][task[p].at] = Nowhere]
    /\ UNCHANGED <<cacheVars, radius, task, lifeVars, request, pos, late, calls>>

\* ChunkUpdate.Run, AddChunk: the new chunk, once the references of the old one are given up.
AddLevelChunk(p) ==
    /\ task[p].kind = "chunk" /\ task[p].at \notin DOMAIN world[p].chunks /\ drops[p] = {}
    /\ world' = [world EXCEPT ![p] =
         AddChunk(@, task[p].at, [cached |-> TRUE, hash |-> task[p].hash, layers |-> AllAir,
                                  dimension |-> task[p].dimension])]
    /\ view' = SentTo(p, task[p].at, MayRead(task[p].data, mode[p]))
    /\ task' = [task EXCEPT ![p] = Idle]
    /\ UNCHANGED <<cacheVars, radius, drops, lifeVars, request, pos, late, calls>>

------------------------------------------------------------------------------
(* SubChunk. *)

HandleSubChunk(p) ==
    /\ Handles(p) /\ request[p]
    /\ \E pk \in SubPackets :
        task' = [task EXCEPT ![p] =
                   [kind |-> "subs", entries |-> pk.entries, new |-> <<>>,
                    dimension |-> IF pk.dimension \in Dimensions THEN pk.dimension ELSE Overworld]]
    /\ UNCHANGED <<cacheVars, world, radius, drops, lifeVars, request, pos, view>>

\* SubChunkUpdate.Run: the client's blob cache was used.
HandleBlobSubChunk(p) ==
    /\ Handles(p) /\ request[p]
    /\ closed' = [closed EXCEPT ![p] = TRUE]
    /\ UNCHANGED <<cacheVars, world, radius, task, drops, purged, ticking, mode, request,
                   pos, view>>

\* The chunk an entry belongs to: one this packet has begun, the one that is there, or a
\* new one.
Begun(p, c) ==
    IF c \in DOMAIN task[p].new \/ c \in DOMAIN world[p].chunks THEN task[p].new
    ELSE Put(task[p].new, c, [layers |-> AllAir, told |-> AirOnly, dimension |-> task[p].dimension])

\* The range of a chunk is that of the dimension it was made or decoded in.
DimensionOf(w, new, c) == IF c \in DOMAIN new THEN new[c].dimension ELSE w.chunks[c].dimension

\* ch.Sub()[layer] = sub: an existing chunk is written in place, the decoded chunk of the
\* cache itself when it is a cached one.
WriteNew(new, c, l, sub, y, own) ==
    IF c \in DOMAIN new
    THEN [new EXCEPT ![c].layers[l] = sub, ![c].told = Tell(@, y, own)] ELSE new
WriteWorld(w, new, c, l, sub) ==
    IF c \notin DOMAIN new /\ ~w.chunks[c].cached
    THEN [w EXCEPT !.chunks[c].layers[l] = sub] ELSE w
WriteCache(cache, w, new, c, l, sub) ==
    IF c \notin DOMAIN new /\ w.chunks[c].cached
    THEN [cache EXCEPT ![w.chunks[c].hash].layers[l] = sub] ELSE cache

\* An entry with data: CacheSubChunk, its layer of the chunk, AddSubChunk.
SubChunkSuccess(p) ==
    /\ task[p].kind = "subs" /\ task[p].entries # <<>>
    /\ LET e == Head(task[p].entries)
           hash == SubHashOf(e, mode[p])
           new == Begun(p, e.pos)
           fresh == [subs |-> 1, layer |-> LayerOf[DimensionOf(world[p], new, e.pos)][e.y],
                     sub |-> Decoded(e.data, mode[p])]
           got == Found(subCache, hash, fresh)
           own == Decoded(e.data, mode[p])
       IN
       /\ e.result = "success"
       /\ subCache' = Subscribed(subCache, hash, fresh)
       /\ chunkCache' = WriteCache(chunkCache, world[p], new, e.pos, got.layer, got.sub)
       /\ world' = [world EXCEPT ![p] =
            AddSubChunk(WriteWorld(@, new, e.pos, got.layer, got.sub), e.pos, hash)]
       /\ view' = IF e.pos \in DOMAIN new THEN view
                  ELSE [view EXCEPT ![p][e.pos].layers = Tell(@, e.y, own)]
       /\ task' = [task EXCEPT ![p].entries = Tail(@),
                               ![p].new = WriteNew(new, e.pos, got.layer, got.sub, e.y, own)]
    /\ UNCHANGED <<radius, drops, lifeVars, request, pos, late, calls>>

\* An entry without data begins its chunk all the same; one that cannot be decoded also
\* disconnects the player, and the entries after it are handled.
SubChunkEmpty(p) ==
    /\ task[p].kind = "subs" /\ task[p].entries # <<>>
    /\ LET e == Head(task[p].entries) IN
       /\ e.result # "success"
       /\ task' = [task EXCEPT ![p].entries = Tail(@), ![p].new = Begun(p, e.pos)]
       /\ closed' = [closed EXCEPT ![p] = @ \/ e.result = "corrupt"]
    /\ UNCHANGED <<cacheVars, world, radius, drops, purged, ticking, mode, request, pos, view,
                   late, calls>>

\* The chunks the packet has begun are added, not cached.
AddNewChunks(p) ==
    /\ task[p].kind = "subs" /\ task[p].entries = <<>>
    /\ LET new == task[p].new IN
       /\ world' = [world EXCEPT ![p].chunks =
                      [c \in DOMAIN @ \cup DOMAIN new |->
                         IF c \in DOMAIN new
                         THEN [cached |-> FALSE, hash |-> <<>>, layers |-> new[c].layers,
                               dimension |-> new[c].dimension] ELSE @[c]],
                                 ![p].exempted = @ \cup DOMAIN new]
       /\ view' = [view EXCEPT ![p] = [c \in Positions |->
                      IF c \in DOMAIN new
                      THEN [sent |-> TRUE, layers |-> new[c].told, stage |-> Stage(p, c)] ELSE @[c]]]
    /\ task' = [task EXCEPT ![p] = Idle]
    /\ UNCHANGED <<cacheVars, radius, drops, lifeVars, request, pos, late, calls>>

------------------------------------------------------------------------------
(* Moving and the chunk radius. *)

\* handleMovement: CleanChunks with the chunk the player is in.
Move(p) ==
    /\ p \in Travellers /\ Free(p) /\ ~purged[p] /\ calls < MaxCalls
    /\ \E at \in Positions :
        /\ pos' = [pos EXCEPT ![p] = at]
        /\ view' = [view EXCEPT ![p] = [c \in Positions |-> Passed(@[c], c, radius[p].chunk, at)]]
        /\ LET w == world[p]
               gone == IF at = w.lastCleanPos THEN {} ELSE OutOfRange(w, radius[p].chunk, at)
           IN
           /\ drops' = [drops EXCEPT ![p] = RefsOf(w, gone)]
           /\ world' = [world EXCEPT ![p] =
                IF at = @.lastCleanPos THEN @ ELSE Without(Cleaned(@, radius[p].chunk, at), gone)]
    /\ calls' = calls + 1
    /\ UNCHANGED <<cacheVars, radius, task, lifeVars, request, late>>

\* ChunkRadiusUpdated: SetServerChunkRadius.
SetServerChunkRadius(p) ==
    /\ p \in Travellers /\ Free(p) /\ ~purged[p]
    /\ \E r \in Radii : radius' = [radius EXCEPT ![p] = [server |-> r, chunk |-> r]]
    /\ UNCHANGED <<cacheVars, world, task, drops, lifeVars, request, pos, view, late, calls>>

\* RequestChunkRadius: SetChunkRadius, at most the radius of the server.
SetChunkRadius(p) ==
    /\ p \in Travellers /\ Free(p) /\ ~purged[p]
    /\ \E r \in Radii : radius' = [radius EXCEPT ![p].chunk =
            IF r > radius[p].server /\ radius[p].server # 0 THEN radius[p].server ELSE r]
    /\ UNCHANGED <<cacheVars, world, task, drops, lifeVars, request, pos, view, late, calls>>

Handler(p) ==
    \/ Unsub(p) \/ ReplaceLevelChunk(p) \/ AddLevelChunk(p) \/ SubChunkSuccess(p) \/ SubChunkEmpty(p)
    \/ AddNewChunks(p)
Next ==
    \E p \in Players :
        \/ Handler(p) \/ HandleLevelChunk(p) \/ HandleCorruptLevelChunk(p)
        \/ HandleSubChunk(p) \/ HandleBlobSubChunk(p)
        \/ Move(p) \/ SetServerChunkRadius(p) \/ SetChunkRadius(p)
        \/ TransferServerConn(p) \/ Close(p) \/ Purge(p) \/ TickStops(p)

\* Handlers run to their end, a Go mutex is not withheld for ever from the goroutine of
\* Close, and the ticker fires for ever.
Fairness ==
    \A p \in Players : WF_vars(Handler(p)) /\ SF_vars(Purge(p)) /\ SF_vars(TickStops(p))
Spec == Init /\ [][Next]_vars /\ Fairness

------------------------------------------------------------------------------
(* Properties. *)

Modes == {"ids", "hashes"}
Infos == [cached : BOOLEAN, hash : {<<>>} \cup (Payloads \X Modes),
          layers : [Layers -> {<<"air">>} \cup (Payloads \X Modes)], dimension : Dimensions]

\* Types: an entry of a cache has a user, a chunk is within the world, and nobody but a
\* handler holds references that are neither in the world nor given up.
TypeOK ==
    /\ \A h \in DOMAIN chunkCache : chunkCache[h].subs \in Nat \ {0}
    /\ \A h \in DOMAIN subCache : subCache[h].subs \in Nat \ {0}
    /\ \A p \in Players :
        /\ DOMAIN world[p].chunks \subseteq Positions /\ world[p].exempted \subseteq Positions
        /\ \A c \in DOMAIN world[p].chunks : world[p].chunks[c] \in Infos
        /\ task[p].kind = "subs" \/ DOMAIN world[p].subChunks \subseteq DOMAIN world[p].chunks
        /\ task[p].kind \in {"idle", "chunk", "subs"}
        /\ purged[p] => closed[p]
        /\ radius[p].chunk \in Radii \cup {Unlimited} /\ radius[p].server \in Radii \cup {0}

\* The references a player holds: of its world, those that are still to be given up, and the
\* one of a chunk that is decoded and not yet in the world.
Arriving(t) == [of |-> "chunk", hash |-> t.hash, at |-> t.at, nth |-> 1]
References(p) ==
    RefsOf(world[p], Positions) \cup drops[p]
      \cup {Arriving(t) : t \in {u \in {task[p]} : u.kind = "chunk"}}

\* What all players hold, and of that the uses of one entry.
Held == UNION {{<<p, ref>> : ref \in References(p)} : p \in Players}
Uses(of, h) == {use \in Held : use[2].of = of /\ use[2].hash = h}

\* The count of an entry is the number of its uses by all players, whatever handlers,
\* transfers, cleanings and closings of others run between two steps of one: no entry is
\* dropped while a world reads it, none stays without a user, none is released twice.
CountsExact ==
    /\ TypeOK
    /\ \A h \in DOMAIN chunkCache : chunkCache[h].subs = Cardinality(Uses("chunk", h))
    /\ \A h \in DOMAIN subCache : subCache[h].subs = Cardinality(Uses("sub", h))
    /\ \A p \in Players : \A ref \in References(p) :
        ref.hash \in DOMAIN (IF ref.of = "chunk" THEN chunkCache ELSE subCache)

\* What a world reads.
Reads(p, c) ==
    LET info == world[p].chunks[c] IN
    IF info.cached THEN chunkCache[info.hash].layers ELSE info.layers

\* A player reads decodings of payloads its own backend sent for the place, in its own
\* representation, although the decoded chunks are shared with players of other backends.
\* Which dimension a payload was decoded in is left open, as the caches leave it: one that comes
\* with one dimension and number of sub-chunks only is read exactly as it was sent, and so is a
\* sub-chunk whose height has the same layer in all dimensions.
ReadsOwnChunks ==
    \A p \in Players : task[p] = Idle =>
        \A c \in DOMAIN world[p].chunks :
            view[p][c].sent /\ \A l \in Layers : Reads(p, c)[l] \in view[p][c].layers[l]

\* CleanChunks: a chunk stays until the player has been near it and has left: chunks sent
\* ahead of a teleport are there when the player arrives.
ChunksAheadKept ==
    \A p \in Players, c \in Positions :
        task[p] = Idle /\ view[p][c].sent /\ view[p][c].stage # "behind" => c \in DOMAIN world[p].chunks

Holds(p) == DOMAIN world[p].chunks # {} \/ drops[p] # {} \/ task[p] # Idle

\* Close: a closed player gives up its chunks and its ticker stops, even when the handler
\* that closed it had more to do; only a packet handled after the purge brings some back.
CloseReleases == \A p \in Players : closed[p] ~> (~ticking[p] /\ (late[p] \/ ~Holds(p)))
=============================================================================
