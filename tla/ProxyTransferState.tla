-------------------------- MODULE ProxyTransferState --------------------------
(***************************************************************************)
(* What the client sees of its backend across transfers: entity IDs        *)
(* (rewriteServerPacket, rewriteClientPacket), the state that survives a   *)
(* dimension change (state_tracker.go) and the dimension itself            *)
(* (transferResetPackets, resetTransferState) of deps/proxy.               *)
(*                                                                         *)
(* world is the truth on the current backend, seen is what the client has  *)
(* been told; every action is one packet of the backend as backendLoop     *)
(* forwards it, or one committed transfer.  Their interleaving with the    *)
(* session's other goroutines is the subject of ProxySession, which shows  *)
(* that they happen one at a time, under routeMu.                          *)
(***************************************************************************)
EXTENDS Naturals, FiniteSets

CONSTANTS
  Ids,          \* runtime and unique IDs backends give to entities
  MaxInt64,     \* the ID that stands for a colliding entity
  clientRid,    \* session.clientRuntimeID: the player's ID on the first backend
  clientUid,    \* session.clientUniqueID
  Names,        \* boss bars, effects, listed players, scoreboards
  Dims,         \* dimensions, as transferResetPackets tries them
  MaxEntities   \* bound: entities alive on a backend at a time

ASSUME IdsAssumption ==
  /\ MaxInt64 \notin Ids /\ clientRid \in Ids /\ clientUid \in Ids
ASSUME DimsAssumption == Dims = 0..2 /\ MaxEntities \in Nat

VARIABLES
  backendRid, backendUid,  \* session.backendRuntimeID, backendUniqueID
  clientDimension,         \* session.clientDimension
  tracker,                 \* backendStateTracker
  world,                   \* the current backend's truth
  seen,                    \* the client's view
  stuck,                   \* history: the client was sent a ChangeDimension
                           \* to the dimension it was in
  moved                    \* history: a backend has itself moved the player
                           \* between dimensions

tsVars == <<backendRid, backendUid, clientDimension, tracker, world, seen, stuck,
            moved>>

Entity == [rid : Ids, uid : Ids]
ClientEntity == [rid : Ids \union {MaxInt64}, uid : Ids \union {MaxInt64}]
Kinds == {"bossBar", "player", "scoreboard"}
Nothing == [k \in Kinds |-> {}]

-----------------------------------------------------------------------------
\* Defect: an entity that has the player's client ID keeps it
rewriteRuntimeID_NoCollision(id) == IF id = backendRid THEN clientRid ELSE id

\* Defect: the stand-in is one past the largest ID
rewriteUniqueID_PastEnd(id) ==
  IF id = backendUid THEN clientUid
  ELSE IF backendUid # clientUid /\ id = clientUid THEN MaxInt64 + 1 ELSE id

\* rewriteServerPacket's two closures
rewriteRuntimeID(id) ==
  IF id = backendRid THEN clientRid
  ELSE IF backendRid # clientRid /\ id = clientRid THEN MaxInt64 ELSE id

rewriteUniqueID(id) ==
  IF id = backendUid THEN clientUid
  ELSE IF backendUid # clientUid /\ id = clientUid THEN MaxInt64 ELSE id

\* Defect: the stand-in ID is not mapped back
rewriteTarget_NoStandIn(id) == IF id = clientRid THEN backendRid ELSE id

\* the target of an Interact or of an attack in rewriteClientPacket
rewriteTarget(id) ==
  IF id = MaxInt64 THEN clientRid
  ELSE IF id = clientRid THEN backendRid ELSE id

\* the ID of the player's own packets in rewriteClientPacket
rewriteOwn(id) == IF id = clientRid THEN backendRid ELSE id

\* an entity as the client is told of it
Rewritten(e) == [rid |-> rewriteRuntimeID(e.rid), uid |-> rewriteUniqueID(e.uid)]

-----------------------------------------------------------------------------
TSInit ==
  /\ backendRid = clientRid /\ backendUid = clientUid
  /\ clientDimension \in Dims
  /\ tracker = [entities |-> {}, effects |-> {}, shown |-> Nothing]
  /\ world = [entities |-> {}, effects |-> {}, shown |-> Nothing,
              dim |-> clientDimension]
  /\ seen = world
  /\ stuck = FALSE /\ moved = FALSE

\* AddPlayer and AddActor of the player itself are not forwarded
isSelfSpawn(e) == e.rid = backendRid

\* AddActor, AddPlayer, AddItemActor or AddPainting, with IDs free on the
\* backend; the player itself is spawned too
AddEntity(e) ==
  /\ e.rid = backendRid <=> e.uid = backendUid
  /\ Cardinality(world.entities) < MaxEntities
  /\ \A f \in world.entities : e.rid # f.rid /\ e.uid # f.uid
  /\ IF isSelfSpawn(e)
     THEN UNCHANGED <<tracker, seen>>
     ELSE /\ tracker' = [tracker EXCEPT !.entities = @ \union {rewriteUniqueID(e.uid)}]
          /\ seen' = [seen EXCEPT !.entities = @ \union {Rewritten(e)}]
  /\ world' = IF e.rid = backendRid THEN world
              ELSE [world EXCEPT !.entities = @ \union {e}]
  /\ UNCHANGED <<backendRid, backendUid, clientDimension, stuck, moved>>

\* the client drops every entity with that unique ID
RemoveActor(e) ==
  LET uid == rewriteUniqueID(e.uid)
  IN /\ e \in world.entities
     /\ world' = [world EXCEPT !.entities = @ \ {e}]
     /\ tracker' = [tracker EXCEPT !.entities = @ \ {uid}]
     /\ seen' = [seen EXCEPT !.entities = {f \in @ : f.uid # uid}]
     /\ UNCHANGED <<backendRid, backendUid, clientDimension, stuck, moved>>

\* MobEffect, on the player or on another entity; the client applies to the
\* player what carries its own ID
MobEffect(rid, name, add) ==
  LET Upd(S) == IF add THEN S \union {name} ELSE S \ {name}
      own == rewriteRuntimeID(rid) = clientRid
  IN /\ rid = backendRid \/ \E e \in world.entities : e.rid = rid
     /\ world' = IF rid = backendRid
                 THEN [world EXCEPT !.effects = Upd(@)] ELSE world
     /\ tracker' = IF own THEN [tracker EXCEPT !.effects = Upd(@)] ELSE tracker
     /\ seen' = IF own THEN [seen EXCEPT !.effects = Upd(@)] ELSE seen
     /\ UNCHANGED <<backendRid, backendUid, clientDimension, stuck, moved>>

\* BossEvent show, PlayerList add, SetDisplayObjective
Show(k, name) ==
  /\ world' = [world EXCEPT !.shown[k] = @ \union {name}]
  /\ tracker' = [tracker EXCEPT !.shown[k] = @ \union {name}]
  /\ seen' = [seen EXCEPT !.shown[k] = @ \union {name}]
  /\ UNCHANGED <<backendRid, backendUid, clientDimension, stuck, moved>>

\* BossEvent hide, PlayerList remove, RemoveObjective
Hide(k, name) ==
  /\ world' = [world EXCEPT !.shown[k] = @ \ {name}]
  /\ tracker' = [tracker EXCEPT !.shown[k] = @ \ {name}]
  /\ seen' = [seen EXCEPT !.shown[k] = @ \ {name}]
  /\ UNCHANGED <<backendRid, backendUid, clientDimension, stuck, moved>>

\* any other BossEvent is tracked, and shows nothing on the client
BossEventOther(name) ==
  /\ tracker' = [tracker EXCEPT !.shown["bossBar"] = @ \union {name}]
  /\ UNCHANGED <<backendRid, backendUid, clientDimension, world, seen, stuck,
                 moved>>

\* the backend moves the player to another dimension: the packet is forwarded
\* as it is and the session keeps no note of it
ChangeDimension(d) ==
  /\ d # world.dim
  /\ world' = [world EXCEPT !.dim = d]
  /\ seen' = [seen EXCEPT !.dim = d]
  /\ stuck' = (stuck \/ seen.dim = d)
  /\ moved' = TRUE
  /\ UNCHANGED <<backendRid, backendUid, clientDimension, tracker>>

-----------------------------------------------------------------------------
\* Defect: the tracked entities are not removed
clearPackets_NoEntities(v) ==
  [v EXCEPT !.entities = @,
            !.effects  = @ \ tracker.effects,
            !.shown    = [k \in Kinds |-> @[k] \ tracker.shown[k]]]

\* clearPackets: one removal for everything tracked, applied by the client
clearPackets(v) ==
  [v EXCEPT !.entities = {e \in @ : e.uid \notin tracker.entities},
            !.effects  = @ \ tracker.effects,
            !.shown    = [k \in Kinds |-> @[k] \ tracker.shown[k]]]

fakeDimension(dim) ==
  LET free == {d \in Dims : d # clientDimension /\ d # dim}
  IN CHOOSE d \in free : \A c \in free : d <= c

\* Defect: the destination's dimension is always sent alone
dimensionChanges_Direct(dim) == <<dim>>

\* the ChangeDimension packets of transferResetPackets, in order
dimensionChanges(dim) ==
  IF clientDimension = dim THEN <<fakeDimension(dim), dim>> ELSE <<dim>>

\* some ChangeDimension of the sequence names the dimension the client is in
SameDimension(dims) ==
  \/ seen.dim = dims[1]
  \/ \E i \in DOMAIN dims : i + 1 \in DOMAIN dims /\ dims[i] = dims[i + 1]

\* swapBackend and resetTransferState, to a backend with the given game data
Transfer(rid, uid, dim) ==
  /\ backendRid' = rid /\ backendUid' = uid
  /\ world' = [entities |-> {}, effects |-> {}, shown |-> Nothing, dim |-> dim]
  /\ seen' = [clearPackets(seen) EXCEPT !.dim = dim]
  /\ tracker' = [entities |-> {}, effects |-> {}, shown |-> Nothing]
  /\ stuck' = (stuck \/ SameDimension(dimensionChanges(dim)))
  /\ clientDimension' = dim
  /\ UNCHANGED moved

TSNext ==
  \/ \E e \in Entity : AddEntity(e) \/ RemoveActor(e)
  \/ \E rid \in Ids, name \in Names, add \in BOOLEAN : MobEffect(rid, name, add)
  \/ \E k \in Kinds, name \in Names : Show(k, name) \/ Hide(k, name)
  \/ \E name \in Names : BossEventOther(name)
  \/ \E d \in Dims : ChangeDimension(d)
  \/ \E rid, uid \in Ids, dim \in Dims : Transfer(rid, uid, dim)

TSSpec == TSInit /\ [][TSNext]_tsVars

-----------------------------------------------------------------------------
\* Types of every variable.
TSTypeOK ==
  /\ backendRid \in Ids /\ backendUid \in Ids
  /\ clientDimension \in Dims
  /\ tracker.entities \subseteq Ids \union {MaxInt64}
  /\ tracker.effects \subseteq Names
  /\ tracker.shown \in [Kinds -> SUBSET Names]
  /\ world.entities \subseteq Entity /\ seen.entities \subseteq ClientEntity
  /\ \A v \in {world, seen} :
       v.effects \subseteq Names /\ v.shown \in [Kinds -> SUBSET Names] /\ v.dim \in Dims
  /\ stuck \in BOOLEAN /\ moved \in BOOLEAN

\* The client sees exactly what is on its current backend: every entity under
\* its rewritten IDs, the player's effects, boss bars, player list,
\* scoreboards and dimension, with nothing left over from an earlier backend
\* and nothing of another entity applied to the player.  It is not left on a
\* loading screen: as long as no backend has itself moved the player between
\* dimensions, every ChangeDimension of a transfer takes the client to a dimension
\* it is not in, within one dimension through a fake one.
ClientMirrorsBackend ==
  /\ TSTypeOK
  /\ stuck => moved
  /\ seen.entities = {Rewritten(e) : e \in world.entities}
  /\ seen.effects = world.effects /\ seen.shown = world.shown
  /\ seen.dim = world.dim

\* The player keeps one ID for the client's whole session and no other entity
\* is ever shown under it, or two entities under the same ID, whichever IDs
\* the backends choose (the collision case of rewriteServerPacket); and what the client
\* aims at is what the backend is told of: the rewrite of a target undoes the rewrite
\* of the entity, for the player and for every other entity, a colliding one included.
StableIdentity ==
  /\ \A e \in seen.entities : e.rid # clientRid /\ e.uid # clientUid
  /\ \A e, f \in world.entities :
       e # f => /\ rewriteRuntimeID(e.rid) # rewriteRuntimeID(f.rid)
                /\ rewriteUniqueID(e.uid) # rewriteUniqueID(f.uid)
  /\ rewriteOwn(rewriteRuntimeID(backendRid)) = backendRid
  /\ rewriteTarget(rewriteRuntimeID(backendRid)) = backendRid
  /\ \A e \in world.entities : rewriteTarget(rewriteRuntimeID(e.rid)) = e.rid
=============================================================================
