--------------------------- MODULE EntityTracker ---------------------------
(***************************************************************************)
(* The entities a player can see and where they were: the server-state     *)
(* EntityTrackerComponent (player/component/entities.go), the interpolated *)
(* positions of entity/entity.go and the ring buffer of past positions     *)
(* (utils/circular_queue.go) that entity/rewind.go searches.               *)
(*                                                                         *)
(* A position is one coordinate; the fractions of the interpolation are    *)
(* rounded, as floating point rounds them.  `log' is a history variable:   *)
(* what was recorded for an entity, oldest first, as far as the buffer     *)
(* reaches back.                                                           *)
(***************************************************************************)
EXTENDS Integers, Sequences, Functions

CONSTANTS
    RuntimeIDs,     \* runtime ids of entities
    Players,        \* those that are players
    Positions,      \* positions the server sends
    HistorySize,    \* Network.MaxEntityRewind
    MaxTick,        \* bound on the server tick
    MaxMoves        \* bound on the entity packets of the server

ASSUME TrackerAssumption ==
    /\ Players \subseteq RuntimeIDs
    /\ Positions \subseteq Int
    /\ HistorySize \in Nat \ {0} /\ MaxTick \in Nat /\ MaxMoves \in Nat

EntityPlayerInterpolationTicks == 3
EntityMobInterpolationTicks == 6
\* DefaultPlayerHeightOffset, in the model's units: players are sent at eye height.
DefaultPlayerHeightOffset == 1

VARIABLES
    entities,       \* entities: from the tracked runtime ids to their entity
    serverTick,     \* ServerTick
    moves,          \* entity packets so far
    log             \* history: what the buffer of each entity should hold

vars == <<entities, serverTick, moves, log>>

-----------------------------------------------------------------------------
(* utils.CircularQueue, as entities use it: created full of zero entries *)

NoPosition == [pos |-> 0, prev |-> 0, tick |-> 0]

NewCircularQueue == [items |-> [i \in 0..(HistorySize - 1) |-> NoPosition],
                     head |-> 0, tail |-> 0, size |-> HistorySize]

\* Defect: the oldest entry is overwritten but head stays where it was.
Append_KeepHead(q, item) ==
    [q EXCEPT !.items[q.tail] = item, !.tail = (@ + 1) % HistorySize]

\* Defect: the tail runs past the end of the buffer.
Append_NoWrap(q, item) ==
    [q EXCEPT !.items[q.tail] = item, !.tail = @ + 1]

QueueAppend(q, item) ==
    [items |-> [q.items EXCEPT ![q.tail] = item],
     head  |-> IF q.size = HistorySize THEN (q.head + 1) % HistorySize ELSE q.head,
     size  |-> IF q.size = HistorySize THEN q.size ELSE q.size + 1,
     tail  |-> (q.tail + 1) % HistorySize]

\* The entries, oldest first, as Rewind and Iter walk them.
Items(q) == [i \in 1..q.size |-> q.items[(q.head + i - 1) % HistorySize]]

-----------------------------------------------------------------------------
(* entity.Entity *)

NewEntity(pos) ==
    [pos |-> pos, recv |-> pos, interpolation |-> 0, history |-> NewCircularQueue]

\* Defect: an interpolation that has ended is not started again.
ReceivePosition_NoRestart(e, rid, pos, teleport) ==
    [e EXCEPT !.recv = pos, !.interpolation = IF teleport THEN 1 ELSE @]

\* ReceivePosition: the end point of a new interpolation.
ReceivePosition(e, rid, pos, teleport) ==
    [e EXCEPT !.recv = pos,
              !.interpolation = IF teleport THEN 1
                                ELSE IF rid \in Players THEN EntityPlayerInterpolationTicks
                                ELSE EntityMobInterpolationTicks]

\* Where Tick puts the entity: a fraction of the way while the interpolation
\* runs, at its end exactly the received position, and afterwards nowhere else.
interpolate(e) ==
    IF e.interpolation < 0 THEN e.pos
    ELSE IF e.interpolation > 0 THEN e.pos + ((e.recv - e.pos) \div e.interpolation)
    ELSE e.recv

\* Entity.Tick and UpdatePosition.
TickEntity(e, tick) ==
    LET newPos == interpolate(e)
    IN  [e EXCEPT !.pos = newPos,
                  !.history = QueueAppend(@, [pos |-> newPos, prev |-> e.pos, tick |-> tick]),
                  !.interpolation = IF @ < 0 THEN @ ELSE @ - 1]

Distance(a, b) == IF a < b THEN b - a ELSE a - b

\* One turn of Rewind's loop; `done' stands for its return and its break.
rewindStep(acc, hp, tick) ==
    IF acc.done \/ hp.tick = 0 THEN acc
    ELSE IF hp.tick = tick THEN [best |-> hp, found |-> TRUE, done |-> TRUE]
    ELSE IF ~acc.found \/ Distance(hp.tick, tick) <= Distance(acc.best.tick, tick)
         THEN [best |-> hp, found |-> TRUE, done |-> FALSE]
    ELSE [acc EXCEPT !.done = TRUE]

\* Rewind: the recorded position nearest to a tick, if there is any; search[n] is where the
\* loop is after the n oldest entries.
NothingFound == [best |-> NoPosition, found |-> FALSE, done |-> FALSE]
Search(hps, size, tick) ==
    LET search[n \in 0..size] ==
            IF n = 0 THEN NothingFound ELSE rewindStep(search[n - 1], hps[n], tick)
    IN  search[size]
Rewind(e, tick) == Search(Items(e.history), e.history.size, tick)

-----------------------------------------------------------------------------
(* EntityTrackerComponent *)

Tracked == DOMAIN entities

\* Each action is a handler under procMu, or Player.Tick.

\* AddActor, AddPlayer: an entity added again starts with an empty history.
AddEntity(rid, pos) ==
    /\ moves < MaxMoves
    /\ moves' = moves + 1
    /\ entities' = [r \in Tracked \cup {rid} |-> IF r = rid THEN NewEntity(pos) ELSE entities[r]]
    /\ log' = [log EXCEPT ![rid] = <<>>]
    /\ UNCHANGED serverTick

\* RemoveActor.  The handler takes the packet's unique id for the runtime id.
RemoveEntity(uid) ==
    /\ moves < MaxMoves
    /\ moves' = moves + 1
    /\ entities' = [r \in Tracked \ {uid} |-> entities[r]]
    /\ log' = [r \in RuntimeIDs |-> IF r = uid THEN <<>> ELSE log[r]]
    /\ UNCHANGED serverTick

\* MoveActorAbsolute, MovePlayer: ignored for an entity that is not tracked.
MoveEntity(rid, pos, teleport) ==
    /\ moves < MaxMoves
    /\ rid \in Tracked
    /\ moves' = moves + 1
    /\ LET feet == IF rid \in Players THEN pos - DefaultPlayerHeightOffset ELSE pos
       IN  entities' = [entities EXCEPT ![rid] = ReceivePosition(@, rid, feet, teleport)]
    /\ UNCHANGED <<serverTick, log>>

\* Player.Tick: the tick advances by one, or by more after a stall, and every
\* entity is ticked once.
TickAll(steps) ==
    /\ serverTick + steps <= MaxTick
    /\ serverTick' = serverTick + steps
    /\ entities' = [r \in Tracked |-> TickEntity(entities[r], serverTick')]
    /\ log' = [r \in RuntimeIDs |->
                 IF r \in Tracked
                 THEN LET all == Append(log[r], [pos |-> interpolate(entities[r]),
                                                 prev |-> entities[r].pos, tick |-> serverTick'])
                      IN  IF Len(all) > HistorySize THEN Tail(all) ELSE all
                 ELSE <<>>]
    /\ UNCHANGED moves

\* A transfer to another backend forgets every entity.
TransferServerConn ==
    /\ moves < MaxMoves
    /\ moves' = moves + 1
    /\ entities' = [r \in {} |-> NewEntity(0)]
    /\ log' = [r \in RuntimeIDs |-> <<>>]
    /\ UNCHANGED serverTick

Init ==
    /\ entities = [r \in {} |-> NewEntity(0)]
    /\ serverTick = 0 /\ moves = 0
    /\ log = [r \in RuntimeIDs |-> <<>>]

Next ==
    \/ \E rid \in RuntimeIDs, pos \in Positions : AddEntity(rid, pos)
    \/ \E uid \in RuntimeIDs : RemoveEntity(uid)
    \/ \E rid \in RuntimeIDs, pos \in Positions, teleport \in BOOLEAN : MoveEntity(rid, pos, teleport)
    \/ \E steps \in 1..2 : TickAll(steps)
    \/ TransferServerConn

Spec == Init /\ [][Next]_vars

-----------------------------------------------------------------------------
(* Properties *)

QueueTyped(q) ==
    /\ q.items \in [0..(HistorySize - 1) -> [pos : Int, prev : Int, tick : 0..MaxTick]]
    /\ q.head \in 0..(HistorySize - 1) /\ q.tail \in 0..(HistorySize - 1)
    /\ q.size = HistorySize

\* Every variable keeps its type; the indices stay within the buffer.
TypeOK ==
    /\ Tracked \subseteq RuntimeIDs
    /\ serverTick \in 0..MaxTick /\ moves \in 0..MaxMoves
    /\ \A r \in Tracked :
          /\ entities[r].pos \in Int /\ entities[r].recv \in Int
          /\ entities[r].interpolation \in -1..EntityMobInterpolationTicks
          /\ QueueTyped(entities[r].history)

\* README: "KillLime will rewind the entity to the exact client tick (or closest,
\* if the tick is not found in the position buffer)".  For every tick, Rewind
\* returns a position that was recorded, no other recorded one is nearer, and it
\* finds one exactly when the entity was ticked since it was added: the ring
\* buffer, its zero entries and the early break of the search never lose it.
RewindNearest ==
    TypeOK /\ \A r \in Tracked : \A tick \in 0..(MaxTick + 1) :
        LET res == Rewind(entities[r], tick)
        IN  /\ res.found = (log[r] # <<>>)
            /\ res.found => /\ res.best \in Range(log[r])
                            /\ \A hp \in Range(log[r]) :
                                  Distance(res.best.tick, tick) <= Distance(hp.tick, tick)

\* An entity whose interpolation has run out is exactly where the server put it,
\* however its last moves overlapped and whatever the interpolation rounded away.
SettledWhereReceived ==
    \A r \in Tracked : entities[r].interpolation < 0 => entities[r].pos = entities[r].recv
=============================================================================
