-------------------------- MODULE EntityTrackerProofs --------------------------
(***************************************************************************)
(* For every size of the position buffer: the indices of the ring stay     *)
(* within it, it holds exactly the positions recorded last, in order, the  *)
(* search of Rewind finds the nearest of them, and an entity ends its      *)
(* interpolation where the server put it.                                  *)
(***************************************************************************)
EXTENDS EntityTracker, WellFoundedInduction, TLAPS

Entry == [pos : Int, prev : Int, tick : 0..MaxTick]
Slots == 0..(HistorySize - 1)
Queues == [items : [Slots -> Entry], head : Slots, tail : Slots, size : {HistorySize}]
Entities == [pos : Int, recv : Int, interpolation : -1..EntityMobInterpolationTicks,
             history : Queues]

\* The slot of the k-th newest entry.
Slot(q, k) == IF q.tail >= k THEN q.tail - k ELSE q.tail + HistorySize - k

\* The buffer is full from the start, so the oldest entry is the next to be overwritten; behind
\* the recorded positions it has zero entries.
Holds(q, entries) ==
  /\ q.head = q.tail
  /\ entries \in Seq(Entry) /\ Len(entries) <= HistorySize
  /\ \A k \in 1..HistorySize :
       q.items[Slot(q, k)] = IF k <= Len(entries) THEN entries[Len(entries) + 1 - k] ELSE NoPosition

\* An interpolation that has run out has ended at its end point.
Settles(e) == e.interpolation < 0 => e.pos = e.recv

IInv ==
  /\ serverTick \in 0..MaxTick /\ moves \in 0..MaxMoves
  /\ Tracked \subseteq RuntimeIDs /\ log = [r \in RuntimeIDs |-> log[r]]
  /\ entities \in [Tracked -> Entities]
  /\ \A r \in Tracked : Holds(entities[r].history, log[r]) /\ Settles(entities[r])

\* Rewind and Iter meet, oldest first, the zero entries and then the recorded positions.
BufferHoldsRecent ==
  \A r \in Tracked : \A i \in 1..HistorySize :
    Items(entities[r].history)[i] =
      IF i > HistorySize - Len(log[r]) THEN log[r][i - (HistorySize - Len(log[r]))] ELSE NoPosition

-----------------------------------------------------------------------------
(* utils.CircularQueue *)

\* Going once around the ring.
LEMMA Wrap ==
  ASSUME NEW x \in 0..(2 * HistorySize - 1)
  PROVE  x % HistorySize = IF x < HistorySize THEN x ELSE x - HistorySize
BY TrackerAssumption

\* NewCircularQueue is full of zero entries.
LEMMA NewQueue == NewCircularQueue \in Queues /\ Holds(NewCircularQueue, <<>>)
<1>1. NoPosition \in Entry
  BY TrackerAssumption DEF NoPosition, Entry
<1>2. NewCircularQueue \in Queues
  BY <1>1, TrackerAssumption DEF NewCircularQueue, Queues, Slots
<1>3. \A k \in 1..HistorySize : Slot(NewCircularQueue, k) \in Slots
  BY TrackerAssumption DEF NewCircularQueue, Slot, Slots
<1>4. \A k \in 1..HistorySize : NewCircularQueue.items[Slot(NewCircularQueue, k)] = NoPosition
  BY <1>3 DEF NewCircularQueue, Slots
<1> QED
  BY <1>2, <1>4, TrackerAssumption DEF Holds, NewCircularQueue

Recorded(entries, item) ==
  LET all == Append(entries, item) IN IF Len(all) > HistorySize THEN Tail(all) ELSE all

\* Append overwrites the oldest entry and nothing else.
LEMMA AppendHolds ==
  ASSUME NEW q \in Queues, NEW entries, Holds(q, entries), NEW item \in Entry
  PROVE  QueueAppend(q, item) \in Queues /\ Holds(QueueAppend(q, item), Recorded(entries, item))
<1> DEFINE q2 == QueueAppend(q, item)
           next == IF q.tail + 1 < HistorySize THEN q.tail + 1 ELSE 0
           n == Len(entries)
           e2 == Recorded(entries, item)
<1>0. /\ q.tail \in Slots /\ q.head = q.tail /\ q.size = HistorySize /\ q.items \in [Slots -> Entry]
      /\ entries \in Seq(Entry) /\ n \in 0..HistorySize
  BY TrackerAssumption DEF Holds, Queues
<1>1. (q.tail + 1) % HistorySize = next /\ next \in Slots
  <2>1. q.tail \in 0..(HistorySize - 1) /\ HistorySize \in Nat \ {0}
    BY <1>0, TrackerAssumption DEF Slots
  <2>2. q.tail + 1 \in 0..(2 * HistorySize - 1)
    BY <2>1
  <2>3. (q.tail + 1) % HistorySize = IF q.tail + 1 < HistorySize THEN q.tail + 1 ELSE q.tail + 1 - HistorySize
    BY <2>1, <2>2, Wrap
  <2>4. next = IF q.tail + 1 < HistorySize THEN q.tail + 1 ELSE q.tail + 1 - HistorySize
    BY <2>1
  <2>5. next \in Slots
    BY <2>1 DEF Slots
  <2> QED
    BY <2>3, <2>4, <2>5
<1>2. /\ q2 = [items |-> [q.items EXCEPT ![q.tail] = item], head |-> next, size |-> HistorySize, tail |-> next]
      /\ q2 \in Queues
  BY <1>0, <1>1 DEF QueueAppend, Queues
<1>3. /\ e2 \in Seq(Entry) /\ Len(e2) = (IF n < HistorySize THEN n + 1 ELSE n)
      /\ e2[Len(e2)] = item
      /\ \A j \in 1..(Len(e2) - 1) : e2[Len(e2) - j] = entries[n + 1 - j]
  <2>1. CASE n < HistorySize
    <3>0. Len(Append(entries, item)) = n + 1 /\ ~(n + 1 > HistorySize)
      BY <1>0, <2>1, TrackerAssumption
    <3>1. e2 = Append(entries, item)
      BY <3>0 DEF Recorded
    <3> QED
      BY <1>0, <2>1, <3>1
  <2>2. CASE n = HistorySize
    <3>1. e2 = Tail(Append(entries, item))
      BY <1>0, <2>2, TrackerAssumption DEF Recorded
    <3>2. Append(entries, item) \in Seq(Entry) /\ Len(Append(entries, item)) = n + 1
      BY <1>0
    <3>3. e2 \in Seq(Entry) /\ Len(e2) = n /\ \A i \in 1..n : e2[i] = Append(entries, item)[i + 1]
      BY <1>0, <3>1, <3>2
    <3> QED
      BY <1>0, <2>2, <3>3, TrackerAssumption
  <2>3. n < HistorySize \/ n = HistorySize
    BY <1>0, TrackerAssumption
  <2> HIDE DEF n, e2
  <2> QED
    BY <2>1, <2>2, <2>3
<1>4. Slot(q2, 1) = q.tail
  BY <1>0, <1>2, TrackerAssumption DEF Slot, Slots
<1>5. \A k \in 2..HistorySize : Slot(q2, k) = Slot(q, k - 1) /\ Slot(q, k - 1) # q.tail /\ Slot(q, k - 1) \in Slots
  <2> TAKE k \in 2..HistorySize
  <2>1. q.tail \in 0..(HistorySize - 1) /\ HistorySize \in Nat \ {0} /\ q2.tail = next
    BY <1>0, <1>2, TrackerAssumption DEF Slots
  <2> HIDE DEF q2
  <2>2. Slot(q, k - 1) = IF q.tail >= k - 1 THEN q.tail - (k - 1) ELSE q.tail + HistorySize - (k - 1)
    BY DEF Slot
  <2>3. Slot(q2, k) = IF next >= k THEN next - k ELSE next + HistorySize - k
    BY <2>1 DEF Slot
  <2>4. (IF next >= k THEN next - k ELSE next + HistorySize - k)
          = IF q.tail >= k - 1 THEN q.tail - (k - 1) ELSE q.tail + HistorySize - (k - 1)
    BY <2>1
  <2>5. Slot(q, k - 1) # q.tail /\ Slot(q, k - 1) \in Slots
    BY <2>1, <2>2 DEF Slots
  <2> QED
    BY <2>2, <2>3, <2>4, <2>5
<1>6. ASSUME NEW k \in 1..HistorySize
      PROVE  q2.items[Slot(q2, k)] = IF k <= Len(e2) THEN e2[Len(e2) + 1 - k] ELSE NoPosition
  <2> HIDE DEF q2, e2, next
  <2>1. CASE k = 1
    <3>1. q2.items[Slot(q2, k)] = item
      BY <1>0, <1>2, <1>4, <2>1
    <3> QED
      BY <1>0, <1>3, <2>1, <3>1, TrackerAssumption
  <2>2. CASE k # 1
    <3>1. k \in 2..HistorySize /\ k - 1 \in 1..HistorySize
      BY <2>2, TrackerAssumption
    <3>2. q2.items[Slot(q2, k)] = q.items[Slot(q, k - 1)]
      BY <1>0, <1>2, <1>5, <3>1
    <3>3. q.items[Slot(q, k - 1)] = IF k - 1 <= n THEN entries[n + 1 - (k - 1)] ELSE NoPosition
      BY <3>1 DEF Holds
    <3>4. k <= Len(e2) <=> k - 1 <= n
      BY <1>0, <1>3, <3>1, TrackerAssumption
    <3>5. k <= Len(e2) => e2[Len(e2) + 1 - k] = entries[n + 1 - (k - 1)]
      <4> SUFFICES ASSUME k <= Len(e2) PROVE e2[Len(e2) + 1 - k] = entries[n + 1 - (k - 1)]
        OBVIOUS
      <4>1. k - 1 \in 1..(Len(e2) - 1) /\ Len(e2) - (k - 1) = Len(e2) + 1 - k
        BY <1>0, <1>3, <3>1, TrackerAssumption
      <4>2. e2[Len(e2) - (k - 1)] = entries[n + 1 - (k - 1)]
        BY <1>3, <4>1
      <4> QED
        BY <4>1, <4>2
    <3> QED
      BY <3>2, <3>3, <3>4, <3>5
  <2> QED
    BY <2>1, <2>2
<1>7. Len(e2) <= HistorySize
  <2> HIDE DEF e2, n
  <2> QED
    BY <1>0, <1>3, TrackerAssumption
<1> HIDE DEF e2
<1>8. q2.head = q2.tail
  BY <1>2
<1> HIDE DEF q2
<1>9. Holds(q2, e2)
  BY <1>3, <1>6, <1>7, <1>8 DEF Holds
<1> QED
  BY <1>2, <1>9 DEF q2, e2

-----------------------------------------------------------------------------
(* entity.Entity *)

\* Where an entity is after a tick is a position, and at the end of its interpolation the end point.
LEMMA TickSettles ==
  ASSUME NEW e \in Entities, Settles(e), NEW entries, Holds(e.history, entries),
         NEW tick \in 0..MaxTick
  PROVE  LET item == [pos |-> interpolate(e), prev |-> e.pos, tick |-> tick]
             e2 == TickEntity(e, tick)
         IN  e2 \in Entities /\ Settles(e2) /\ Holds(e2.history, Recorded(entries, item))
<1> DEFINE item == [pos |-> interpolate(e), prev |-> e.pos, tick |-> tick]
           left == IF e.interpolation < 0 THEN e.interpolation ELSE e.interpolation - 1
           q2 == QueueAppend(e.history, item)
           e2 == [e EXCEPT !.pos = interpolate(e), !.history = q2, !.interpolation = left]
<1>1. e.pos \in Int /\ e.recv \in Int /\ e.interpolation \in -1..6 /\ e.history \in Queues
  BY DEF Entities, EntityMobInterpolationTicks
<1>2. interpolate(e) \in Int
  BY <1>1 DEF interpolate
<1>3. left \in -1..6 /\ (left < 0 => interpolate(e) = e.recv)
  BY <1>1 DEF interpolate, Settles
<1>4. item \in Entry
  BY <1>1, <1>2 DEF Entry
<1>5. TickEntity(e, tick) = e2
  BY DEF TickEntity
<1>6. q2 \in Queues /\ Holds(q2, Recorded(entries, item))
  BY <1>1, <1>4, AppendHolds
<1> HIDE DEF item, q2, left
<1>7. e2 \in Entities /\ e2.pos = interpolate(e) /\ e2.recv = e.recv /\ e2.interpolation = left /\ e2.history = q2
  BY <1>1, <1>2, <1>3, <1>6 DEF Entities, EntityMobInterpolationTicks
<1> QED
  BY <1>3, <1>5, <1>6, <1>7 DEF Settles, item

\* A new entity, and one that has a new end point.
LEMMA MoveSettles ==
  ASSUME NEW e \in Entities, NEW rid, NEW pos \in Int, NEW teleport \in BOOLEAN
  PROVE  LET e2 == ReceivePosition(e, rid, pos, teleport)
         IN  e2 \in Entities /\ Settles(e2) /\ e2.history = e.history
<1> DEFINE left == IF teleport THEN 1
                   ELSE IF rid \in Players THEN EntityPlayerInterpolationTicks ELSE EntityMobInterpolationTicks
           e2 == [e EXCEPT !.recv = pos, !.interpolation = left]
<1>1. left \in 1..EntityMobInterpolationTicks
  BY DEF EntityPlayerInterpolationTicks, EntityMobInterpolationTicks
<1>2. ReceivePosition(e, rid, pos, teleport) = e2
  BY DEF ReceivePosition
<1> HIDE DEF left
<1>3. left \in -1..EntityMobInterpolationTicks /\ ~(left < 0)
  BY <1>1 DEF EntityMobInterpolationTicks
<1>4. e2 \in Entities /\ e2.interpolation = left /\ e2.history = e.history
  BY <1>3 DEF Entities
<1> QED
  BY <1>2, <1>3, <1>4 DEF Settles

LEMMA NewSettles ==
  ASSUME NEW pos \in Int
  PROVE  /\ NewEntity(pos) \in Entities /\ Settles(NewEntity(pos))
         /\ Holds(NewEntity(pos).history, <<>>)
BY NewQueue DEF NewEntity, Entities, Settles, EntityMobInterpolationTicks

-----------------------------------------------------------------------------
(* the actions *)

\* AddActor, AddPlayer: an empty history and an empty record of it.
LEMMA AddEntityKeeps ==
  ASSUME IInv, NEW rid \in RuntimeIDs, NEW pos \in Positions, AddEntity(rid, pos)
  PROVE  IInv'
<1>1. pos \in Int
  BY TrackerAssumption
<1>2. /\ moves' \in 0..MaxMoves /\ serverTick' = serverTick /\ log' = [log EXCEPT ![rid] = <<>>]
      /\ entities' = [r \in Tracked \cup {rid} |-> IF r = rid THEN NewEntity(pos) ELSE entities[r]]
  BY TrackerAssumption DEF AddEntity, IInv
<1>3. Tracked' = Tracked \cup {rid}
  BY <1>2 DEF Tracked
<1>4. \A r \in Tracked' : /\ entities'[r] = IF r = rid THEN NewEntity(pos) ELSE entities[r]
                          /\ log'[r] = IF r = rid THEN <<>> ELSE log[r]
  BY <1>2, <1>3 DEF IInv
<1>5. entities' \in [Tracked' -> Entities]
  BY <1>1, <1>2, <1>3, NewSettles DEF IInv
<1>6. ASSUME NEW r \in Tracked'
      PROVE  Holds(entities'[r].history, log'[r]) /\ Settles(entities'[r])
  <2>1. CASE r = rid
    BY <1>1, <1>4, <2>1, NewSettles
  <2>2. CASE r # rid
    BY <1>3, <1>4, <2>2 DEF IInv
  <2> QED
    BY <2>1, <2>2
<1> QED
  BY <1>2, <1>3, <1>5, <1>6 DEF IInv, Holds, Settles, Slot

\* RemoveActor and a transfer: fewer entities.
LEMMA RemoveEntityKeeps ==
  ASSUME IInv, NEW uid \in RuntimeIDs, RemoveEntity(uid)
  PROVE  IInv'
<1>1. /\ moves' \in 0..MaxMoves /\ serverTick' = serverTick
      /\ log' = [r \in RuntimeIDs |-> IF r = uid THEN <<>> ELSE log[r]]
      /\ entities' = [r \in Tracked \ {uid} |-> entities[r]]
  BY TrackerAssumption DEF RemoveEntity, IInv
<1>2. Tracked' = Tracked \ {uid}
  BY <1>1 DEF Tracked
<1>3. entities' \in [Tracked' -> Entities]
  BY <1>1, <1>2 DEF IInv
<1>4. ASSUME NEW r \in Tracked'
      PROVE  Holds(entities'[r].history, log'[r]) /\ Settles(entities'[r])
  BY <1>1, <1>2 DEF IInv
<1> QED
  BY <1>1, <1>2, <1>3, <1>4 DEF IInv, Holds, Settles, Slot

\* TransferServerConn: none.
LEMMA TransferKeeps ==
  ASSUME IInv, TransferServerConn
  PROVE  IInv'
<1>1. /\ moves' \in 0..MaxMoves /\ serverTick' = serverTick /\ log' = [r \in RuntimeIDs |-> <<>>]
      /\ entities' = [r \in {} |-> NewEntity(0)]
  BY TrackerAssumption DEF TransferServerConn, IInv
<1>2. Tracked' = {}
  BY <1>1 DEF Tracked
<1>3. entities' \in [Tracked' -> Entities]
  BY <1>1, <1>2
<1> QED
  BY <1>1, <1>2, <1>3 DEF IInv

\* MoveActorAbsolute, MovePlayer: a new end point; what was recorded stays.
LEMMA MoveEntityKeeps ==
  ASSUME IInv, NEW rid \in RuntimeIDs, NEW pos \in Positions, NEW teleport \in BOOLEAN,
         MoveEntity(rid, pos, teleport)
  PROVE  IInv'
<1> DEFINE feet == IF rid \in Players THEN pos - DefaultPlayerHeightOffset ELSE pos
           e2 == ReceivePosition(entities[rid], rid, feet, teleport)
<1>1. feet \in Int /\ rid \in Tracked
  BY TrackerAssumption DEF DefaultPlayerHeightOffset, MoveEntity
<1>2. /\ moves' \in 0..MaxMoves /\ UNCHANGED <<serverTick, log>>
      /\ entities' = [entities EXCEPT ![rid] = e2]
  BY TrackerAssumption DEF MoveEntity, IInv
<1> HIDE DEF feet
<1>3. e2 \in Entities /\ Settles(e2) /\ e2.history = entities[rid].history
  BY <1>1, MoveSettles DEF IInv
<1> HIDE DEF e2
<1>4. Tracked' = Tracked
  BY <1>2 DEF Tracked, IInv
<1>5. entities' \in [Tracked' -> Entities]
  BY <1>2, <1>3, <1>4 DEF IInv
<1>6. ASSUME NEW r \in Tracked'
      PROVE  Holds(entities'[r].history, log'[r]) /\ Settles(entities'[r])
  <2>1. CASE r = rid
    <3>1. entities'[r] = e2
      BY <1>1, <1>2, <2>1 DEF IInv
    <3> QED
      BY <1>1, <1>2, <1>3, <2>1, <3>1 DEF IInv
  <2>2. CASE r # rid
    BY <1>2, <1>4, <2>2 DEF IInv
  <2> QED
    BY <2>1, <2>2
<1> QED
  BY <1>2, <1>4, <1>5, <1>6 DEF IInv, Holds, Settles, Slot

\* Player.Tick records one position for each entity.
LEMMA TickAllKeeps ==
  ASSUME IInv, NEW steps \in 1..2, TickAll(steps)
  PROVE  IInv'
<1> DEFINE t == serverTick + steps
           Item(r) == [pos |-> interpolate(entities[r]), prev |-> entities[r].pos, tick |-> t]
<1>1. t \in 0..MaxTick /\ serverTick' = t /\ moves' = moves
  BY TrackerAssumption DEF TickAll, IInv
<1>2. entities' = [r \in Tracked |-> TickEntity(entities[r], t)]
  BY <1>1 DEF TickAll
<1>3. log' = [r \in RuntimeIDs |-> IF r \in Tracked THEN Recorded(log[r], Item(r)) ELSE <<>>]
  BY <1>1 DEF TickAll, Recorded
<1>4. ASSUME NEW r \in Tracked
      PROVE  /\ TickEntity(entities[r], t) \in Entities
             /\ Settles(TickEntity(entities[r], t))
             /\ Holds(TickEntity(entities[r], t).history, Recorded(log[r], Item(r)))
  <2>1. entities[r] \in Entities /\ Settles(entities[r]) /\ Holds(entities[r].history, log[r])
    BY DEF IInv
  <2> HIDE DEF t
  <2> QED
    BY <1>1, <2>1, TickSettles
<1> HIDE DEF t, Item
<1>5. Tracked' = Tracked
  BY <1>2 DEF Tracked
<1>6. entities' \in [Tracked' -> Entities]
  BY <1>2, <1>4, <1>5
<1>7. ASSUME NEW r \in Tracked'
      PROVE  Holds(entities'[r].history, log'[r]) /\ Settles(entities'[r])
  <2>1. r \in Tracked /\ r \in RuntimeIDs
    BY <1>5 DEF IInv
  <2>2. entities'[r] = TickEntity(entities[r], t) /\ log'[r] = Recorded(log[r], Item(r))
    BY <1>2, <1>3, <2>1
  <2> QED
    BY <1>4, <2>1, <2>2
<1> QED
  BY <1>1, <1>3, <1>5, <1>6, <1>7 DEF IInv, Holds, Settles, Slot

-----------------------------------------------------------------------------
\* Nothing is tracked at first.
LEMMA Initially == Init => IInv
<1> SUFFICES ASSUME Init PROVE IInv
  OBVIOUS
<1>1. Tracked = {}
  BY DEF Init, Tracked
<1> QED
  BY <1>1, TrackerAssumption DEF Init, IInv

\* Every packet and every tick keeps the invariant.
LEMMA Invariance == IInv /\ [Next]_vars => IInv'
<1> SUFFICES ASSUME IInv, [Next]_vars PROVE IInv'
  OBVIOUS
<1>1. CASE \E rid \in RuntimeIDs, pos \in Positions : AddEntity(rid, pos)
  BY <1>1, AddEntityKeeps
<1>2. CASE \E uid \in RuntimeIDs : RemoveEntity(uid)
  BY <1>2, RemoveEntityKeeps
<1>3. CASE \E rid \in RuntimeIDs, pos \in Positions, teleport \in BOOLEAN : MoveEntity(rid, pos, teleport)
  BY <1>3, MoveEntityKeeps
<1>4. CASE \E steps \in 1..2 : TickAll(steps)
  BY <1>4, TickAllKeeps
<1>5. CASE TransferServerConn
  BY <1>5, TransferKeeps
<1>6. CASE UNCHANGED vars
  BY <1>6 DEF vars, IInv, Tracked, Holds, Settles, Slot
<1> QED
  BY <1>1, <1>2, <1>3, <1>4, <1>5, <1>6 DEF Next

\* Entity.Tick, ReceivePosition: an entity whose interpolation has run out is where the server put it.
THEOREM EntitiesSettle == Spec => []SettledWhereReceived
<1>1. Init => IInv
  BY Initially
<1>2. IInv /\ [Next]_vars => IInv'
  BY Invariance
<1>3. IInv => SettledWhereReceived
  BY DEF IInv, Settles, SettledWhereReceived
<1> QED
  BY <1>1, <1>2, <1>3, PTL DEF Spec

\* utils.CircularQueue: the walk over the ring.
LEMMA WalkFollows == IInv => BufferHoldsRecent
<1> SUFFICES ASSUME IInv, NEW r \in Tracked, NEW i \in 1..HistorySize
             PROVE  Items(entities[r].history)[i] =
                      IF i > HistorySize - Len(log[r])
                      THEN log[r][i - (HistorySize - Len(log[r]))] ELSE NoPosition
  BY DEF BufferHoldsRecent
<1> DEFINE q == entities[r].history
           k == HistorySize + 1 - i
           n == Len(log[r])
<1>1. q \in Queues /\ Holds(q, log[r])
  BY DEF IInv, Entities
<1> HIDE DEF q
<1>2. /\ q.tail \in Slots /\ q.head = q.tail /\ q.size = HistorySize
      /\ n \in 0..HistorySize /\ k \in 1..HistorySize
  BY <1>1, TrackerAssumption DEF Queues, Holds
<1>3. q.head + i - 1 \in 0..(2 * HistorySize - 1)
  BY <1>2, TrackerAssumption DEF Slots
<1>4. (q.head + i - 1) % HistorySize = Slot(q, k)
  <2>1. q.tail \in 0..(HistorySize - 1) /\ HistorySize \in Nat \ {0}
    BY <1>2, TrackerAssumption DEF Slots
  <2>2. (q.head + i - 1) % HistorySize
          = IF q.head + i - 1 < HistorySize THEN q.head + i - 1 ELSE q.head + i - 1 - HistorySize
    <3> DEFINE x == q.head + i - 1
    <3>1. x \in 0..(2 * HistorySize - 1)
      BY <1>3
    <3> HIDE DEF x
    <3>2. x % HistorySize = IF x < HistorySize THEN x ELSE x - HistorySize
      BY <2>1, <3>1, Wrap
    <3> QED
      BY <1>2, <2>1, <3>2 DEF x
  <2>3. Slot(q, k) = IF q.tail + i - 1 < HistorySize THEN q.tail + i - 1 ELSE q.tail + i - 1 - HistorySize
    BY <2>1 DEF Slot
  <2> QED
    BY <1>2, <2>2, <2>3
<1>5. Items(q)[i] = q.items[Slot(q, k)]
  BY <1>2, <1>4 DEF Items
<1>6. q.items[Slot(q, k)] = IF k <= n THEN log[r][n + 1 - k] ELSE NoPosition
  BY <1>1, <1>2 DEF Holds
<1>7. (k <= n <=> i > HistorySize - n) /\ n + 1 - k = i - (HistorySize - n)
  <2> HIDE DEF n
  <2>1. n \in Nat /\ HistorySize \in Nat
    BY <1>2, TrackerAssumption
  <2>2. k <= n <=> i > HistorySize - n
    BY <2>1
  <2>3. n + 1 - k = i - (HistorySize - n)
    BY <2>1
  <2> QED
    BY <2>2, <2>3
<1> QED
  BY <1>5, <1>6, <1>7 DEF q

\* utils.CircularQueue, Entity.UpdatePosition: whatever its size, the buffer Rewind searches holds the
\* positions recorded last, in the order of their ticks, and before them only zero entries.
THEOREM BufferKept == Spec => []BufferHoldsRecent
<1>1. Init => IInv
  BY Initially
<1>2. IInv /\ [Next]_vars => IInv'
  BY Invariance
<1>3. IInv => BufferHoldsRecent
  BY WalkFollows
<1> QED
  BY <1>1, <1>2, <1>3, PTL DEF Spec

-----------------------------------------------------------------------------
(* Rewind *)

\* A non-empty set of natural numbers has a least element: what the induction over the
\* turns of the loop rests on.
LEMMA LeastNatural ==
  ASSUME NEW T \in SUBSET Nat, T # {}
  PROVE  \E n \in T : \A k \in T : n <= k
<1> DEFINE R == OpToRel(<, Nat)
<1>1. IsWellFoundedOn(R, Nat)
  BY NatLessThanWellFounded
<1>2. \A x, y \in Nat : <<x, y>> \in R <=> x < y
  BY DEF OpToRel
<1> HIDE DEF R
<1>3. PICK n \in T : \A k \in T : ~(<<k, n>> \in R)
  BY <1>1, WFMin
<1>4. \A k \in T : n <= k
  <2> TAKE k \in T
  <2>1. k \in Nat /\ n \in Nat /\ ~(k < n)
    BY <1>2, <1>3
  <2> QED BY <2>1
<1> QED BY <1>4

\* h is where the loop is after each of the first n entries.
IsSearch(h, hps, n, tick) ==
  h = [i \in 0..n |-> IF i = 0 THEN NothingFound ELSE rewindStep(h[i - 1], hps[i], tick)]

\* There is such a function for every number of entries.
LEMMA SearchExists ==
  ASSUME NEW hps, NEW tick
  PROVE  \A n \in Nat : \E h : IsSearch(h, hps, n, tick)
<1> DEFINE has(n) == \E h : IsSearch(h, hps, n, tick)
           without == {n \in Nat : ~has(n)}
<1>1. SUFFICES ASSUME without # {} PROVE FALSE
  OBVIOUS
<1>2. PICK n \in without : \A k \in without : n <= k
  BY <1>1, LeastNatural
<1>3. n # 0
  <2> DEFINE h == [i \in 0..0 |-> NothingFound]
  <2>1. h = [i \in 0..0 |-> IF i = 0 THEN NothingFound ELSE rewindStep(h[i - 1], hps[i], tick)]
    OBVIOUS
  <2>2. IsSearch(h, hps, 0, tick)
    BY <2>1 DEF IsSearch
  <2> QED BY <2>2, <1>2
<1>4. n - 1 \in Nat /\ n \in Nat
  BY <1>2, <1>3
<1>5. has(n - 1)
  <2> SUFFICES ASSUME ~has(n - 1) PROVE FALSE
    OBVIOUS
  <2>1. n - 1 \in without
    BY <1>4
  <2> HIDE DEF without
  <2>2. n <= n - 1
    BY <1>2, <2>1
  <2> QED BY <1>4, <2>2
<1>6. PICK f : IsSearch(f, hps, n - 1, tick)
  BY <1>5
<1> DEFINE g == [i \in 0..n |-> IF i = n THEN rewindStep(f[n - 1], hps[n], tick) ELSE f[i]]
           body(i) == IF i = 0 THEN NothingFound ELSE rewindStep(g[i - 1], hps[i], tick)
<1>7. \A i \in 0..(n - 1) : f[i] = IF i = 0 THEN NothingFound ELSE rewindStep(f[i - 1], hps[i], tick)
  BY <1>6 DEF IsSearch
<1>8. ASSUME NEW i \in 0..n PROVE g[i] = body(i)
  <2>1. CASE i = n
    <3>1. g[n - 1] = f[n - 1]
      BY <1>4
    <3> QED BY <1>3, <2>1, <3>1
  <2>2. CASE i # n
    <3>1. i \in 0..(n - 1)
      BY <1>4, <2>2
    <3>2. g[i] = f[i]
      BY <2>2
    <3>3. CASE i = 0
      BY <1>7, <3>1, <3>2, <3>3
    <3>4. CASE i # 0
      <4>1. g[i - 1] = f[i - 1]
        BY <1>4, <3>1, <3>4
      <4> QED BY <1>7, <3>1, <3>2, <3>4, <4>1
    <3> QED BY <3>3, <3>4
  <2> QED BY <2>1, <2>2
<1>9. g = [i \in 0..n |-> body(i)]
  BY <1>8
<1>10. has(n)
  BY <1>9 DEF IsSearch
<1> QED BY <1>2, <1>10

LEMMA SearchIs ==
  ASSUME NEW hps, NEW size \in Nat, NEW tick
  PROVE  \E h : IsSearch(h, hps, size, tick) /\ Search(hps, size, tick) = h[size]
<1> DEFINE search == CHOOSE h : IsSearch(h, hps, size, tick)
<1>1. IsSearch(search, hps, size, tick)
  BY SearchExists
<1>2. Search(hps, size, tick) = search[size]
  BY DEF Search, IsSearch
<1> QED BY <1>1, <1>2

\* Zero entries up to the empty-th, and then recorded ones in the order of their ticks.
Walk(hps, size, empty) ==
  /\ \A i \in 1..size : hps[i] \in Entry
  /\ \A i \in 1..empty : hps[i].tick = 0
  /\ \A i \in (empty + 1)..size : hps[i].tick \in Nat \ {0}
  /\ \A i, j \in (empty + 1)..size : i < j => hps[i].tick < hps[j].tick

\* The k-th entry is no further from the tick than those from empty + 1 to n.
Nearest(hps, tick, k, empty, n) ==
  \A i \in (empty + 1)..n : Distance(hps[k].tick, tick) <= Distance(hps[i].tick, tick)

\* What the loop knows after n entries: as long as it goes on, the last one is the nearest,
\* and when it has stopped none of those to come is nearer.
Found == [best : Entry, found : BOOLEAN, done : BOOLEAN]
Sees(acc, hps, tick, empty, n, size) ==
  \/ n <= empty /\ ~acc.found /\ ~acc.done
  \/ /\ n > empty /\ acc.found
     /\ \E k \in (empty + 1)..n : /\ acc.best = hps[k]
                                  /\ Nearest(hps, tick, k, empty, IF acc.done THEN size ELSE n)
                                  /\ ~acc.done => k = n

Knows(acc, hps, tick, empty, n, size) == acc \in Found /\ Sees(acc, hps, tick, empty, n, size)

LEMMA DistanceTyped == ASSUME NEW a \in Int, NEW b \in Int PROVE Distance(a, b) \in Nat
BY DEF Distance

\* One turn of the loop.
LEMMA StepKnows ==
  ASSUME NEW hps, NEW tick \in Int, NEW size \in Nat, NEW empty \in 0..size, Walk(hps, size, empty),
         NEW n \in 1..size, NEW acc, Knows(acc, hps, tick, empty, n - 1, size)
  PROVE  Knows(rewindStep(acc, hps[n], tick), hps, tick, empty, n, size)
<1> DEFINE hp == hps[n]
           end == rewindStep(acc, hp, tick)
           D(i) == Distance(hps[i].tick, tick)
<1>0. \A i \in (empty + 1)..size : hps[i].tick \in Nat \ {0} /\ D(i) \in Nat
  <2> TAKE i \in (empty + 1)..size
  <2>1. hps[i].tick \in Nat \ {0}
    BY DEF Walk
  <2>2. hps[i].tick \in Int
    BY <2>1
  <2> QED BY <2>1, <2>2, DistanceTyped
<1>9. hp \in Entry /\ acc \in Found
  BY DEF Walk, Knows
<1>1. CASE n <= empty
  <2>1. hp.tick = 0 /\ n - 1 <= empty
    BY <1>1 DEF Walk
  <2>2. ~acc.found /\ ~acc.done
    BY <2>1 DEF Knows, Sees
  <2>3. end = acc
    BY <2>1 DEF rewindStep
  <2> QED BY <1>1, <2>2, <2>3 DEF Knows, Sees
<1>2. CASE n > empty
  <2>0. n \in (empty + 1)..size /\ hp.tick \in Nat \ {0} /\ hp.tick # 0
    BY <1>0, <1>2
  <2>1. CASE acc.done
    <3>1. end = acc
      BY <2>1 DEF rewindStep
    <3>2. acc.found /\ n - 1 > empty
      BY <2>1 DEF Knows, Sees
    <3>3. PICK k \in (empty + 1)..(n - 1) : acc.best = hps[k] /\ Nearest(hps, tick, k, empty, size)
      BY <2>1, <3>2 DEF Knows, Sees
    <3>4. k \in (empty + 1)..n
      OBVIOUS
    <3>8. end \in Found
      BY <1>9, <3>1 DEF Found
    <3>9. Sees(end, hps, tick, empty, n, size)
      BY <1>2, <2>1, <3>1, <3>2, <3>3, <3>4 DEF Sees
    <3> QED BY <3>8, <3>9 DEF Knows
  <2>2. CASE ~acc.done /\ hp.tick = tick
    <3>1. end = [best |-> hp, found |-> TRUE, done |-> TRUE]
      BY <2>0, <2>2 DEF rewindStep
    <3>2. D(n) = 0
      BY <2>0, <2>2 DEF Distance
    <3>3. Nearest(hps, tick, n, empty, size)
      <4> HIDE DEF D
      <4>1. \A i \in (empty + 1)..size : D(n) <= D(i)
        BY <1>0, <3>2
      <4> QED BY <4>1 DEF Nearest, D
    <3>8. end \in Found
      BY <1>9, <3>1 DEF Found
    <3>9. Sees(end, hps, tick, empty, n, size)
      BY <1>2, <2>0, <3>1, <3>3 DEF Sees
    <3> QED BY <3>8, <3>9 DEF Knows
  <2>3. CASE ~acc.done /\ hp.tick # tick /\ ~acc.found
    <3>1. end = [best |-> hp, found |-> TRUE, done |-> FALSE]
      BY <2>0, <2>3 DEF rewindStep
    <3>2. n = empty + 1
      BY <1>2, <2>3 DEF Knows, Sees
    <3>3. Nearest(hps, tick, n, empty, n)
      <4> HIDE DEF D
      <4>1. \A i \in (empty + 1)..n : D(n) <= D(i)
        BY <1>0, <2>0, <3>2
      <4> QED BY <4>1 DEF Nearest, D
    <3>8. end \in Found
      BY <1>9, <3>1 DEF Found
    <3>9. Sees(end, hps, tick, empty, n, size)
      BY <1>2, <2>0, <3>1, <3>3 DEF Sees
    <3> QED BY <3>8, <3>9 DEF Knows
  <2>4. CASE ~acc.done /\ hp.tick # tick /\ acc.found
    <3> DEFINE k == n - 1
    <3>1. k \in (empty + 1)..size /\ acc.best = hps[k] /\ Nearest(hps, tick, k, empty, k) /\ k < n
      BY <2>4 DEF Knows, Sees
    <3>2. hps[k].tick < hps[n].tick
      BY <2>0, <3>1 DEF Walk
    <3>3. CASE D(n) <= D(k)
      <4>1. end = [best |-> hp, found |-> TRUE, done |-> FALSE]
        BY <2>0, <2>4, <3>1, <3>3 DEF rewindStep
      <4>2. Nearest(hps, tick, n, empty, n)
        <5>1. \A i \in (empty + 1)..k : D(k) <= D(i)
          BY <3>1 DEF Nearest
        <5> HIDE DEF D
        <5>2. \A i \in (empty + 1)..n : i \in (empty + 1)..size /\ (i = n \/ i \in (empty + 1)..k)
          OBVIOUS
        <5>3. \A i \in (empty + 1)..n : D(n) <= D(i)
          BY <1>0, <2>0, <3>1, <3>3, <5>1, <5>2
        <5> QED BY <5>3 DEF Nearest, D
      <4>8. end \in Found
        BY <1>9, <4>1 DEF Found
      <4>9. Sees(end, hps, tick, empty, n, size)
        BY <1>2, <2>0, <4>1, <4>2 DEF Sees
      <4> QED BY <4>8, <4>9 DEF Knows
    <3>4. CASE ~(D(n) <= D(k))
      <4>1. end = [acc EXCEPT !.done = TRUE]
        BY <2>0, <2>4, <3>1, <3>4 DEF rewindStep
      <4>2. hps[n].tick > tick
        BY <1>0, <2>0, <3>1, <3>2, <3>4 DEF Distance
      <4>3. ASSUME NEW i \in (empty + 1)..size PROVE D(k) <= D(i)
        <5>1. CASE i <= k
          BY <3>1, <5>1 DEF Nearest
        <5>2. CASE i > k
          <6>1. hps[n].tick <= hps[i].tick
            <7>1. i = n \/ n < i
              BY <5>2
            <7> QED BY <1>0, <2>0, <7>1 DEF Walk
          <6>2. D(n) <= D(i)
            BY <1>0, <2>0, <4>2, <6>1 DEF Distance
          <6> HIDE DEF D
          <6> QED BY <1>0, <2>0, <3>1, <3>4, <6>2
        <5> QED BY <3>1, <5>1, <5>2
      <4>4. Nearest(hps, tick, k, empty, size)
        BY <4>3 DEF Nearest
      <4>5. k \in (empty + 1)..n
        BY <3>1
      <4>8. end \in Found
        BY <1>9, <4>1 DEF Found
      <4>9. Sees(end, hps, tick, empty, n, size)
        BY <1>2, <2>4, <3>1, <4>1, <4>4, <4>5 DEF Sees
      <4> QED BY <4>8, <4>9 DEF Knows
    <3> QED BY <3>3, <3>4
  <2> QED BY <2>1, <2>2, <2>3, <2>4
<1> QED BY <1>1, <1>2

\* Before the first entry.
LEMMA StartKnows ==
  ASSUME NEW hps, NEW tick \in Int, NEW size \in Nat, NEW empty \in 0..size
  PROVE  Knows(NothingFound, hps, tick, empty, 0, size)
<1>1. NoPosition \in Entry
  BY TrackerAssumption DEF NoPosition, Entry
<1>2. NothingFound \in Found /\ ~NothingFound.found /\ ~NothingFound.done
  BY <1>1 DEF NothingFound, Found
<1> QED BY <1>2 DEF Knows, Sees

\* The whole walk: it ends with the nearest of the recorded entries, or there is none.
LEMMA SearchKnows ==
  ASSUME NEW hps, NEW tick \in Int, NEW size \in Nat, NEW empty \in 0..size, Walk(hps, size, empty)
  PROVE  Knows(Search(hps, size, tick), hps, tick, empty, size, size)
<1>1. PICK h : IsSearch(h, hps, size, tick) /\ Search(hps, size, tick) = h[size]
  BY SearchIs
<1>2. \A n \in 0..size : h[n] = IF n = 0 THEN NothingFound ELSE rewindStep(h[n - 1], hps[n], tick)
  BY <1>1 DEF IsSearch
<1> DEFINE knows(n) == Knows(h[n], hps, tick, empty, n, size)
           without == {n \in 0..size : ~knows(n)}
<1>3. SUFFICES ASSUME without # {} PROVE FALSE
  BY <1>1
<1>4. without \in SUBSET Nat
  OBVIOUS
<1>5. PICK n \in without : \A k \in without : n <= k
  <2> HIDE DEF without
  <2> QED BY <1>3, <1>4, LeastNatural
<1>6. n \in 0..size /\ ~knows(n)
  BY <1>5
<1>7. CASE n = 0
  <2>1. h[n] = NothingFound
    BY <1>2, <1>6, <1>7
  <2> QED BY <1>6, <1>7, <2>1, StartKnows
<1>8. CASE n # 0
  <2>1. n \in 1..size /\ n - 1 \in 0..size
    BY <1>6, <1>8
  <2>2. knows(n - 1)
    <3> SUFFICES ASSUME ~knows(n - 1) PROVE FALSE
      OBVIOUS
    <3>1. n - 1 \in without
      BY <2>1
    <3> HIDE DEF without
    <3>2. n <= n - 1
      BY <1>5, <3>1
    <3> QED BY <2>1, <3>2
  <2>3. h[n] = rewindStep(h[n - 1], hps[n], tick)
    BY <1>2, <1>6, <1>8
  <2>4. Knows(rewindStep(h[n - 1], hps[n], tick), hps, tick, empty, n, size)
    BY <2>1, <2>2, StepKnows
  <2> QED BY <1>6, <2>3, <2>4
<1> QED BY <1>7, <1>8

-----------------------------------------------------------------------------
(* the ticks of the recorded positions *)

\* Recorded after the entity was added, no two in one tick, and none in a tick to come.
Timed(entries, t) ==
  /\ \A i \in 1..Len(entries) : entries[i].tick \in 1..t
  /\ \A i, j \in 1..Len(entries) : i < j => entries[i].tick < entries[j].tick

InTickOrder == \A r \in Tracked : Timed(log[r], serverTick)

\* The tick of an entry that is recorded is later than those before it.
LEMMA RecordedTimed ==
  ASSUME NEW entries \in Seq(Entry), Len(entries) <= HistorySize, NEW t \in Nat, Timed(entries, t),
         NEW item \in Entry, item.tick > t
  PROVE  Timed(Recorded(entries, item), item.tick)
<1> DEFINE all == Append(entries, item)
           n == Len(entries)
<1>1. /\ all \in Seq(Entry) /\ n \in Nat /\ Len(all) = n + 1 /\ item.tick \in Nat
      /\ all[n + 1] = item /\ \A i \in 1..n : all[i] = entries[i]
  BY TrackerAssumption DEF Entry
<1> HIDE DEF all
<1>2. Timed(all, item.tick)
  <2>1. \A i \in 1..(n + 1) : all[i].tick \in 1..item.tick
    <3> TAKE i \in 1..(n + 1)
    <3>1. CASE i = n + 1
      BY <1>1, <3>1
    <3>2. CASE i # n + 1
      <4>1. i \in 1..n
        BY <1>1, <3>2
      <4>2. all[i] = entries[i] /\ entries[i].tick \in 1..t
        BY <1>1, <4>1 DEF Timed
      <4> QED BY <1>1, <4>2
    <3> QED BY <3>1, <3>2
  <2>2. \A i, j \in 1..(n + 1) : i < j => all[i].tick < all[j].tick
    <3> TAKE i, j \in 1..(n + 1)
    <3> HAVE i < j
    <3>1. i \in 1..n /\ all[i] = entries[i] /\ entries[i].tick \in 1..t
      <4>1. i \in 1..n
        BY <1>1
      <4> QED BY <1>1, <4>1 DEF Timed
    <3>2. CASE j = n + 1
      BY <1>1, <3>1, <3>2
    <3>3. CASE j # n + 1
      <4>1. j \in 1..n
        BY <1>1, <3>3
      <4>2. entries[i].tick < entries[j].tick /\ all[j] = entries[j]
        BY <1>1, <3>1, <4>1 DEF Timed
      <4> QED BY <3>1, <4>2
    <3> QED BY <3>2, <3>3
  <2> QED BY <1>1, <2>1, <2>2 DEF Timed
<1>3. Timed(Tail(all), item.tick)
  <2>1. Len(Tail(all)) = n /\ \A i \in 1..n : Tail(all)[i] = all[i + 1]
    BY <1>1
  <2>2. \A i \in 1..n : i + 1 \in 1..Len(all)
    BY <1>1
  <2>3. \A i \in 1..n : Tail(all)[i].tick \in 1..item.tick
    BY <1>2, <2>1, <2>2 DEF Timed
  <2>4. \A i, j \in 1..n : i < j => Tail(all)[i].tick < Tail(all)[j].tick
    <3> TAKE i, j \in 1..n
    <3> HAVE i < j
    <3>1. i + 1 \in 1..Len(all) /\ j + 1 \in 1..Len(all) /\ i + 1 < j + 1
      BY <1>1, <2>2
    <3>2. all[i + 1].tick < all[j + 1].tick
      BY <1>2, <3>1 DEF Timed
    <3> QED BY <2>1, <3>2
  <2> QED BY <2>1, <2>3, <2>4 DEF Timed
<1>4. Recorded(entries, item) = all \/ Recorded(entries, item) = Tail(all)
  BY DEF Recorded, all
<1> QED BY <1>2, <1>3, <1>4

LEMMA NoneTimed == \A t : Timed(<<>>, t)
BY DEF Timed

\* Player.Tick takes a later tick every time, and no handler records anything.
LEMMA OrderKept == IInv /\ InTickOrder /\ [Next]_vars => InTickOrder'
<1> SUFFICES ASSUME IInv, InTickOrder, [Next]_vars, NEW r \in Tracked'
             PROVE  Timed(log'[r], serverTick')
  BY DEF InTickOrder, Timed
<1>0. serverTick \in Nat /\ Tracked \subseteq RuntimeIDs /\ log = [x \in RuntimeIDs |-> log[x]]
  BY TrackerAssumption DEF IInv
<1>1. ASSUME NEW rid \in RuntimeIDs, NEW pos \in Positions, AddEntity(rid, pos)
      PROVE  Timed(log'[r], serverTick')
  <2>1. /\ serverTick' = serverTick /\ log' = [log EXCEPT ![rid] = <<>>]
        /\ r \in Tracked \cup {rid}
    BY <1>1 DEF AddEntity, Tracked
  <2>2. CASE r = rid
    BY <1>0, <1>1, <2>1, <2>2, NoneTimed
  <2>3. CASE r # rid
    BY <1>0, <2>1, <2>3 DEF InTickOrder
  <2> QED BY <2>2, <2>3
<1>2. ASSUME NEW uid \in RuntimeIDs, RemoveEntity(uid)
      PROVE  Timed(log'[r], serverTick')
  BY <1>0, <1>2 DEF RemoveEntity, Tracked, InTickOrder
<1>3. ASSUME NEW rid \in RuntimeIDs, NEW pos \in Positions, NEW teleport \in BOOLEAN,
             MoveEntity(rid, pos, teleport)
      PROVE  Timed(log'[r], serverTick')
  <2> DEFINE feet == IF rid \in Players THEN pos - DefaultPlayerHeightOffset ELSE pos
             e2 == ReceivePosition(entities[rid], rid, feet, teleport)
  <2>1. entities' = [entities EXCEPT ![rid] = e2] /\ serverTick' = serverTick /\ log' = log
    BY <1>3 DEF MoveEntity
  <2> HIDE DEF e2
  <2>2. r \in Tracked
    BY <2>1 DEF Tracked
  <2> QED BY <2>1, <2>2 DEF InTickOrder
<1>4. ASSUME NEW steps \in 1..2, TickAll(steps)
      PROVE  Timed(log'[r], serverTick')
  <2> DEFINE t == serverTick + steps
             item == [pos |-> interpolate(entities[r]), prev |-> entities[r].pos, tick |-> t]
  <2>1. t \in 0..MaxTick /\ t > serverTick /\ serverTick' = t
    BY <1>0, <1>4, TrackerAssumption DEF TickAll
  <2>2. entities' = [x \in Tracked |-> TickEntity(entities[x], serverTick')]
    BY <1>4 DEF TickAll
  <2>3. r \in Tracked /\ r \in RuntimeIDs
    BY <1>0, <2>2 DEF Tracked
  <2>4. log'[r] = Recorded(log[r], item)
    BY <1>4, <2>1, <2>3 DEF TickAll, Recorded
  <2>5. entities[r] \in Entities /\ log[r] \in Seq(Entry) /\ Len(log[r]) <= HistorySize
    BY <2>3 DEF IInv, Holds
  <2>6. entities[r].pos \in Int /\ entities[r].recv \in Int /\ entities[r].interpolation \in -1..6
    BY <2>5 DEF Entities, EntityMobInterpolationTicks
  <2>7. interpolate(entities[r]) \in Int
    BY <2>6 DEF interpolate
  <2> HIDE DEF t
  <2>8. item \in Entry /\ item.tick = t
    BY <2>1, <2>6, <2>7 DEF Entry
  <2> HIDE DEF item
  <2>9. Timed(log[r], serverTick)
    BY <2>3 DEF InTickOrder
  <2>10. item.tick > serverTick
    BY <2>1, <2>8
  <2>11. Timed(Recorded(log[r], item), item.tick)
    BY <1>0, <2>5, <2>8, <2>9, <2>10, RecordedTimed
  <2> QED BY <2>1, <2>4, <2>8, <2>11
<1>5. ASSUME TransferServerConn PROVE Timed(log'[r], serverTick')
  BY <1>5 DEF TransferServerConn, Tracked
<1>6. CASE UNCHANGED vars
  BY <1>6 DEF vars, Tracked, InTickOrder
<1> QED
  BY <1>1, <1>2, <1>3, <1>4, <1>5, <1>6 DEF Next

LEMMA OrderInitially == Init => InTickOrder
BY DEF Init, Tracked, InTickOrder

-----------------------------------------------------------------------------
(* what Rewind answers *)

\* Rewind walks over the zero entries of a ring that is not full yet and then, in the order of
\* their ticks, over the recorded positions.
LEMMA RewindWalks ==
  ASSUME IInv, InTickOrder, NEW r \in Tracked
  PROVE  /\ HistorySize - Len(log[r]) \in 0..HistorySize
         /\ Walk(Items(entities[r].history), HistorySize, HistorySize - Len(log[r]))
         /\ \A i \in (HistorySize - Len(log[r]) + 1)..HistorySize :
               /\ i - (HistorySize - Len(log[r])) \in 1..Len(log[r])
               /\ Items(entities[r].history)[i] = log[r][i - (HistorySize - Len(log[r]))]
<1> DEFINE hps == Items(entities[r].history)
           n == Len(log[r])
           empty == HistorySize - n
<1>1. log[r] \in Seq(Entry) /\ n \in 0..HistorySize /\ HistorySize \in Nat
  BY TrackerAssumption DEF IInv, Holds
<1>2. Timed(log[r], serverTick) /\ serverTick \in Nat
  BY TrackerAssumption DEF InTickOrder, IInv
<1>3. \A i \in 1..HistorySize : hps[i] = IF i > empty THEN log[r][i - empty] ELSE NoPosition
  BY WalkFollows DEF BufferHoldsRecent
<1>4. NoPosition \in Entry /\ NoPosition.tick = 0
  BY TrackerAssumption DEF NoPosition, Entry
<1> HIDE DEF hps
<1>5. \A i \in 1..n : log[r][i] \in Entry
  BY <1>1
<1> HIDE DEF n
<1>6. empty \in 0..HistorySize
  BY <1>1
<1>7. \A i \in (empty + 1)..HistorySize : i - empty \in 1..n /\ hps[i] = log[r][i - empty]
  <2> TAKE i \in (empty + 1)..HistorySize
  <2>1. i - empty \in 1..n /\ i \in 1..HistorySize /\ i > empty
    BY <1>1, <1>6
  <2> QED BY <1>3, <2>1
<1>8. \A i \in 1..empty : hps[i] = NoPosition
  <2> TAKE i \in 1..empty
  <2>1. i \in 1..HistorySize /\ ~(i > empty)
    BY <1>1, <1>6
  <2> QED BY <1>3, <2>1
<1> HIDE DEF empty
<1>9. Walk(hps, HistorySize, empty)
  <2>1. \A i \in 1..HistorySize : i \in 1..empty \/ i \in (empty + 1)..HistorySize
    BY <1>1, <1>6
  <2>2. \A i \in 1..HistorySize : hps[i] \in Entry
    BY <1>4, <1>5, <1>7, <1>8, <2>1
  <2>3. \A i \in 1..empty : hps[i].tick = 0
    BY <1>4, <1>8
  <2>4. \A i \in (empty + 1)..HistorySize : hps[i].tick \in Nat \ {0}
    <3> TAKE i \in (empty + 1)..HistorySize
    <3>1. log[r][i - empty].tick \in 1..serverTick
      BY <1>2, <1>7 DEF Timed, n
    <3> QED BY <1>2, <1>7, <3>1
  <2>5. \A i, j \in (empty + 1)..HistorySize : i < j => hps[i].tick < hps[j].tick
    <3> TAKE i, j \in (empty + 1)..HistorySize
    <3> HAVE i < j
    <3>1. i - empty \in 1..n /\ j - empty \in 1..n /\ i - empty < j - empty
      BY <1>1, <1>6, <1>7
    <3>2. log[r][i - empty].tick < log[r][j - empty].tick
      BY <1>2, <3>1 DEF Timed, n
    <3> QED BY <1>7, <3>2
  <2> QED BY <2>2, <2>3, <2>4, <2>5 DEF Walk
<1> QED BY <1>6, <1>7, <1>9 DEF hps, n, empty

\* Rewind finds a position exactly when one was recorded, and the one nearest to the tick.
LEMMA RewindAnswers ==
  ASSUME IInv, InTickOrder, NEW r \in Tracked, NEW tick \in Int
  PROVE  LET res == Rewind(entities[r], tick)
         IN  /\ res.found = (log[r] # <<>>)
             /\ res.found => /\ res.best \in Range(log[r])
                             /\ \A hp \in Range(log[r]) :
                                   Distance(res.best.tick, tick) <= Distance(hp.tick, tick)
<1> DEFINE hps == Items(entities[r].history)
           n == Len(log[r])
           empty == HistorySize - n
           res == Search(hps, HistorySize, tick)
<1>0. log[r] \in Seq(Entry) /\ Len(log[r]) <= HistorySize
  BY DEF IInv, Holds
<1>1. log[r] \in Seq(Entry) /\ n \in 0..HistorySize /\ HistorySize \in Nat
  BY <1>0, TrackerAssumption
<1>2. empty \in 0..HistorySize /\ Walk(hps, HistorySize, empty)
  BY RewindWalks
<1>3. \A i \in (empty + 1)..HistorySize : i - empty \in 1..n /\ hps[i] = log[r][i - empty]
  BY RewindWalks
<1>4. entities[r].history.size = HistorySize
  BY DEF IInv, Entities, Queues
<1>5. Rewind(entities[r], tick) = res
  BY <1>4 DEF Rewind
<1>6. Range(log[r]) = {log[r][i] : i \in 1..n}
  BY <1>1 DEF Range
<1>7. log[r] # <<>> <=> n # 0
  BY <1>1
<1> HIDE DEF hps
<1>8. Knows(res, hps, tick, empty, HistorySize, HistorySize)
  <2> HIDE DEF empty
  <2> QED BY <1>1, <1>2, SearchKnows
<1> HIDE DEF res, n
<1>9. empty < HistorySize <=> n # 0
  BY <1>1
<1>10. \A i \in 1..n : i + empty \in (empty + 1)..HistorySize /\ hps[i + empty] = log[r][i]
  <2> TAKE i \in 1..n
  <2>1. i + empty \in (empty + 1)..HistorySize /\ (i + empty) - empty = i
    BY <1>1, <1>2
  <2> QED BY <1>3, <2>1
<1> HIDE DEF empty
<1>11. res \in Found /\ res.found \in BOOLEAN
  BY <1>8 DEF Knows, Found
<1>12. res.found = (n # 0)
  BY <1>1, <1>2, <1>8, <1>9, <1>11 DEF Knows, Sees
<1>13. ASSUME res.found
       PROVE  /\ res.best \in Range(log[r])
              /\ \A hp \in Range(log[r]) : Distance(res.best.tick, tick) <= Distance(hp.tick, tick)
  <2>1. PICK k \in (empty + 1)..HistorySize :
               res.best = hps[k] /\ Nearest(hps, tick, k, empty, HistorySize)
    BY <1>8, <1>13 DEF Knows, Sees
  <2>2. res.best \in Range(log[r])
    BY <1>3, <1>6, <2>1
  <2>3. ASSUME NEW hp \in Range(log[r])
        PROVE  Distance(res.best.tick, tick) <= Distance(hp.tick, tick)
    <3>1. PICK i \in 1..n : hp = log[r][i]
      BY <1>6
    <3>2. Distance(hps[k].tick, tick) <= Distance(hps[i + empty].tick, tick)
      BY <1>10, <2>1 DEF Nearest
    <3> QED BY <1>10, <2>1, <3>1, <3>2
  <2> QED BY <2>2, <2>3
<1> QED BY <1>5, <1>7, <1>12, <1>13

\* What is recorded and where the walk stands, for every variable.
LEMMA Typed == IInv => TypeOK
<1> SUFFICES ASSUME IInv PROVE TypeOK
  OBVIOUS
<1>1. ASSUME NEW r \in Tracked
      PROVE  /\ entities[r].pos \in Int /\ entities[r].recv \in Int
             /\ entities[r].interpolation \in -1..EntityMobInterpolationTicks
             /\ QueueTyped(entities[r].history)
  BY DEF IInv, Entities, Queues, QueueTyped, Slots, Entry
<1> QED BY <1>1 DEF IInv, TypeOK

\* README, Entity.Rewind: for every size of the buffer and every tick, Rewind finds a position exactly
\* when the entity was ticked since it was added, one that was recorded, and none of those still in the
\* buffer is nearer to the tick; every variable keeps its type.
THEOREM RewindFindsNearest == Spec => []RewindNearest
<1>1. Init => IInv /\ InTickOrder
  BY Initially, OrderInitially
<1>2. IInv /\ InTickOrder /\ [Next]_vars => IInv' /\ InTickOrder'
  BY Invariance, OrderKept
<1>3. IInv /\ InTickOrder => RewindNearest
  <2> SUFFICES ASSUME IInv, InTickOrder, NEW r \in Tracked, NEW tick \in 0..(MaxTick + 1)
               PROVE  LET res == Rewind(entities[r], tick)
                      IN  /\ res.found = (log[r] # <<>>)
                          /\ res.found => /\ res.best \in Range(log[r])
                                          /\ \A hp \in Range(log[r]) :
                                                Distance(res.best.tick, tick) <= Distance(hp.tick, tick)
    BY Typed DEF RewindNearest
  <2>1. tick \in Int
    BY TrackerAssumption
  <2> QED BY <2>1, RewindAnswers
<1> QED
  BY <1>1, <1>2, <1>3, PTL DEF Spec
=============================================================================
