--------------------------- MODULE ChunkCacheProofs ---------------------------
(***************************************************************************)
(* For any number of players, positions, payloads and radii, whichever     *)
(* handlers of others run between the steps of one: CleanChunks takes      *)
(* nothing a player has still to arrive at; the count of every entry of    *)
(* the caches is the number of references to it; and a player reads what   *)
(* its own backend sent.                                                   *)
(***************************************************************************)
EXTENDS ChunkCache, FiniteSetTheorems, TLAPS

Stages == {"near", "ahead", "behind"}
IsWorld(w) ==
  w \in [chunks : {w.chunks}, subChunks : {w.subChunks}, exempted : {w.exempted},
         lastCleanPos : {w.lastCleanPos}]
IsSent(v) == v \in [sent : {TRUE}, layers : {v.layers}, stage : Stages]
IsView(v) == v = Nowhere \/ IsSent(v)
IsViews(vs) == vs = [c \in Positions |-> vs[c]] /\ \A c \in Positions : IsView(vs[c])

\* A chunk the player was near, or is to come to, is there; one that it is to come to is exempt.
Kept(w, vs) ==
  \A c \in Positions : vs[c].sent /\ vs[c].stage # "behind" =>
    /\ c \in DOMAIN w.chunks
    /\ vs[c].stage = "ahead" => c \in w.exempted

Good(w, vs) == IsWorld(w) /\ IsViews(vs) /\ Kept(w, vs)

IInv ==
  /\ world = [p \in Players |-> world[p]] /\ view = [p \in Players |-> view[p]]
  /\ \A p \in Players : Good(world[p], view[p])

-----------------------------------------------------------------------------
(* the operations of world.go *)

\* removeChunk of several chunks.
LEMMA WithoutWorld ==
  ASSUME NEW w, IsWorld(w), NEW cs
  PROVE  /\ IsWorld(Without(w, cs)) /\ DOMAIN Without(w, cs).chunks = DOMAIN w.chunks \ cs
         /\ Without(w, cs).exempted = w.exempted
BY DEF IsWorld, Without, Restrict

\* AddChunk, once nothing is there.
LEMMA AddChunkWorld ==
  ASSUME NEW w, IsWorld(w), NEW c, NEW info
  PROVE  /\ IsWorld(AddChunk(w, c, info))
         /\ AddChunk(w, c, info).chunks = Put(w.chunks, c, info)
         /\ DOMAIN AddChunk(w, c, info).chunks = DOMAIN w.chunks \union {c}
         /\ AddChunk(w, c, info).subChunks = w.subChunks
         /\ AddChunk(w, c, info).exempted = w.exempted \union {c}
BY DEF IsWorld, AddChunk, Put

\* AddSubChunk, after a layer of the chunk was written.
LEMMA AddSubChunkWorld ==
  ASSUME NEW w, IsWorld(w), NEW c, NEW hash, NEW new, NEW l, NEW sub
  PROVE  LET x == AddSubChunk(WriteWorld(w, new, c, l, sub), c, hash)
         IN  IsWorld(x) /\ DOMAIN x.chunks = DOMAIN w.chunks /\ x.exempted = w.exempted
<1> DEFINE y == WriteWorld(w, new, c, l, sub)
<1>1. IsWorld(y) /\ DOMAIN y.chunks = DOMAIN w.chunks /\ y.exempted = w.exempted
  <2>1. CASE c \notin DOMAIN new /\ ~w.chunks[c].cached
    <3> DEFINE ch == [w.chunks EXCEPT ![c].layers[l] = sub]
    <3>1. y = [w EXCEPT !.chunks = ch] /\ DOMAIN ch = DOMAIN w.chunks
      BY <2>1 DEF WriteWorld
    <3> HIDE DEF ch
    <3> QED
      BY <3>1 DEF IsWorld
  <2>2. CASE ~(c \notin DOMAIN new /\ ~w.chunks[c].cached)
    BY <2>2 DEF WriteWorld
  <2> QED
    BY <2>1, <2>2
<1> HIDE DEF y
<1>2. AddSubChunk(y, c, hash) = [y EXCEPT !.subChunks = AddSubChunk(y, c, hash).subChunks]
  BY <1>1 DEF AddSubChunk, IsWorld
<1>3. /\ IsWorld(AddSubChunk(y, c, hash)) /\ AddSubChunk(y, c, hash).chunks = y.chunks
      /\ AddSubChunk(y, c, hash).exempted = y.exempted
  BY <1>1, <1>2 DEF IsWorld
<1> QED
  BY <1>1, <1>3 DEF y

\* CleanChunks: what a player has seen of a chunk decides with where it goes whether it stays.
LEMMA CleanKeeps ==
  ASSUME NEW w, NEW vs, Good(w, vs), NEW r, NEW at
  PROVE  LET v2 == [c \in Positions |-> Passed(vs[c], c, r, at)]
         IN  Good(w, v2) /\ Good(Without(Cleaned(w, r, at), OutOfRange(w, r, at)), v2)
<1> DEFINE v2 == [c \in Positions |-> Passed(vs[c], c, r, at)]
           x == Without(Cleaned(w, r, at), OutOfRange(w, r, at))
<1>1. IsWorld(w) /\ IsViews(vs) /\ Kept(w, vs)
  BY DEF Good
<1>2. /\ IsWorld(Cleaned(w, r, at)) /\ Cleaned(w, r, at).chunks = w.chunks
      /\ Cleaned(w, r, at).exempted = {c \in w.exempted : c \in DOMAIN w.chunks => ~InRange(r, c, at)}
  BY <1>1 DEF IsWorld, Cleaned
<1>3. /\ IsWorld(x) /\ DOMAIN x.chunks = DOMAIN w.chunks \ OutOfRange(w, r, at)
      /\ x.exempted = {c \in w.exempted : c \in DOMAIN w.chunks => ~InRange(r, c, at)}
  BY <1>2, WithoutWorld
<1> HIDE DEF x
<1>4. ASSUME NEW c \in Positions
      PROVE  /\ IsView(v2[c])
             /\ v2[c].sent /\ v2[c].stage # "behind" =>
                  /\ vs[c].sent /\ vs[c].stage # "behind"
                  /\ v2[c].stage = "near" => InRange(r, c, at)
                  /\ v2[c].stage = "ahead" => vs[c].stage = "ahead" /\ ~InRange(r, c, at)
  <2>1. v2[c] = Passed(vs[c], c, r, at) /\ IsView(vs[c])
    BY <1>1 DEF IsViews
  <2>2. CASE ~vs[c].sent \/ vs[c].stage = "behind"
    BY <2>1, <2>2 DEF Passed
  <2>3. CASE vs[c].sent /\ vs[c].stage # "behind"
    <3> DEFINE st == IF InRange(r, c, at) THEN "near" ELSE IF vs[c].stage = "near" THEN "behind" ELSE vs[c].stage
    <3>0. vs[c] # Nowhere
      BY <2>3 DEF Nowhere
    <3>1. IsSent(vs[c])
      BY <2>1, <3>0 DEF IsView
    <3>2. v2[c] = [vs[c] EXCEPT !.stage = st]
      BY <2>1, <2>3 DEF Passed
    <3>3. st \in Stages /\ (st = "near" => InRange(r, c, at))
          /\ (st = "ahead" => vs[c].stage = "ahead" /\ ~InRange(r, c, at))
      BY <3>1 DEF IsSent, Stages
    <3> HIDE DEF st
    <3>4. v2[c] = [sent |-> TRUE, layers |-> vs[c].layers, stage |-> st]
      BY <3>1, <3>2 DEF IsSent
    <3> HIDE DEF v2
    <3> QED
      BY <2>3, <3>3, <3>4 DEF IsView, IsSent
  <2> QED
    BY <2>2, <2>3
<1>5. v2 = [c \in Positions |-> v2[c]]
  OBVIOUS
<1> HIDE DEF v2
<1>6. IsViews(v2)
  BY <1>4, <1>5 DEF IsViews
<1>7. Kept(w, v2)
  BY <1>1, <1>4 DEF Kept
<1>8. Kept(x, v2)
  <2> SUFFICES ASSUME NEW c \in Positions, v2[c].sent, v2[c].stage # "behind"
               PROVE  c \in DOMAIN x.chunks /\ (v2[c].stage = "ahead" => c \in x.exempted)
    BY DEF Kept
  <2>1. c \in DOMAIN w.chunks /\ (vs[c].stage = "ahead" => c \in w.exempted)
    BY <1>1, <1>4 DEF Kept
  <2>2. v2[c].stage \in {"near", "ahead"}
    <3>1. v2[c] # Nowhere
      BY DEF Nowhere
    <3> QED
      BY <1>4, <3>1 DEF IsView, IsSent, Stages
  <2>3. c \notin OutOfRange(w, r, at)
    BY <1>4, <2>1, <2>2 DEF OutOfRange
  <2> QED
    BY <1>3, <1>4, <2>1, <2>3
<1> QED
  BY <1>1, <1>3, <1>6, <1>7, <1>8 DEF Good, v2, x

-----------------------------------------------------------------------------
(* the actions *)

\* A handler changes one player's world, and what it was sent.
LEMMA OnePlayer ==
  ASSUME IInv, NEW p \in Players, NEW w, NEW vs, Good(w, vs),
         world' = [world EXCEPT ![p] = w], view' = [view EXCEPT ![p] = vs]
  PROVE  IInv'
BY DEF IInv

\* A step that changes neither.
LEMMA NoPlayer == ASSUME IInv, UNCHANGED <<world, view>> PROVE IInv'
BY DEF IInv

\* TransferServerConn and Close's goroutine: nothing is left, of nothing.
LEMMA ForgottenGood ==
  ASSUME IInv, NEW p \in Players, NEW cs
  PROVE  Good(Without(world[p], cs), [c \in Positions |-> Nowhere])
<1>1. IsWorld(world[p])
  BY DEF IInv, Good
<1>2. IsViews([c \in Positions |-> Nowhere])
  BY DEF IsViews, IsView
<1>3. Kept(Without(world[p], cs), [c \in Positions |-> Nowhere])
  BY DEF Kept, Nowhere
<1> QED
  BY <1>1, <1>2, <1>3, WithoutWorld DEF Good

\* One position of a player's view is new, and its chunk is there, exempt if it is ahead.
LEMMA SentGood ==
  ASSUME NEW w, NEW vs, Good(w, vs), NEW x, IsWorld(x), NEW v2, IsViews(v2),
         DOMAIN w.chunks \subseteq DOMAIN x.chunks, w.exempted \subseteq x.exempted,
         \A c \in Positions :
            \/ c \in DOMAIN x.chunks /\ c \in x.exempted
            \/ v2[c].sent = vs[c].sent /\ v2[c].stage = vs[c].stage
  PROVE  Good(x, v2)
BY DEF Good, Kept

\* What was in the place of the chunk of a LevelChunk goes.
LEMMA ReplaceLevelChunkKeeps ==
  ASSUME IInv, NEW p \in Players, ReplaceLevelChunk(p)
  PROVE  IInv'
<1> DEFINE c == task[p].at
           v2 == [view[p] EXCEPT ![c] = Nowhere]
           x == Without(world[p], {c})
<1>1. Good(world[p], view[p]) /\ view = [q \in Players |-> view[q]]
  BY DEF IInv
<1>2. world' = [world EXCEPT ![p] = x] /\ view' = [view EXCEPT ![p] = v2]
  BY <1>1 DEF ReplaceLevelChunk
<1>3. /\ IsWorld(x) /\ DOMAIN x.chunks = DOMAIN world[p].chunks \ {c}
      /\ x.exempted = world[p].exempted
  BY <1>1, WithoutWorld DEF Good
<1> HIDE DEF x
<1>4. IsViews(v2)
  BY <1>1 DEF IsViews, IsView, Good
<1>5. Kept(x, v2)
  BY <1>1, <1>3 DEF Kept, Good, IsViews, Nowhere
<1>6. Good(x, v2)
  BY <1>3, <1>4, <1>5 DEF Good
<1> HIDE DEF v2
<1> QED
  BY <1>2, <1>6, OnePlayer

\* The chunk of a LevelChunk takes its place.
LEMMA AddLevelChunkKeeps ==
  ASSUME IInv, NEW p \in Players, AddLevelChunk(p)
  PROVE  IInv'
<1> DEFINE c == task[p].at
           info == [cached |-> TRUE, hash |-> task[p].hash, layers |-> AllAir,
                    dimension |-> task[p].dimension]
           v == [sent |-> TRUE, layers |-> MayRead(task[p].data, mode[p]), stage |-> Stage(p, c)]
           v2 == [view[p] EXCEPT ![c] = v]
           x == AddChunk(world[p], c, info)
<1>1. Good(world[p], view[p]) /\ view = [q \in Players |-> view[q]]
  BY DEF IInv
<1>2. world' = [world EXCEPT ![p] = x]
  BY DEF AddLevelChunk
<1>3. view' = [view EXCEPT ![p] = v2]
  BY <1>1 DEF AddLevelChunk, SentTo
<1>4. IsView(v)
  BY DEF IsView, IsSent, Stage, Stages
<1>5. /\ IsWorld(x) /\ DOMAIN x.chunks = DOMAIN world[p].chunks \union {c}
      /\ x.exempted = world[p].exempted \union {c}
  BY <1>1, AddChunkWorld DEF Good
<1> HIDE DEF x, v
<1>6. IsViews(v2) /\ \A d \in Positions : d = c \/ v2[d] = view[p][d]
  BY <1>1, <1>4 DEF IsViews, Good
<1> HIDE DEF v2, c
<1>7. Good(x, v2)
  BY <1>1, <1>5, <1>6, SentGood
<1> QED
  BY <1>2, <1>3, <1>7, OnePlayer

\* An entry of a SubChunk packet writes a layer of a chunk that is there.
LEMMA SubChunkSuccessKeeps ==
  ASSUME IInv, NEW p \in Players, SubChunkSuccess(p)
  PROVE  IInv'
<1>1. Good(world[p], view[p]) /\ view = [q \in Players |-> view[q]]
  BY DEF IInv
<1> DEFINE e == Head(task[p].entries)
           hash == SubHashOf(e, mode[p])
           new == Begun(p, e.pos)
           fresh == [subs |-> 1, layer |-> LayerOf[DimensionOf(world[p], new, e.pos)][e.y],
                     sub |-> Decoded(e.data, mode[p])]
           got == Found(subCache, hash, fresh)
           own == Decoded(e.data, mode[p])
           x == AddSubChunk(WriteWorld(world[p], new, e.pos, got.layer, got.sub), e.pos, hash)
           lay == Tell(view[p][e.pos].layers, e.y, own)
           v2 == IF e.pos \in DOMAIN new THEN view[p] ELSE [view[p] EXCEPT ![e.pos].layers = lay]
<1>2. world' = [world EXCEPT ![p] = x]
  BY DEF SubChunkSuccess
<1>3. view' = IF e.pos \in DOMAIN new THEN view
              ELSE [view EXCEPT ![p][e.pos].layers = Tell(@, e.y, own)]
  BY DEF SubChunkSuccess
<1>4. IsWorld(x) /\ DOMAIN x.chunks = DOMAIN world[p].chunks /\ x.exempted = world[p].exempted
  <2> HIDE DEF e, hash, new, got
  <2> QED
    BY <1>1, AddSubChunkWorld DEF Good
<1> HIDE DEF x, new, e
<1>5. view' = [view EXCEPT ![p] = v2]
  BY <1>1, <1>3
<1>6. IsViews(v2) /\ \A d \in Positions : v2[d].sent = view[p][d].sent /\ v2[d].stage = view[p][d].stage
  <2> HIDE DEF lay
  <2>1. IsViews(view[p])
    BY <1>1 DEF Good
  <2>2. ASSUME NEW v, IsView(v)
        PROVE  LET u == [v EXCEPT !.layers = lay] IN IsView(u) /\ u.sent = v.sent /\ u.stage = v.stage
    <3>1. CASE v = Nowhere
      <4>1. [v EXCEPT !.layers = lay] = v
        BY <3>1 DEF Nowhere
      <4> QED
        BY <3>1, <4>1 DEF IsView
    <3>2. CASE v # Nowhere
      <4>1. IsSent(v)
        BY <2>2, <3>2 DEF IsView
      <4>2. /\ [v EXCEPT !.layers = lay] \in [sent : {TRUE}, layers : {lay}, stage : Stages]
            /\ [v EXCEPT !.layers = lay].layers = lay /\ [v EXCEPT !.layers = lay].stage = v.stage
        BY <4>1 DEF IsSent
      <4>3. v.sent = TRUE /\ [v EXCEPT !.layers = lay].sent = TRUE
        BY <4>1, <4>2 DEF IsSent
      <4> QED
        BY <4>1, <4>2, <4>3 DEF IsView, IsSent
    <3> QED
      BY <3>1, <3>2
  <2>3. CASE e.pos \in DOMAIN new
    BY <2>1, <2>3
  <2>4. CASE e.pos \notin DOMAIN new
    <3>1. v2 = [d \in Positions |-> IF d = e.pos THEN [view[p][d] EXCEPT !.layers = lay] ELSE view[p][d]]
      BY <2>1, <2>4, SMTT(40) DEF IsViews
    <3> HIDE DEF v2
    <3> QED
      BY <2>1, <2>2, <3>1 DEF IsViews
  <2> QED
    BY <2>3, <2>4
<1> HIDE DEF v2
<1>7. Good(x, v2)
  BY <1>1, <1>4, <1>6, SentGood
<1> QED
  BY <1>2, <1>5, <1>7, OnePlayer, ZenonT(40)

\* The chunks a SubChunk packet has begun are added at its end.
LEMMA AddNewChunksKeeps ==
  ASSUME IInv, NEW p \in Players, AddNewChunks(p)
  PROVE  IInv'
<1>1. Good(world[p], view[p]) /\ world = [q \in Players |-> world[q]] /\ view = [q \in Players |-> view[q]]
  BY DEF IInv
<1> DEFINE new == task[p].new
           ch == [c \in DOMAIN world[p].chunks \union DOMAIN new |->
                    IF c \in DOMAIN new
                    THEN [cached |-> FALSE, hash |-> <<>>, layers |-> new[c].layers,
                          dimension |-> new[c].dimension]
                    ELSE world[p].chunks[c]]
           ex == world[p].exempted \union DOMAIN new
           x == [world[p] EXCEPT !.chunks = ch, !.exempted = ex]
           v2 == [c \in Positions |->
                    IF c \in DOMAIN new
                    THEN [sent |-> TRUE, layers |-> new[c].told, stage |-> Stage(p, c)] ELSE view[p][c]]
<1>2. world' = [world EXCEPT ![p] = x]
  BY <1>1 DEF AddNewChunks
<1>3. view' = [view EXCEPT ![p] = v2]
  BY <1>1 DEF AddNewChunks
<1>4. DOMAIN ch = DOMAIN world[p].chunks \union DOMAIN new
  OBVIOUS
<1> HIDE DEF ch
<1>5. IsWorld(x) /\ x.chunks = ch /\ x.exempted = ex
  BY <1>1 DEF Good, IsWorld
<1> HIDE DEF x
<1>6. ASSUME NEW c \in Positions
      PROVE  IsView(v2[c]) /\ (c \in DOMAIN new \/ v2[c] = view[p][c])
  <2>1. CASE c \in DOMAIN new
    BY <2>1 DEF IsView, IsSent, Stage, Stages
  <2>2. CASE c \notin DOMAIN new
    BY <1>1, <2>2 DEF Good, IsViews
  <2> QED
    BY <2>1, <2>2
<1>7. v2 = [c \in Positions |-> v2[c]]
  OBVIOUS
<1> HIDE DEF v2
<1>8. IsViews(v2)
  BY <1>6, <1>7 DEF IsViews
<1>9. Good(x, v2)
  BY <1>1, <1>4, <1>5, <1>6, <1>8, SentGood
<1> QED
  BY <1>2, <1>3, <1>9, OnePlayer, ZenonT(40)

\* handleMovement cleans the chunks.
LEMMA MoveKeeps ==
  ASSUME IInv, NEW p \in Players, Move(p)
  PROVE  IInv'
<1>1. Good(world[p], view[p]) /\ world = [q \in Players |-> world[q]] /\ view = [q \in Players |-> view[q]]
  BY DEF IInv
<1>2. PICK at \in Positions :
        /\ view' = [view EXCEPT ![p] = [c \in Positions |-> Passed(@[c], c, radius[p].chunk, at)]]
        /\ world' = [world EXCEPT ![p] =
             IF at = world[p].lastCleanPos THEN world[p]
             ELSE Without(Cleaned(world[p], radius[p].chunk, at), OutOfRange(world[p], radius[p].chunk, at))]
  BY DEF Move
<1> DEFINE v2 == [c \in Positions |-> Passed(view[p][c], c, radius[p].chunk, at)]
           x == Without(Cleaned(world[p], radius[p].chunk, at), OutOfRange(world[p], radius[p].chunk, at))
<1>3. Good(world[p], v2) /\ Good(x, v2)
  BY <1>1, CleanKeeps
<1>4. view' = [view EXCEPT ![p] = v2]
  BY <1>1, <1>2
<1> HIDE DEF x, v2
<1>5. world' = [world EXCEPT ![p] = IF at = world[p].lastCleanPos THEN world[p] ELSE x]
  BY <1>2 DEF x
<1> QED
  BY <1>3, <1>4, <1>5, OnePlayer

\* TransferServerConn and the goroutine of Close release everything.
LEMMA ReleaseKeeps ==
  ASSUME IInv, NEW p \in Players, TransferServerConn(p) \/ Purge(p)
  PROVE  IInv'
<1>1. /\ world' = [world EXCEPT ![p] = Without(world[p], DOMAIN world[p].chunks)]
      /\ view' = [view EXCEPT ![p] = [c \in Positions |-> Nowhere]]
  BY DEF TransferServerConn, Purge, Forgotten, IInv
<1> QED
  BY <1>1, ForgottenGood, OnePlayer

\* Every step keeps the invariant.
LEMMA Invariance == IInv /\ [Next]_vars => IInv'
<1> SUFFICES ASSUME IInv, [Next]_vars PROVE IInv'
  OBVIOUS
<1>1. CASE UNCHANGED vars
  BY <1>1, NoPlayer DEF vars
<1>2. ASSUME NEW p \in Players,
             \/ Handler(p) \/ HandleLevelChunk(p) \/ HandleCorruptLevelChunk(p)
             \/ HandleSubChunk(p) \/ HandleBlobSubChunk(p)
             \/ Move(p) \/ SetServerChunkRadius(p) \/ SetChunkRadius(p)
             \/ TransferServerConn(p) \/ Close(p) \/ Purge(p) \/ TickStops(p)
      PROVE  IInv'
  <2>1. CASE ReplaceLevelChunk(p) \/ AddLevelChunk(p) \/ SubChunkSuccess(p) \/ AddNewChunks(p)
    BY <2>1, ReplaceLevelChunkKeeps, AddLevelChunkKeeps, SubChunkSuccessKeeps, AddNewChunksKeeps
  <2>2. CASE Unsub(p) \/ SubChunkEmpty(p)
    BY <2>2, NoPlayer DEF Unsub, SubChunkEmpty
  <2>3. CASE HandleLevelChunk(p) \/ HandleCorruptLevelChunk(p) \/ HandleSubChunk(p) \/ HandleBlobSubChunk(p)
    BY <2>3, NoPlayer DEF HandleLevelChunk, HandleCorruptLevelChunk, HandleSubChunk, HandleBlobSubChunk
  <2>4. CASE SetServerChunkRadius(p) \/ SetChunkRadius(p) \/ Close(p) \/ TickStops(p)
    BY <2>4, NoPlayer DEF SetServerChunkRadius, SetChunkRadius, Close, TickStops
  <2>5. CASE Move(p) \/ TransferServerConn(p) \/ Purge(p)
    BY <2>5, MoveKeeps, ReleaseKeeps
  <2> QED
    BY <1>2, <2>1, <2>2, <2>3, <2>4, <2>5 DEF Handler
<1> QED
  BY <1>1, <1>2 DEF Next

\* Nobody has been sent anything at first.
LEMMA Initially == Init => IInv
<1> SUFFICES ASSUME Init PROVE IInv
  OBVIOUS
<1>1. IsWorld(NewWorld)
  BY DEF IsWorld, NewWorld
<1>2. Good(NewWorld, [c \in Positions |-> Nowhere])
  BY <1>1 DEF Good, IsViews, IsView, Kept, Nowhere
<1> QED
  BY <1>2 DEF Init, IInv

\* CleanChunks, AddChunk, PurgeChunks: a chunk that was sent to a player is there until the player
\* has been near it and has left, or its backend or its session is gone.
THEOREM SentAheadStays == Spec => []ChunksAheadKept
<1>1. Init => IInv
  BY Initially
<1>2. IInv /\ [Next]_vars => IInv'
  BY Invariance
<1>3. IInv => ChunksAheadKept
  BY DEF IInv, Good, Kept, ChunksAheadKept
<1> QED
  BY <1>1, <1>2, <1>3, PTL DEF Spec

-----------------------------------------------------------------------------
(* Counting.  The references of all players are a finite set, and a step   *)
(* adds one, removes one or exchanges one for another of the same entry.   *)

\* The count of every entry of a cache is the number of its uses, and every use has an entry.
UsesOf(S, of, h) == {use \in S : use[2].of = of /\ use[2].hash = h}
Counted(cache, S, of) ==
  /\ cache = [h \in DOMAIN cache |-> cache[h]]
  /\ \A h \in DOMAIN cache :
       /\ "subs" \in DOMAIN cache[h] /\ cache[h].subs \in Nat \ {0}
       /\ cache[h].subs = Cardinality(UsesOf(S, of, h))
  /\ \A use \in S : use[2].of = of => use[2].hash \in DOMAIN cache

\* The uses of an entry are finitely many, and change with the references.
LEMMA UsesFinite ==
  ASSUME NEW S, IsFiniteSet(S), NEW of, NEW h
  PROVE  IsFiniteSet(UsesOf(S, of, h))
BY FS_Subset DEF UsesOf

\* CacheChunk, CacheSubChunk: one more user, or the first.
LEMMA SubscribeCounts ==
  ASSUME NEW cache, NEW S, NEW of, Counted(cache, S, of), IsFiniteSet(S),
         NEW u, u \notin S, u[2].of = of,
         NEW entry, "subs" \in DOMAIN entry, entry.subs = 1
  PROVE  Counted(Subscribed(cache, u[2].hash, entry), S \union {u}, of)
<1> DEFINE hash == u[2].hash
           c2 == Subscribed(cache, hash, entry)
<1>1. \A h : UsesOf(S \union {u}, of, h) =
             IF h = hash THEN UsesOf(S, of, h) \union {u} ELSE UsesOf(S, of, h)
  BY DEF UsesOf
<1>2. /\ u \notin UsesOf(S, of, hash) /\ IsFiniteSet(UsesOf(S, of, hash))
      /\ Cardinality(UsesOf(S, of, hash)) \in Nat
      /\ Cardinality(UsesOf(S, of, hash) \union {u}) = Cardinality(UsesOf(S, of, hash)) + 1
  <2>1. u \notin UsesOf(S, of, hash)
    BY DEF UsesOf
  <2> QED
    BY <2>1, UsesFinite, FS_AddElement, FS_CardinalityType
<1>3. DOMAIN c2 = DOMAIN cache \union {hash} /\ c2 = [h \in DOMAIN c2 |-> c2[h]]
  BY DEF Subscribed, Counted
<1>4. \A h \in DOMAIN cache : h # hash => c2[h] = cache[h]
  BY DEF Subscribed, Counted
<1>5. "subs" \in DOMAIN c2[hash]
      /\ c2[hash].subs = Cardinality(UsesOf(S, of, hash)) + 1
  <2>1. CASE hash \in DOMAIN cache
    <3>1. c2 = [cache EXCEPT ![hash].subs = cache[hash].subs + 1]
      BY <2>1 DEF Subscribed
    <3>2. c2[hash] = [cache[hash] EXCEPT !.subs = cache[hash].subs + 1]
      BY <2>1, <3>1
    <3> HIDE DEF c2
    <3> QED
      BY <2>1, <3>2 DEF Counted
  <2>2. CASE hash \notin DOMAIN cache
    <3>1. UsesOf(S, of, hash) = {}
      BY <2>2 DEF UsesOf, Counted
    <3>2. c2[hash] = entry
      BY <2>2 DEF Subscribed
    <3> QED
      BY <3>1, <3>2, FS_EmptySet
  <2> QED
    BY <2>1, <2>2
<1> HIDE DEF c2
<1>6. ASSUME NEW h \in DOMAIN c2
      PROVE  /\ "subs" \in DOMAIN c2[h] /\ c2[h].subs \in Nat \ {0}
             /\ c2[h].subs = Cardinality(UsesOf(S \union {u}, of, h))
  <2>1. CASE h = hash
    <3> DEFINE n == Cardinality(UsesOf(S, of, hash))
    <3>1. Cardinality(UsesOf(S \union {u}, of, h)) = n + 1
      BY <1>1, <1>2, <2>1
    <3>2. n \in Nat /\ "subs" \in DOMAIN c2[h] /\ c2[h].subs = n + 1
      BY <1>2, <1>5, <2>1
    <3> HIDE DEF n, hash
    <3> QED
      BY <3>1, <3>2
  <2>2. CASE h # hash
    BY <1>1, <1>3, <1>4, <2>2 DEF Counted
  <2> QED
    BY <2>1, <2>2
<1>7. \A use \in S \union {u} : use[2].of = of => use[2].hash \in DOMAIN c2
  BY <1>3 DEF Counted
<1> QED
  BY <1>3, <1>6, <1>7 DEF Counted, c2

\* unsubC, unsubSC: one user less, and the last takes the entry with it.
LEMMA UnsubscribeCounts ==
  ASSUME NEW cache, NEW S, NEW of, Counted(cache, S, of), IsFiniteSet(S),
         NEW u \in S, u[2].of = of
  PROVE  Counted(Unsubscribed(cache, u[2].hash), S \ {u}, of)
<1> DEFINE hash == u[2].hash
           c2 == Unsubscribed(cache, hash)
           n == Cardinality(UsesOf(S, of, hash))
<1>1. \A h : UsesOf(S \ {u}, of, h) =
             IF h = hash THEN UsesOf(S, of, h) \ {u} ELSE UsesOf(S, of, h)
  BY DEF UsesOf
<1>2. /\ hash \in DOMAIN cache /\ cache[hash].subs = n /\ n \in Nat \ {0}
      /\ "subs" \in DOMAIN cache[hash]
  BY DEF Counted
<1>3. /\ IsFiniteSet(UsesOf(S, of, hash) \ {u})
      /\ Cardinality(UsesOf(S, of, hash) \ {u}) = n - 1
  <2>1. u \in UsesOf(S, of, hash)
    BY DEF UsesOf
  <2> QED
    BY <2>1, UsesFinite, FS_RemoveElement
<1> HIDE DEF n
<1>4. CASE n = 1
  <2>1. c2 = Restrict(cache, DOMAIN cache \ {hash})
    BY <1>2, <1>4 DEF Unsubscribed
  <2>2. /\ DOMAIN c2 = DOMAIN cache \ {hash} /\ c2 = [h \in DOMAIN c2 |-> c2[h]]
        /\ \A h \in DOMAIN c2 : c2[h] = cache[h]
    BY <2>1 DEF Restrict
  <2> HIDE DEF c2
  <2>3. UsesOf(S \ {u}, of, hash) = {}
    BY <1>1, <1>3, <1>4, FS_EmptySet
  <2>4. \A use \in S \ {u} : use[2].of = of => use[2].hash \in DOMAIN c2
    BY <2>2, <2>3 DEF Counted, UsesOf
  <2> QED
    BY <1>1, <2>2, <2>4 DEF Counted, c2
<1>5. CASE n # 1
  <2>1. c2 = [cache EXCEPT ![hash].subs = cache[hash].subs - 1]
    BY <1>2, <1>5 DEF Unsubscribed
  <2>2. /\ DOMAIN c2 = DOMAIN cache /\ c2 = [h \in DOMAIN c2 |-> c2[h]]
        /\ \A h \in DOMAIN c2 : h # hash => c2[h] = cache[h]
        /\ c2[hash] = [cache[hash] EXCEPT !.subs = cache[hash].subs - 1]
    BY <1>2, <2>1 DEF Counted
  <2> HIDE DEF c2
  <2>3. "subs" \in DOMAIN c2[hash] /\ c2[hash].subs = n - 1
    BY <1>2, <2>2
  <2>4. ASSUME NEW h \in DOMAIN c2
        PROVE  /\ "subs" \in DOMAIN c2[h] /\ c2[h].subs \in Nat \ {0}
               /\ c2[h].subs = Cardinality(UsesOf(S \ {u}, of, h))
    <3>1. CASE h = hash
      <4>1. Cardinality(UsesOf(S \ {u}, of, h)) = n - 1
        BY <1>1, <1>3, <3>1
      <4>2. n \in Nat \ {0} /\ "subs" \in DOMAIN c2[h] /\ c2[h].subs = n - 1
        BY <1>2, <2>3, <3>1
      <4> QED
        BY <1>5, <4>1, <4>2
    <3>2. CASE h # hash
      BY <1>1, <2>2, <3>2 DEF Counted
    <3> QED
      BY <3>1, <3>2
  <2>5. \A use \in S \ {u} : use[2].of = of => use[2].hash \in DOMAIN c2
    BY <2>2 DEF Counted
  <2> QED
    BY <2>2, <2>4, <2>5 DEF Counted, c2
<1> QED
  BY <1>4, <1>5

\* A reference of the other cache comes or goes.
LEMMA OtherCounts ==
  ASSUME NEW cache, NEW S, NEW of, Counted(cache, S, of), NEW u, u[2].of # of
  PROVE  Counted(cache, S \union {u}, of) /\ Counted(cache, S \ {u}, of)
<1>1. \A h : /\ UsesOf(S \union {u}, of, h) = UsesOf(S, of, h)
             /\ UsesOf(S \ {u}, of, h) = UsesOf(S, of, h)
  BY DEF UsesOf
<1> QED
  BY <1>1 DEF Counted

\* A reference moves from a handler to the world.
LEMMA ExchangeCounts ==
  ASSUME NEW cache, NEW S, NEW of, Counted(cache, S, of), IsFiniteSet(S),
         NEW u \in S, NEW v, v \notin S, u[2].of = v[2].of, u[2].hash = v[2].hash
  PROVE  Counted(cache, (S \ {u}) \union {v}, of)
<1> DEFINE T == (S \ {u}) \union {v}
<1>1. ASSUME NEW h PROVE Cardinality(UsesOf(T, of, h)) = Cardinality(UsesOf(S, of, h))
  <2>1. CASE u[2].of = of /\ u[2].hash = h
    <3>1. UsesOf(T, of, h) = (UsesOf(S, of, h) \ {u}) \union {v}
      BY <2>1 DEF UsesOf
    <3>2. u \in UsesOf(S, of, h) /\ v \notin UsesOf(S, of, h) \ {u}
      BY <2>1 DEF UsesOf
    <3>3. /\ IsFiniteSet(UsesOf(S, of, h)) /\ IsFiniteSet(UsesOf(S, of, h) \ {u})
          /\ Cardinality(UsesOf(S, of, h) \ {u}) = Cardinality(UsesOf(S, of, h)) - 1
      BY <3>2, UsesFinite, FS_RemoveElement
    <3>4. /\ Cardinality(UsesOf(S, of, h)) \in Nat
          /\ Cardinality((UsesOf(S, of, h) \ {u}) \union {v}) = Cardinality(UsesOf(S, of, h) \ {u}) + 1
      BY <3>2, <3>3, FS_AddElement, FS_CardinalityType
    <3> QED
      <4> DEFINE n == Cardinality(UsesOf(S, of, h))
                 m == Cardinality(UsesOf(S, of, h) \ {u})
      <4>1. n \in Nat /\ m = n - 1 /\ Cardinality(UsesOf(T, of, h)) = m + 1
        BY <3>1, <3>3, <3>4
      <4> HIDE DEF n, m
      <4>2. Cardinality(UsesOf(T, of, h)) = n
        BY <4>1
      <4> QED
        BY <4>2 DEF n
  <2>2. CASE ~(u[2].of = of /\ u[2].hash = h)
    <3>1. UsesOf(T, of, h) = UsesOf(S, of, h)
      BY <2>2 DEF UsesOf
    <3> QED
      BY <3>1
  <2> QED
    BY <2>1, <2>2
<1>2. \A use \in T : use[2].of = of => use[2].hash \in DOMAIN cache
  BY DEF Counted
<1> HIDE DEF T
<1> QED
  BY <1>1, <1>2 DEF Counted, T

-----------------------------------------------------------------------------
(* What a player and the handler that holds its mutex consist of.          *)

Hashes == Payloads \X Modes
SubHashes == Heights \X Payloads \X Modes
Blocks == {<<"air">>} \union Hashes

\* A chunk that was begun, one that has just been, and what is read in the layers of one.
Begin == [layers : [Layers -> Blocks], told : [Layers -> SUBSET Blocks], dimension : Dimensions]
Blank(d) == [layers |-> AllAir, told |-> AirOnly, dimension |-> d]
ReadAs(layers, told) == \A l \in Layers : layers[l] \in told[l]

\* A handler of a SubChunk packet has added sub-chunks to chunks that are not in the world yet.
Begins(t) == IF t.kind = "subs" THEN DOMAIN t.new ELSE {}
WorldShape(w, t) ==
  /\ IsWorld(w)
  /\ DOMAIN w.chunks \subseteq Positions /\ w.exempted \subseteq Positions
  /\ w.chunks \in [DOMAIN w.chunks -> Infos]
  /\ w.subChunks \in [DOMAIN w.subChunks -> Seq(SubHashes)]
  /\ DOMAIN w.subChunks \subseteq DOMAIN w.chunks \union Begins(t)

\* What is given up is no more in the world, and given up before anything else is added.
DropsShape(w, d, t) ==
  /\ \A ref \in d :
       /\ ref.of \in {"chunk", "sub"} /\ (ref.of = "chunk" => ref.nth = 0)
       /\ ref.at \notin DOMAIN w.chunks /\ ref.at \notin DOMAIN w.subChunks
  /\ t.kind = "subs" \/ (t.kind = "chunk" /\ t.at \in DOMAIN w.chunks) => d = {}

\* A chunk is decoded with the player's mode, one that is begun is not in the world.
IsChunkTask(t, m) ==
  /\ t = [kind |-> "chunk", at |-> t.at, hash |-> HashOf(t.data, m), data |-> t.data,
          dimension |-> t.dimension]
  /\ t.at \in Positions /\ t.data \in Payloads /\ t.dimension \in Dimensions
IsSubsTask(w, t) ==
  /\ t = [kind |-> "subs", entries |-> t.entries, new |-> t.new, dimension |-> t.dimension]
  /\ t.entries \in Seq(Entries) /\ DOMAIN t.new \subseteq Positions \ DOMAIN w.chunks
  /\ t.new \in [DOMAIN t.new -> Begin] /\ t.dimension \in Dimensions
TaskShape(w, t, m) == t = Idle \/ IsChunkTask(t, m) \/ IsSubsTask(w, t)

\* A backend sends chunks or answers requests for sub-chunks, which are not cached as chunks.
OneKind(w, t, rq) ==
  /\ (t.kind = "subs" => rq) /\ (t.kind = "chunk" => ~rq)
  /\ \A c \in DOMAIN w.chunks : w.chunks[c].cached => ~rq

Shape(w, d, t, m, rq) ==
  WorldShape(w, t) /\ DropsShape(w, d, t) /\ TaskShape(w, t, m) /\ OneKind(w, t, rq)

\* A hash says of an entry which payload was decoded in which mode, not for which dimension.
WholeEntry(h, en) ==
  /\ en.dimension \in Dimensions
  /\ \E pk \in Decodable : pk.data = h[1] /\ en.layers = DecodedChunk(pk, h[2])
SubEntry(h, en) == en.sub = Decoded(h[2], h[3]) /\ en.layer \in Places(h[1])
SharedShape ==
  /\ \A h \in DOMAIN chunkCache : h \in Hashes /\ WholeEntry(h, chunkCache[h])
  /\ \A h \in DOMAIN subCache : h \in SubHashes /\ SubEntry(h, subCache[h])
Shapes ==
  /\ world = [p \in Players |-> world[p]] /\ drops = [p \in Players |-> drops[p]]
  /\ task = [p \in Players |-> task[p]] /\ mode \in [Players -> Modes]
  /\ request \in [Players -> BOOLEAN]
  /\ \A p \in Players : Shape(world[p], drops[p], task[p], mode[p], request[p])

\* A handler changes one player.
LEMMA OneShape ==
  ASSUME Shapes, NEW p \in Players, NEW w, NEW d, NEW t, NEW rq \in BOOLEAN,
         Shape(w, d, t, mode[p], rq),
         world' = [world EXCEPT ![p] = w], drops' = [drops EXCEPT ![p] = d],
         task' = [task EXCEPT ![p] = t], mode' = mode,
         request' = [request EXCEPT ![p] = rq]
  PROVE  Shapes'
<1>1. \A q \in Players : /\ world'[q] = IF q = p THEN w ELSE world[q]
                         /\ drops'[q] = IF q = p THEN d ELSE drops[q]
                         /\ task'[q] = IF q = p THEN t ELSE task[q]
                         /\ request'[q] = IF q = p THEN rq ELSE request[q]
  BY DEF Shapes
<1>2. \A q \in Players : Shape(world'[q], drops'[q], task'[q], mode'[q], request'[q])
  BY <1>1 DEF Shapes
<1> QED
  BY <1>2 DEF Shapes

\* removeChunk of several chunks, and the references they had.
LEMMA WithoutShape ==
  ASSUME NEW w, NEW t, WorldShape(w, t), t.kind # "subs", NEW cs
  PROVE  /\ WorldShape(Without(w, cs), t)
         /\ \A ref \in RefsOf(w, cs) :
              /\ ref.of \in {"chunk", "sub"} /\ (ref.of = "chunk" => ref.nth = 0)
              /\ ref.at \in cs
         /\ \A rq : OneKind(w, t, rq) => OneKind(Without(w, cs), t, rq)
         /\ DOMAIN Without(w, cs).chunks = DOMAIN w.chunks \ cs
         /\ DOMAIN Without(w, cs).subChunks = DOMAIN w.subChunks \ cs
<1> DEFINE x == Without(w, cs)
<1>1. /\ IsWorld(x) /\ x.exempted = w.exempted
      /\ x.chunks = [c \in DOMAIN w.chunks \ cs |-> w.chunks[c]]
      /\ x.subChunks = [c \in DOMAIN w.subChunks \ cs |-> w.subChunks[c]]
  BY DEF WorldShape, IsWorld, Without, Restrict
<1> HIDE DEF x
<1>2. WorldShape(x, t)
  <2>1. DOMAIN x.chunks = DOMAIN w.chunks \ cs /\ DOMAIN x.subChunks = DOMAIN w.subChunks \ cs
    BY <1>1
  <2>2. x.chunks \in [DOMAIN x.chunks -> Infos]
    BY <1>1, <2>1 DEF WorldShape
  <2>3. x.subChunks \in [DOMAIN x.subChunks -> Seq(SubHashes)]
    BY <1>1, <2>1 DEF WorldShape
  <2>4. DOMAIN x.subChunks \subseteq DOMAIN x.chunks
    BY <2>1 DEF WorldShape, Begins
  <2> QED
    BY <1>1, <2>1, <2>2, <2>3, <2>4 DEF WorldShape
<1>3. ASSUME NEW ref \in RefsOf(w, cs)
      PROVE  /\ ref.of \in {"chunk", "sub"} /\ (ref.of = "chunk" => ref.nth = 0)
             /\ ref.at \in cs
  BY DEF RefsOf, ChunkRef, SubRef
<1>4. \A rq : OneKind(w, t, rq) => OneKind(x, t, rq)
  BY <1>1 DEF OneKind
<1> QED
  BY <1>1, <1>2, <1>3, <1>4 DEF x

\* What a player holds changes, and nobody else does.
RefsIn(w, d, t) ==
  RefsOf(w, Positions) \union d \union {Arriving(u) : u \in {v \in {t} : v.kind = "chunk"}}
HoldsNext(p, R) ==
  /\ \A q, r : /\ q # p => (<<q, r>> \in Held' <=> <<q, r>> \in Held)
               /\ <<p, r>> \in Held' <=> r \in R
               /\ <<p, r>> \in Held <=> r \in References(p)
  /\ \A use \in Held : use = <<use[1], use[2]>>
  /\ \A use \in Held' : use = <<use[1], use[2]>>
LEMMA OneHolds ==
  ASSUME Shapes, NEW p \in Players, NEW w, NEW d, NEW t,
         world' = [world EXCEPT ![p] = w], drops' = [drops EXCEPT ![p] = d],
         task' = [task EXCEPT ![p] = t]
  PROVE  HoldsNext(p, RefsIn(w, d, t))
<1>1. ASSUME NEW q \in Players
      PROVE  References(q)' = IF q = p THEN RefsIn(w, d, t) ELSE References(q)
  <2>1. /\ world'[q] = IF q = p THEN w ELSE world[q]
        /\ drops'[q] = IF q = p THEN d ELSE drops[q]
        /\ task'[q] = IF q = p THEN t ELSE task[q]
    BY DEF Shapes
  <2> QED
    BY <2>1 DEF References, RefsIn
<1>2. \A q, r : <<q, r>> \in Held <=> q \in Players /\ r \in References(q)
  BY DEF Held
<1>3. \A q, r : <<q, r>> \in Held' <=> q \in Players /\ r \in References(q)'
  BY DEF Held
<1>4. /\ \A use \in Held : use = <<use[1], use[2]>>
      /\ \A use \in Held' : use = <<use[1], use[2]>>
  BY DEF Held
<1>5. \A q \in Players : References(q)' = IF q = p THEN RefsIn(w, d, t) ELSE References(q)
  BY <1>1
<1> HIDE DEF Held, References
<1> QED
  BY <1>2, <1>3, <1>4, <1>5 DEF HoldsNext

\* The references of a player are the same, one more, one less, or one is another.
LEMMA HoldsSame ==
  ASSUME NEW p, HoldsNext(p, References(p))
  PROVE  Held' = Held
<1>1. \A q, r : <<q, r>> \in Held' <=> <<q, r>> \in Held
  BY DEF HoldsNext
<1> QED
  BY <1>1 DEF HoldsNext

LEMMA HoldsMore ==
  ASSUME NEW p, NEW ref, ref \notin References(p), HoldsNext(p, References(p) \union {ref})
  PROVE  Held' = Held \union {<<p, ref>>} /\ <<p, ref>> \notin Held
<1>1. \A q, r : <<q, r>> \in Held' <=> <<q, r>> \in Held \/ (q = p /\ r = ref)
  BY DEF HoldsNext
<1>2. \A use \in Held \union {<<p, ref>>} : use = <<use[1], use[2]>>
  BY DEF HoldsNext
<1> QED
  BY <1>1, <1>2 DEF HoldsNext

LEMMA HoldsLess ==
  ASSUME NEW p, NEW ref \in References(p), HoldsNext(p, References(p) \ {ref})
  PROVE  Held' = Held \ {<<p, ref>>} /\ <<p, ref>> \in Held
<1>1. \A q, r : <<q, r>> \in Held' <=> <<q, r>> \in Held /\ ~(q = p /\ r = ref)
  BY DEF HoldsNext
<1> QED
  BY <1>1 DEF HoldsNext

LEMMA HoldsOther ==
  ASSUME NEW p, NEW ref \in References(p), NEW other, other \notin References(p),
         HoldsNext(p, (References(p) \ {ref}) \union {other})
  PROVE  /\ Held' = (Held \ {<<p, ref>>}) \union {<<p, other>>}
         /\ <<p, ref>> \in Held /\ <<p, other>> \notin Held
<1>1. \A q, r : <<q, r>> \in Held' <=>
        (<<q, r>> \in Held /\ ~(q = p /\ r = ref)) \/ (q = p /\ r = other)
  BY DEF HoldsNext
<1>2. \A use \in Held \union {<<p, other>>} : use = <<use[1], use[2]>>
  BY DEF HoldsNext
<1> QED
  BY <1>1, <1>2 DEF HoldsNext

\* Removing chunks from the world and giving up what they refer to.
LEMMA SplitRefs ==
  ASSUME NEW w, NEW t, WorldShape(w, t), NEW cs \in SUBSET Positions
  PROVE  RefsOf(w, Positions) = RefsOf(Without(w, cs), Positions) \union RefsOf(w, cs)
<1> DEFINE x == Without(w, cs)
<1>1. /\ x.chunks = [c \in DOMAIN w.chunks \ cs |-> w.chunks[c]]
      /\ x.subChunks = [c \in DOMAIN w.subChunks \ cs |-> w.subChunks[c]]
  BY DEF WorldShape, IsWorld, Without, Restrict
<1> HIDE DEF x
<1>2. ASSUME NEW ref, NEW y, NEW D
      PROVE  ref \in RefsOf(y, D) <=>
               \/ \E c \in D \cap DOMAIN y.chunks :
                    y.chunks[c].cached /\ ref = ChunkRef(c, y.chunks[c].hash)
               \/ \E c \in D \cap DOMAIN y.subChunks : \E i \in DOMAIN y.subChunks[c] :
                    ref = SubRef(c, y.subChunks[c][i], i)
  BY DEF RefsOf
<1>3. ASSUME NEW ref
      PROVE  ref \in RefsOf(w, Positions) <=> ref \in RefsOf(x, Positions) \/ ref \in RefsOf(w, cs)
  <2>1. (\E c \in Positions \cap DOMAIN w.chunks :
            w.chunks[c].cached /\ ref = ChunkRef(c, w.chunks[c].hash))
        <=> \/ \E c \in Positions \cap DOMAIN x.chunks :
                 x.chunks[c].cached /\ ref = ChunkRef(c, x.chunks[c].hash)
            \/ \E c \in cs \cap DOMAIN w.chunks :
                 w.chunks[c].cached /\ ref = ChunkRef(c, w.chunks[c].hash)
    BY <1>1
  <2>2. (\E c \in Positions \cap DOMAIN w.subChunks : \E i \in DOMAIN w.subChunks[c] :
            ref = SubRef(c, w.subChunks[c][i], i))
        <=> \/ \E c \in Positions \cap DOMAIN x.subChunks : \E i \in DOMAIN x.subChunks[c] :
                 ref = SubRef(c, x.subChunks[c][i], i)
            \/ \E c \in cs \cap DOMAIN w.subChunks : \E i \in DOMAIN w.subChunks[c] :
                 ref = SubRef(c, w.subChunks[c][i], i)
    BY <1>1
  <2> QED
    BY <1>2, <2>1, <2>2
<1> QED
  BY <1>3 DEF x

Counts ==
  /\ Shapes /\ SharedShape /\ IsFiniteSet(Held)
  /\ Counted(chunkCache, Held, "chunk") /\ Counted(subCache, Held, "sub")

\* The caches stay, and what is held.
LEMMA SameCounts ==
  ASSUME Counts, Shapes', Held' = Held, UNCHANGED cacheVars PROVE Counts'
BY DEF Counts, SharedShape, cacheVars

\* An entry of a cache gets a user: the payload and the mode of what was decoded are its hash's.
LEMMA SubscribedEntries ==
  ASSUME NEW cache, cache = [h \in DOMAIN cache |-> cache[h]], NEW hash, NEW entry
  PROVE  LET c2 == Subscribed(cache, hash, entry)
         IN  \A h \in DOMAIN c2 :
               \/ h \in DOMAIN cache /\ c2[h].layers = cache[h].layers
                    /\ c2[h].dimension = cache[h].dimension
                    /\ c2[h].sub = cache[h].sub /\ c2[h].layer = cache[h].layer
               \/ hash \notin DOMAIN cache /\ h = hash /\ c2[h] = entry
<1> DEFINE c2 == Subscribed(cache, hash, entry)
<1>1. CASE hash \in DOMAIN cache
  <2> DEFINE one == [cache[hash] EXCEPT !.subs = @ + 1]
  <2>1. c2 = [cache EXCEPT ![hash] = one]
    BY <1>1 DEF Subscribed
  <2>2. /\ one.layers = cache[hash].layers /\ one.dimension = cache[hash].dimension
        /\ one.sub = cache[hash].sub /\ one.layer = cache[hash].layer
    OBVIOUS
  <2> HIDE DEF c2, one
  <2>3. DOMAIN c2 = DOMAIN cache /\ \A h \in DOMAIN cache : c2[h] = IF h = hash THEN one ELSE cache[h]
    BY <1>1, <2>1
  <2> QED
    BY <2>2, <2>3 DEF c2
<1>2. CASE hash \notin DOMAIN cache
  <2>1. c2 = [h \in DOMAIN cache \union {hash} |-> IF h = hash THEN entry ELSE cache[h]]
    BY <1>2 DEF Subscribed
  <2> HIDE DEF c2
  <2> QED
    BY <1>2, <2>1 DEF c2
<1> QED
  BY <1>1, <1>2

LEMMA SubscribedShape ==
  ASSUME Counts
  PROVE  /\ \A pk \in LevelChunks, m \in Modes :
              LET hash == HashOf(pk.data, m)
                  fresh == Fresh(pk, m)
                  c2 == Subscribed(chunkCache, hash, fresh)
              IN  hash \in DOMAIN chunkCache \/ pk \in Decodable =>
                    /\ \A h \in DOMAIN c2 : h \in Hashes /\ WholeEntry(h, c2[h])
                    /\ Found(chunkCache, hash, fresh).dimension \in Dimensions
         /\ \A e \in Entries, m \in Modes : \A fresh :
              LET hash == SubHashOf(e, m)
                  c2 == Subscribed(subCache, hash, fresh)
                  got == Found(subCache, hash, fresh)
              IN  SubEntry(hash, fresh) =>
                    /\ \A h \in DOMAIN c2 : h \in SubHashes /\ SubEntry(h, c2[h])
                    /\ SubEntry(hash, got)
<1>0. /\ chunkCache = [h \in DOMAIN chunkCache |-> chunkCache[h]]
      /\ subCache = [h \in DOMAIN subCache |-> subCache[h]]
      /\ \A h \in DOMAIN chunkCache : h \in Hashes /\ WholeEntry(h, chunkCache[h])
      /\ \A h \in DOMAIN subCache : h \in SubHashes /\ SubEntry(h, subCache[h])
  BY DEF Counts, Counted, SharedShape
<1>1. ASSUME NEW pk \in LevelChunks, NEW m \in Modes,
             HashOf(pk.data, m) \in DOMAIN chunkCache \/ pk \in Decodable
      PROVE  LET hash == HashOf(pk.data, m)
                 fresh == Fresh(pk, m)
                 c2 == Subscribed(chunkCache, hash, fresh)
             IN  /\ \A h \in DOMAIN c2 : h \in Hashes /\ WholeEntry(h, c2[h])
                 /\ Found(chunkCache, hash, fresh).dimension \in Dimensions
  <2> DEFINE hash == HashOf(pk.data, m)
             fresh == Fresh(pk, m)
             c2 == Subscribed(chunkCache, hash, fresh)
  <2>1. hash \in Hashes /\ hash[1] = pk.data /\ hash[2] = m
    BY ChunkCacheAssumption DEF HashOf, Hashes
  <2>2. hash \notin DOMAIN chunkCache => WholeEntry(hash, fresh)
    BY <1>1, <2>1, ChunkCacheAssumption DEF WholeEntry, Fresh
  <2> HIDE DEF hash, fresh
  <2>3. \A h \in DOMAIN c2 :
          \/ h \in DOMAIN chunkCache /\ c2[h].layers = chunkCache[h].layers
               /\ c2[h].dimension = chunkCache[h].dimension
          \/ hash \notin DOMAIN chunkCache /\ h = hash /\ c2[h] = fresh
    BY <1>0, SubscribedEntries
  <2> HIDE DEF c2
  <2>4. \A h \in DOMAIN c2 : h \in Hashes /\ WholeEntry(h, c2[h])
    <3> SUFFICES ASSUME NEW h \in DOMAIN c2 PROVE h \in Hashes /\ WholeEntry(h, c2[h])
      OBVIOUS
    <3>1. CASE h \in DOMAIN chunkCache /\ c2[h].layers = chunkCache[h].layers
               /\ c2[h].dimension = chunkCache[h].dimension
      BY <1>0, <3>1 DEF WholeEntry
    <3>2. CASE hash \notin DOMAIN chunkCache /\ h = hash /\ c2[h] = fresh
      BY <2>1, <2>2, <3>2
    <3> QED
      BY <2>3, <3>1, <3>2
  <2>5. Found(chunkCache, hash, fresh).dimension \in Dimensions
    BY <1>0, <2>2 DEF Found, WholeEntry
  <2> QED
    BY <2>4, <2>5 DEF c2, hash, fresh
<1>2. ASSUME NEW e \in Entries, NEW m \in Modes, NEW fresh, SubEntry(SubHashOf(e, m), fresh)
      PROVE  LET hash == SubHashOf(e, m)
                 c2 == Subscribed(subCache, hash, fresh)
                 got == Found(subCache, hash, fresh)
             IN  /\ \A h \in DOMAIN c2 : h \in SubHashes /\ SubEntry(h, c2[h])
                 /\ SubEntry(hash, got)
  <2> DEFINE hash == SubHashOf(e, m)
             c2 == Subscribed(subCache, hash, fresh)
  <2>1. hash \in SubHashes
    BY DEF SubHashOf, SubHashes, Entries
  <2>2. SubEntry(hash, fresh)
    BY <1>2
  <2> HIDE DEF hash
  <2>3. \A h \in DOMAIN c2 :
          \/ h \in DOMAIN subCache /\ c2[h].sub = subCache[h].sub /\ c2[h].layer = subCache[h].layer
          \/ h = hash /\ c2[h] = fresh
    BY <1>0, SubscribedEntries
  <2> HIDE DEF c2
  <2>4. \A h \in DOMAIN c2 : h \in SubHashes /\ SubEntry(h, c2[h])
    <3> SUFFICES ASSUME NEW h \in DOMAIN c2 PROVE h \in SubHashes /\ SubEntry(h, c2[h])
      OBVIOUS
    <3>1. CASE h \in DOMAIN subCache /\ c2[h].sub = subCache[h].sub /\ c2[h].layer = subCache[h].layer
      BY <1>0, <3>1 DEF SubEntry
    <3>2. CASE h = hash /\ c2[h] = fresh
      BY <2>1, <2>2, <3>2
    <3> QED
      BY <2>3, <3>1, <3>2
  <2>5. SubEntry(hash, Found(subCache, hash, fresh))
    BY <1>0, <2>2 DEF Found
  <2> QED
    BY <2>4, <2>5 DEF c2, hash
<1> QED
  BY <1>1, <1>2

\* An entry that loses a user keeps what was decoded.
LEMMA UnsubscribedShape ==
  ASSUME NEW cache, cache = [h \in DOMAIN cache |-> cache[h]], NEW hash
  PROVE  LET c2 == Unsubscribed(cache, hash)
         IN  /\ DOMAIN c2 \subseteq DOMAIN cache
             /\ \A h \in DOMAIN c2 : /\ c2[h].layers = cache[h].layers /\ c2[h].sub = cache[h].sub
                                  /\ c2[h].dimension = cache[h].dimension /\ c2[h].layer = cache[h].layer
<1> DEFINE c2 == Unsubscribed(cache, hash)
           one == [cache[hash] EXCEPT !.subs = cache[hash].subs - 1]
<1>1. \/ c2 = cache \/ c2 = [h \in DOMAIN cache \ {hash} |-> cache[h]]
      \/ c2 = [h \in DOMAIN cache |-> IF h = hash THEN one ELSE cache[h]]
  BY DEF Unsubscribed, Restrict
<1>2. /\ one.layers = cache[hash].layers /\ one.sub = cache[hash].sub
      /\ one.dimension = cache[hash].dimension /\ one.layer = cache[hash].layer
  OBVIOUS
<1> HIDE DEF c2, one
<1>3. /\ DOMAIN c2 \subseteq DOMAIN cache
      /\ \A h \in DOMAIN c2 : /\ c2[h].layers = cache[h].layers /\ c2[h].sub = cache[h].sub
                           /\ c2[h].dimension = cache[h].dimension /\ c2[h].layer = cache[h].layer
  BY <1>1, <1>2
<1> QED
  BY <1>3 DEF c2

\* ChunkUpdate.Run: the chunk is one reference more.
LEMMA HandleLevelChunkCounts ==
  ASSUME Counts, NEW p \in Players, HandleLevelChunk(p)
  PROVE  Counts'
<1>1. PICK c \in Positions, pk \in LevelChunks :
        /\ HashOf(pk.data, mode[p]) \in DOMAIN chunkCache \/ pk \in Decodable
        /\ chunkCache' = Subscribed(chunkCache, HashOf(pk.data, mode[p]), Fresh(pk, mode[p]))
        /\ task' = [task EXCEPT ![p] =
                      [kind |-> "chunk", at |-> c, hash |-> HashOf(pk.data, mode[p]), data |-> pk.data,
                       dimension |-> Found(chunkCache, HashOf(pk.data, mode[p]), Fresh(pk, mode[p])).dimension]]
  BY DEF HandleLevelChunk
<1> DEFINE hash == HashOf(pk.data, mode[p])
           entry == Fresh(pk, mode[p])
           dim == Found(chunkCache, hash, entry).dimension
           t == [kind |-> "chunk", at |-> c, hash |-> hash, data |-> pk.data, dimension |-> dim]
<1>0. mode[p] \in Modes /\ entry.subs = 1 /\ "subs" \in DOMAIN entry
  BY DEF Counts, Shapes, Fresh
<1>d. pk.data \in Payloads /\ dim \in Dimensions
  BY <1>0, <1>1, SubscribedShape, ChunkCacheAssumption
<1>t. task' = [task EXCEPT ![p] = t]
  BY <1>1
<1> HIDE DEF dim
<1>2. /\ task[p] = Idle /\ drops[p] = {} /\ Shape(world[p], drops[p], task[p], mode[p], request[p])
      /\ UNCHANGED <<subCache, world, drops, mode, request>> /\ ~request[p]
  BY DEF HandleLevelChunk, Handles, Free, Counts, Shapes, lifeVars
<1>3. Shape(world[p], drops[p], t, mode[p], request[p])
  <2>1. WorldShape(world[p], t)
    BY <1>2 DEF Shape, WorldShape, Begins, Idle
  <2>2. DropsShape(world[p], drops[p], t)
    BY <1>2 DEF DropsShape
  <2>3. IsChunkTask(t, mode[p])
    BY <1>d DEF IsChunkTask
  <2>4. OneKind(world[p], t, request[p])
    BY <1>2 DEF Shape, OneKind
  <2> QED
    BY <2>1, <2>2, <2>3, <2>4 DEF Shape, TaskShape
<1>4. /\ world' = [world EXCEPT ![p] = world[p]] /\ drops' = [drops EXCEPT ![p] = drops[p]]
      /\ task' = [task EXCEPT ![p] = t]
      /\ request[p] \in BOOLEAN /\ request' = [request EXCEPT ![p] = request[p]]
  BY <1>2, <1>t DEF Counts, Shapes
<1>5. /\ RefsIn(world[p], drops[p], t) = References(p) \union {Arriving(t)}
      /\ Arriving(t) \notin References(p)
  <2>1. Arriving(t).of = "chunk" /\ Arriving(t).nth = 1
    BY DEF Arriving
  <2>2. References(p) = RefsOf(world[p], Positions)
    BY <1>2 DEF References, Idle
  <2>3. \A ref \in RefsOf(world[p], Positions) : ref.of = "chunk" => ref.nth = 0
    BY DEF RefsOf, ChunkRef, SubRef
  <2>4. RefsIn(world[p], drops[p], t) = RefsOf(world[p], Positions) \union {Arriving(t)}
    BY <1>2 DEF RefsIn
  <2> QED
    BY <2>1, <2>2, <2>3, <2>4
<1>6. Arriving(t).of = "chunk" /\ Arriving(t).hash = hash
  BY DEF Arriving
<1> DEFINE u == <<p, Arriving(t)>>
<1> HIDE DEF t
<1>7. Shapes' /\ Held' = Held \union {u} /\ u \notin Held
  <2>1. Shapes'
    BY <1>2, <1>3, <1>4, OneShape DEF Counts
  <2>2. Held' = Held \union {u} /\ u \notin Held
    <3>1. HoldsNext(p, RefsIn(world[p], drops[p], t))
      BY <1>4, OneHolds DEF Counts
    <3> QED
      BY <1>5, <3>1, HoldsMore
  <2> QED
    BY <2>1, <2>2
<1>8. mode[p] \in Modes
  BY DEF Counts, Shapes
<1>9. chunkCache' = Subscribed(chunkCache, u[2].hash, entry) /\ u[2].of = "chunk"
  BY <1>1, <1>6
<1> HIDE DEF entry, u
<1>10. Counted(chunkCache', Held \union {u}, "chunk")
  BY <1>0, <1>7, <1>9, SubscribeCounts DEF Counts
<1>11. Counted(subCache', Held \union {u}, "sub")
  BY <1>2, <1>9, OtherCounts DEF Counts
<1>12. SharedShape'
  BY <1>1, <1>2, <1>8, SubscribedShape DEF SharedShape, Counts
<1>13. IsFiniteSet(Held')
  BY <1>7, FS_AddElement DEF Counts
<1> QED
  BY <1>7, <1>10, <1>11, <1>12, <1>13 DEF Counts

\* A step of one player that leaves the caches, and what the player holds.
LEMMA HoldingCounts ==
  ASSUME Counts, NEW p \in Players, NEW w, NEW d, NEW t, NEW rq \in BOOLEAN,
         Shape(w, d, t, mode[p], rq), RefsIn(w, d, t) = References(p),
         world' = [world EXCEPT ![p] = w], drops' = [drops EXCEPT ![p] = d],
         task' = [task EXCEPT ![p] = t], mode' = mode,
         request' = [request EXCEPT ![p] = rq], UNCHANGED cacheVars
  PROVE  Counts'
<1>1. Shapes'
  BY OneShape DEF Counts
<1>2. Held' = Held
  BY OneHolds, HoldsSame DEF Counts
<1> QED
  BY <1>1, <1>2, SameCounts

\* A step that leaves the caches, the worlds and the handlers.
LEMMA NothingCounts ==
  ASSUME Counts, UNCHANGED <<chunkCache, subCache, world, drops, task, mode, request>>
  PROVE  Counts'
<1>1. Shapes'
  BY DEF Counts, Shapes
<1>2. Held' = Held
  BY DEF Held, References
<1> QED
  BY <1>1, <1>2, SameCounts DEF cacheVars

\* What holds of one player.
LEMMA OneCounts ==
  ASSUME Counts, NEW p \in Players
  PROVE  /\ Shape(world[p], drops[p], task[p], mode[p], request[p])
         /\ References(p) = RefsIn(world[p], drops[p], task[p])
         /\ world = [world EXCEPT ![p] = world[p]] /\ drops = [drops EXCEPT ![p] = drops[p]]
         /\ task = [task EXCEPT ![p] = task[p]] /\ request = [request EXCEPT ![p] = request[p]]
         /\ request[p] \in BOOLEAN /\ mode[p] \in Modes
BY DEF Counts, Shapes, References, RefsIn

\* Releasing some chunks of the world: CleanChunks, PurgeChunks, and AddChunk over another chunk.
LEMMA ReleasedShape ==
  ASSUME NEW w, NEW t, NEW m, NEW rq, Shape(w, {}, t, m, rq), t.kind # "subs",
         NEW cs \in SUBSET Positions, t.kind = "chunk" => t.at \in cs
  PROVE  /\ Shape(Without(w, cs), RefsOf(w, cs), t, m, rq)
         /\ RefsIn(Without(w, cs), RefsOf(w, cs), t) = RefsIn(w, {}, t)
<1> DEFINE x == Without(w, cs)
<1>0. WorldShape(w, t) /\ OneKind(w, t, rq)
  BY DEF Shape
<1>1. /\ WorldShape(x, t) /\ OneKind(x, t, rq)
      /\ \A ref \in RefsOf(w, cs) :
              /\ ref.of \in {"chunk", "sub"} /\ (ref.of = "chunk" => ref.nth = 0)
              /\ ref.at \in cs
      /\ DOMAIN x.chunks = DOMAIN w.chunks \ cs
      /\ DOMAIN x.subChunks = DOMAIN w.subChunks \ cs
  BY <1>0, WithoutShape
<1>2. RefsOf(w, Positions) = RefsOf(x, Positions) \union RefsOf(w, cs)
  BY <1>0, SplitRefs
<1> HIDE DEF x
<1>3. DropsShape(x, RefsOf(w, cs), t)
  BY <1>1 DEF DropsShape
<1>4. TaskShape(x, t, m)
  BY DEF Shape, TaskShape, IsSubsTask
<1>5. RefsIn(x, RefsOf(w, cs), t) = RefsIn(w, {}, t)
  BY <1>2 DEF RefsIn
<1> QED
  BY <1>1, <1>3, <1>4, <1>5 DEF Shape, x

\* AddChunk: what was there is released first.
LEMMA ReplaceLevelChunkCounts ==
  ASSUME Counts, NEW p \in Players, ReplaceLevelChunk(p)
  PROVE  Counts'
<1> DEFINE cs == {task[p].at}
<1>1. /\ task[p].kind = "chunk" /\ task[p].at \in DOMAIN world[p].chunks
      /\ drops' = [drops EXCEPT ![p] = RefsOf(world[p], cs)]
      /\ world' = [world EXCEPT ![p] = Without(world[p], cs)]
      /\ UNCHANGED <<cacheVars, task, mode, request>>
  BY DEF ReplaceLevelChunk, lifeVars
<1>2. drops[p] = {} /\ Shape(world[p], {}, task[p], mode[p], request[p]) /\ cs \subseteq Positions
  BY <1>1, OneCounts DEF Shape, DropsShape, WorldShape
<1> DEFINE x == Without(world[p], cs)
<1>3. /\ Shape(x, RefsOf(world[p], cs), task[p], mode[p], request[p])
      /\ RefsIn(x, RefsOf(world[p], cs), task[p]) = RefsIn(world[p], {}, task[p])
  BY <1>1, <1>2, ReleasedShape
<1>4. RefsIn(x, RefsOf(world[p], cs), task[p]) = References(p)
  BY <1>2, <1>3, OneCounts
<1>5. /\ world' = [world EXCEPT ![p] = x] /\ drops' = [drops EXCEPT ![p] = RefsOf(world[p], cs)]
      /\ task' = [task EXCEPT ![p] = task[p]] /\ request' = [request EXCEPT ![p] = request[p]]
      /\ mode' = mode /\ UNCHANGED cacheVars /\ request[p] \in BOOLEAN
  BY <1>1, OneCounts
<1> HIDE DEF x, cs
<1> QED
  BY <1>3, <1>4, <1>5, HoldingCounts

\* TransferServerConn and the goroutine of Close: everything is released.
LEMMA ReleaseCounts ==
  ASSUME Counts, NEW p \in Players, TransferServerConn(p) \/ Purge(p)
  PROVE  Counts'
<1> DEFINE cs == DOMAIN world[p].chunks
<1>1. /\ task[p] = Idle /\ drops[p] = {}
      /\ drops' = [drops EXCEPT ![p] = RefsOf(world[p], cs)]
      /\ world' = [world EXCEPT ![p] = Without(world[p], cs)]
      /\ UNCHANGED cacheVars /\ UNCHANGED task /\ UNCHANGED mode
  <2>1. CASE TransferServerConn(p)
    BY <2>1 DEF TransferServerConn, lifeVars, Free
  <2>2. CASE Purge(p)
    BY <2>2 DEF Purge, cacheVars, Free
  <2> QED
    BY <2>1, <2>2
<1>2. PICK rq \in BOOLEAN : request' = [request EXCEPT ![p] = rq]
  <2>1. CASE TransferServerConn(p)
    BY <2>1 DEF TransferServerConn
  <2>2. CASE Purge(p)
    BY <2>2, OneCounts DEF Purge
  <2> QED
    BY <2>1, <2>2
<1>3. Shape(world[p], {}, task[p], mode[p], request[p]) /\ cs \subseteq Positions
  BY <1>1, OneCounts DEF Shape, WorldShape
<1> DEFINE x == Without(world[p], cs)
<1>4. /\ Shape(x, RefsOf(world[p], cs), task[p], mode[p], request[p])
      /\ RefsIn(x, RefsOf(world[p], cs), task[p]) = RefsIn(world[p], {}, task[p])
  BY <1>1, <1>3, ReleasedShape DEF Idle
<1>5. Shape(x, RefsOf(world[p], cs), task[p], mode[p], rq)
  <2>1. DOMAIN x.chunks = {}
    BY <1>1, <1>3, WithoutShape DEF Shape, Idle
  <2> HIDE DEF x
  <2>2. OneKind(x, task[p], rq)
    BY <1>1, <2>1 DEF OneKind, Idle
  <2> QED
    BY <1>4, <2>2 DEF Shape
<1>6. RefsIn(x, RefsOf(world[p], cs), task[p]) = References(p)
  BY <1>1, <1>4, OneCounts
<1>7. /\ world' = [world EXCEPT ![p] = x] /\ drops' = [drops EXCEPT ![p] = RefsOf(world[p], cs)]
      /\ task' = [task EXCEPT ![p] = task[p]] /\ mode' = mode /\ UNCHANGED cacheVars
  BY <1>1, OneCounts
<1> HIDE DEF x, cs
<1> QED
  BY <1>2, <1>5, <1>6, <1>7, HoldingCounts

\* handleMovement: CleanChunks releases what is out of range.
LEMMA MoveCounts ==
  ASSUME Counts, NEW p \in Players, Move(p)
  PROVE  Counts'
<1> DEFINE w == world[p]
<1>1. PICK at \in Positions :
        LET gone == IF at = w.lastCleanPos THEN {} ELSE OutOfRange(w, radius[p].chunk, at)
        IN  /\ drops' = [drops EXCEPT ![p] = RefsOf(w, gone)]
            /\ world' = [world EXCEPT ![p] =
                IF at = w.lastCleanPos THEN w ELSE Without(Cleaned(w, radius[p].chunk, at), gone)]
  BY DEF Move
<1>2. /\ task[p] = Idle /\ drops[p] = {}
      /\ UNCHANGED <<cacheVars, task, mode, request>>
  BY DEF Move, Free, lifeVars
<1>3. Shape(w, {}, task[p], mode[p], request[p]) /\ References(p) = RefsIn(w, {}, task[p])
  BY <1>2, OneCounts
<1>4. CASE at = w.lastCleanPos
  <2>1. RefsOf(w, {}) = {}
    BY DEF RefsOf
  <2>2. drops' = [drops EXCEPT ![p] = {}] /\ world' = [world EXCEPT ![p] = w]
    BY <1>1, <1>4, <2>1
  <2> QED
    BY <1>2, <1>3, <2>2, OneCounts, HoldingCounts, ZenonT(40)
<1>5. CASE at # w.lastCleanPos
  <2> DEFINE c == Cleaned(w, radius[p].chunk, at)
             gone == OutOfRange(w, radius[p].chunk, at)
  <2>1. /\ drops' = [drops EXCEPT ![p] = RefsOf(w, gone)]
        /\ world' = [world EXCEPT ![p] = Without(c, gone)]
    BY <1>1, <1>5
  <2>2. IsWorld(c) /\ c.chunks = w.chunks /\ c.subChunks = w.subChunks /\ c.exempted \subseteq w.exempted
    BY <1>3 DEF Shape, WorldShape, IsWorld, Cleaned
  <2>3. gone \subseteq Positions
    BY <1>3 DEF OutOfRange, Shape, WorldShape
  <2> HIDE DEF c, gone
  <2>4. Shape(c, {}, task[p], mode[p], request[p])
    BY <1>2, <1>3, <2>2 DEF Shape, WorldShape, DropsShape, TaskShape, OneKind
  <2>5. \A D : RefsOf(c, D) = RefsOf(w, D)
    BY <2>2 DEF RefsOf
  <2>6. RefsIn(c, {}, task[p]) = References(p)
    BY <1>3, <2>5 DEF RefsIn
  <2>7. /\ Shape(Without(c, gone), RefsOf(w, gone), task[p], mode[p], request[p])
        /\ RefsIn(Without(c, gone), RefsOf(w, gone), task[p]) = References(p)
    BY <1>2, <2>3, <2>4, <2>5, <2>6, ReleasedShape DEF Idle
  <2>8. /\ world' = [world EXCEPT ![p] = Without(c, gone)] /\ drops' = [drops EXCEPT ![p] = RefsOf(w, gone)]
        /\ task' = [task EXCEPT ![p] = task[p]] /\ request' = [request EXCEPT ![p] = request[p]]
        /\ mode' = mode /\ UNCHANGED cacheVars /\ request[p] \in BOOLEAN
    BY <1>2, <2>1, OneCounts
  <2> HIDE DEF w
  <2> QED
    BY <2>7, <2>8, HoldingCounts
<1> QED
  BY <1>4, <1>5

\* removeChunk gives up one reference after the other.
LEMMA UnsubCounts ==
  ASSUME Counts, NEW p \in Players, Unsub(p)
  PROVE  Counts'
<1>1. PICK ref \in drops[p] :
        /\ chunkCache' = IF ref.of = "chunk" THEN Unsubscribed(chunkCache, ref.hash) ELSE chunkCache
        /\ subCache' = IF ref.of = "sub" THEN Unsubscribed(subCache, ref.hash) ELSE subCache
        /\ drops' = [drops EXCEPT ![p] = drops[p] \ {ref}]
  BY DEF Unsub
<1>2. UNCHANGED <<world, task, mode, request>>
  BY DEF Unsub, lifeVars
<1> DEFINE d == drops[p] \ {ref}
           u == <<p, ref>>
<1>3. Shape(world[p], drops[p], task[p], mode[p], request[p])
  BY OneCounts
<1>4. Shape(world[p], d, task[p], mode[p], request[p])
  BY <1>3 DEF Shape, DropsShape
<1>5. ref \in References(p) /\ RefsIn(world[p], d, task[p]) = References(p) \ {ref}
  <2>1. /\ ref.of \in {"chunk", "sub"} /\ (ref.of = "chunk" => ref.nth = 0)
        /\ ref.at \notin DOMAIN world[p].chunks /\ ref.at \notin DOMAIN world[p].subChunks
    BY <1>3 DEF Shape, DropsShape
  <2>2. ref \notin RefsOf(world[p], Positions)
    BY <2>1 DEF RefsOf, ChunkRef, SubRef
  <2>3. \A t : ref # Arriving(t)
    BY <2>1 DEF Arriving
  <2> QED
    BY <2>2, <2>3, OneCounts DEF RefsIn
<1>6. /\ world' = [world EXCEPT ![p] = world[p]] /\ drops' = [drops EXCEPT ![p] = d]
      /\ task' = [task EXCEPT ![p] = task[p]] /\ mode' = mode
      /\ request' = [request EXCEPT ![p] = request[p]] /\ request[p] \in BOOLEAN
  BY <1>1, <1>2, OneCounts
<1> HIDE DEF d
<1>7. Shapes'
  BY <1>4, <1>6, OneShape DEF Counts
<1>8. Held' = Held \ {u} /\ u \in Held
  <2>1. HoldsNext(p, RefsIn(world[p], d, task[p]))
    BY <1>6, OneHolds DEF Counts
  <2> QED
    BY <1>5, <2>1, HoldsLess
<1>9. ref.of \in {"chunk", "sub"}
  BY <1>3 DEF Shape, DropsShape
<1>10. Counted(chunkCache', Held', "chunk")
  <2>1. CASE ref.of = "chunk"
    BY <1>1, <1>8, <2>1, UnsubscribeCounts DEF Counts
  <2>2. CASE ref.of # "chunk"
    BY <1>1, <1>8, <2>2, OtherCounts DEF Counts
  <2> QED
    BY <2>1, <2>2
<1>11. Counted(subCache', Held', "sub")
  <2>1. CASE ref.of = "sub"
    BY <1>1, <1>8, <2>1, UnsubscribeCounts DEF Counts
  <2>2. CASE ref.of # "sub"
    BY <1>1, <1>8, <2>2, OtherCounts DEF Counts
  <2> QED
    BY <2>1, <2>2
<1>12. SharedShape'
  <2>1. /\ DOMAIN chunkCache' \subseteq DOMAIN chunkCache
        /\ \A h \in DOMAIN chunkCache' : /\ chunkCache'[h].layers = chunkCache[h].layers
                                        /\ chunkCache'[h].dimension = chunkCache[h].dimension
    BY <1>1, UnsubscribedShape DEF Counts, Counted
  <2>2. /\ DOMAIN subCache' \subseteq DOMAIN subCache
        /\ \A h \in DOMAIN subCache' : subCache'[h].sub = subCache[h].sub /\ subCache'[h].layer = subCache[h].layer
    BY <1>1, UnsubscribedShape DEF Counts, Counted
  <2> QED
    BY <2>1, <2>2 DEF Counts, SharedShape, WholeEntry, SubEntry
<1>13. IsFiniteSet(Held')
  BY <1>8, FS_Subset DEF Counts
<1> QED
  BY <1>7, <1>10, <1>11, <1>12, <1>13 DEF Counts

\* AddChunk: the reference of the handler becomes one of the world.
LEMMA AddLevelChunkCounts ==
  ASSUME Counts, NEW p \in Players, AddLevelChunk(p)
  PROVE  Counts'
<1> DEFINE t == task[p]
           c == t.at
           w == world[p]
           info == [cached |-> TRUE, hash |-> t.hash, layers |-> AllAir, dimension |-> t.dimension]
           x == AddChunk(w, c, info)
           other == ChunkRef(c, t.hash)
<1>1. /\ t.kind = "chunk" /\ c \notin DOMAIN w.chunks /\ drops[p] = {}
      /\ world' = [world EXCEPT ![p] = x] /\ task' = [task EXCEPT ![p] = Idle]
      /\ UNCHANGED cacheVars /\ UNCHANGED drops /\ UNCHANGED mode /\ UNCHANGED request
  BY DEF AddLevelChunk, lifeVars
<1>2. Shape(w, {}, t, mode[p], request[p]) /\ mode[p] \in Modes
  BY <1>1, OneCounts
<1>3. /\ c \in Positions /\ t.data \in Payloads /\ t.hash = <<t.data, mode[p]>>
      /\ t.dimension \in Dimensions
  BY <1>1, <1>2 DEF Shape, TaskShape, IsChunkTask, IsSubsTask, Idle, HashOf
<1>4. info \in Infos
  BY <1>2, <1>3 DEF Infos, AllAir
<1>5. /\ IsWorld(x) /\ x.chunks = Put(w.chunks, c, info) /\ DOMAIN x.chunks = DOMAIN w.chunks \union {c}
      /\ x.subChunks = w.subChunks /\ x.exempted = w.exempted \union {c}
  BY <1>2, AddChunkWorld DEF Shape, WorldShape
<1>6. /\ x.chunks[c] = info /\ \A b \in DOMAIN w.chunks : b # c => x.chunks[b] = w.chunks[b]
      /\ x.chunks = [b \in DOMAIN x.chunks |-> x.chunks[b]]
  BY <1>5 DEF Put
<1>7. info.cached /\ info.hash = t.hash
  OBVIOUS
<1> HIDE DEF x, info, w, c, t
<1>8. Shape(x, {}, Idle, mode[p], request[p])
  <2>1. WorldShape(x, Idle)
    <3>1. x.chunks \in [DOMAIN x.chunks -> Infos]
      BY <1>2, <1>4, <1>5, <1>6 DEF Shape, WorldShape
    <3>2. DOMAIN x.subChunks \subseteq DOMAIN x.chunks
      BY <1>1, <1>2, <1>5 DEF Shape, WorldShape, Begins
    <3> QED
      BY <1>2, <1>3, <1>5, <3>1, <3>2 DEF Shape, WorldShape
  <2>2. OneKind(x, Idle, request[p])
    BY <1>1, <1>2, <1>5, <1>6 DEF Shape, OneKind, Idle
  <2> QED
    BY <2>1, <2>2 DEF Shape, DropsShape, TaskShape
<1>9. /\ References(p) = RefsOf(w, Positions) \union {Arriving(t)}
      /\ RefsIn(x, {}, Idle) = RefsOf(x, Positions)
  BY <1>1, OneCounts DEF RefsIn, w, t, Idle
<1>10. /\ Arriving(t).of = "chunk" /\ Arriving(t).nth = 1 /\ Arriving(t).hash = t.hash
       /\ other.of = "chunk" /\ other.nth = 0 /\ other.hash = t.hash /\ other.at = c
  BY DEF Arriving, ChunkRef
<1>11. other \notin RefsOf(w, Positions) /\ Arriving(t) \notin RefsOf(w, Positions)
       /\ other # Arriving(t)
  <2>1. \A ref \in RefsOf(w, Positions) : ref.of = "chunk" => ref.nth = 0 /\ ref.at \in DOMAIN w.chunks
    BY DEF RefsOf, ChunkRef, SubRef
  <2> QED
    BY <1>1, <1>10, <2>1
<1>12. RefsOf(x, Positions) = RefsOf(w, Positions) \union {other}
  <2>1. ASSUME NEW ref, NEW y
        PROVE  ref \in RefsOf(y, Positions) <=>
               \/ \E b \in Positions \cap DOMAIN y.chunks :
                    y.chunks[b].cached /\ ref = ChunkRef(b, y.chunks[b].hash)
               \/ \E b \in Positions \cap DOMAIN y.subChunks : \E i \in DOMAIN y.subChunks[b] :
                    ref = SubRef(b, y.subChunks[b][i], i)
    BY DEF RefsOf
  <2>2. ASSUME NEW ref
        PROVE  (\E b \in Positions \cap DOMAIN x.chunks :
                    x.chunks[b].cached /\ ref = ChunkRef(b, x.chunks[b].hash))
               <=> \/ ref = other
                   \/ \E b \in Positions \cap DOMAIN w.chunks :
                        w.chunks[b].cached /\ ref = ChunkRef(b, w.chunks[b].hash)
    BY <1>1, <1>3, <1>5, <1>6, <1>7
  <2> HIDE DEF other
  <2>3. ASSUME NEW ref
        PROVE  ref \in RefsOf(x, Positions) <=> ref \in RefsOf(w, Positions) \/ ref = other
    BY <1>5, <2>1, <2>2
  <2> QED
    BY <2>3
<1> HIDE DEF other
<1>13. /\ Arriving(t) \in References(p) /\ other \notin References(p)
       /\ RefsIn(x, {}, Idle) = (References(p) \ {Arriving(t)}) \union {other}
  BY <1>9, <1>11, <1>12
<1>14. /\ world' = [world EXCEPT ![p] = x] /\ drops' = [drops EXCEPT ![p] = {}]
       /\ task' = [task EXCEPT ![p] = Idle] /\ mode' = mode
       /\ request' = [request EXCEPT ![p] = request[p]] /\ request[p] \in BOOLEAN
  BY <1>1, OneCounts
<1>15. Shapes'
  BY <1>8, <1>14, OneShape DEF Counts
<1> DEFINE u == <<p, Arriving(t)>>
           v == <<p, other>>
<1>16. /\ Held' = (Held \ {u}) \union {v} /\ u \in Held /\ v \notin Held
  <2>1. HoldsNext(p, RefsIn(x, {}, Idle))
    BY <1>14, OneHolds DEF Counts
  <2> QED
    BY <1>13, <2>1, HoldsOther
<1>17. u[2].of = v[2].of /\ u[2].hash = v[2].hash
  BY <1>10
<1> HIDE DEF u, v
<1>18. \A cache, of : Counted(cache, Held, of) => Counted(cache, Held', of)
  BY <1>16, <1>17, ExchangeCounts DEF Counts
<1>19. IsFiniteSet(Held')
  <2>1. IsFiniteSet(Held \ {u})
    BY FS_Subset DEF Counts
  <2> QED
    BY <1>16, <2>1, FS_AddElement
<1>20. SharedShape'
  BY <1>1 DEF Counts, SharedShape, cacheVars
<1> QED
  BY <1>1, <1>15, <1>18, <1>19, <1>20 DEF Counts, cacheVars

\* SubChunkUpdate.Run starts, with no chunk begun.
LEMMA HandleSubChunkCounts ==
  ASSUME Counts, NEW p \in Players, HandleSubChunk(p)
  PROVE  Counts'
<1>1. PICK pk \in SubPackets :
        task' = [task EXCEPT ![p] =
                   [kind |-> "subs", entries |-> pk.entries, new |-> <<>>,
                    dimension |-> IF pk.dimension \in Dimensions THEN pk.dimension ELSE Overworld]]
  BY DEF HandleSubChunk
<1> DEFINE dim == IF pk.dimension \in Dimensions THEN pk.dimension ELSE Overworld
           t == [kind |-> "subs", entries |-> pk.entries, new |-> <<>>, dimension |-> dim]
<1>d. dim \in Dimensions
  BY ChunkCacheAssumption
<1> HIDE DEF dim
<1>2. /\ task[p] = Idle /\ drops[p] = {} /\ request[p]
      /\ UNCHANGED cacheVars /\ UNCHANGED world /\ UNCHANGED drops /\ UNCHANGED mode /\ UNCHANGED request
  BY DEF HandleSubChunk, Handles, Free, lifeVars
<1>3. Shape(world[p], drops[p], Idle, mode[p], request[p])
  BY <1>2, OneCounts
<1>4. Shape(world[p], drops[p], t, mode[p], request[p])
  <2>1. WorldShape(world[p], t)
    BY <1>3 DEF Shape, WorldShape, Begins, Idle
  <2>2. DropsShape(world[p], drops[p], t)
    BY <1>2 DEF DropsShape
  <2>3. IsSubsTask(world[p], t)
    BY <1>d, ChunkCacheAssumption DEF IsSubsTask
  <2>4. OneKind(world[p], t, request[p])
    BY <1>2, <1>3 DEF Shape, OneKind
  <2> QED
    BY <2>1, <2>2, <2>3, <2>4 DEF Shape, TaskShape
<1>5. RefsIn(world[p], drops[p], t) = References(p)
  BY <1>2, OneCounts DEF RefsIn, Idle
<1>6. /\ world' = [world EXCEPT ![p] = world[p]] /\ drops' = [drops EXCEPT ![p] = drops[p]]
      /\ task' = [task EXCEPT ![p] = t] /\ mode' = mode /\ UNCHANGED cacheVars
      /\ request' = [request EXCEPT ![p] = request[p]] /\ request[p] \in BOOLEAN
  BY <1>1, <1>2, OneCounts DEF dim
<1> HIDE DEF t
<1> QED
  BY <1>4, <1>5, <1>6, HoldingCounts

\* The chunk of an entry is begun unless it is in the packet or in the world already.
LEMMA BegunShape ==
  ASSUME Counts, NEW p \in Players, task[p].kind = "subs", task[p].entries # <<>>
  PROVE  LET e == Head(task[p].entries)
             new == Begun(p, e.pos)
         IN  /\ e \in Entries /\ Tail(task[p].entries) \in Seq(Entries) /\ request[p] /\ drops[p] = {}
             /\ IsSubsTask(world[p], task[p])
             /\ new \in [DOMAIN new -> Begin]
             /\ DOMAIN new \subseteq Positions \ DOMAIN world[p].chunks
             /\ DOMAIN task[p].new \subseteq DOMAIN new
             /\ e.pos \in DOMAIN new \union DOMAIN world[p].chunks
             /\ \A c \in DOMAIN task[p].new : new[c] = task[p].new[c]
             /\ \A c \in DOMAIN new : c \in DOMAIN task[p].new \/ \E d \in Dimensions : new[c] = Blank(d)
<1> DEFINE e == Head(task[p].entries)
           new == Begun(p, e.pos)
           old == task[p].new
<1>1. Shape(world[p], drops[p], task[p], mode[p], request[p])
  BY OneCounts
<1>2. IsSubsTask(world[p], task[p]) /\ request[p] /\ drops[p] = {}
  BY <1>1 DEF Shape, TaskShape, IsChunkTask, Idle, OneKind, DropsShape
<1>3. e \in Entries /\ Tail(task[p].entries) \in Seq(Entries)
  BY <1>2 DEF IsSubsTask
<1>4. Blank(task[p].dimension) \in Begin /\ task[p].dimension \in Dimensions
  <2>1. AllAir \in [Layers -> Blocks] /\ AirOnly \in [Layers -> SUBSET Blocks]
    BY DEF AllAir, AirOnly, Blocks
  <2> QED
    BY <1>2, <2>1 DEF Blank, Begin, IsSubsTask
<1>5. e.pos \in Positions
  BY <1>3 DEF Entries
<1>6. CASE e.pos \in DOMAIN old \/ e.pos \in DOMAIN world[p].chunks
  <2>1. new = old
    BY <1>6 DEF Begun
  <2> QED
    BY <1>2, <1>3, <1>6, <2>1 DEF IsSubsTask
<1>7. CASE ~(e.pos \in DOMAIN old \/ e.pos \in DOMAIN world[p].chunks)
  <2>1. new = Put(old, e.pos, Blank(task[p].dimension))
    BY <1>7 DEF Begun, Blank
  <2>2. /\ DOMAIN new = DOMAIN old \union {e.pos} /\ new = [c \in DOMAIN new |-> new[c]]
        /\ new[e.pos] = Blank(task[p].dimension)
        /\ \A c \in DOMAIN old : new[c] = old[c]
    BY <1>7, <2>1 DEF Put
  <2> HIDE DEF new
  <2>3. new \in [DOMAIN new -> Begin]
    BY <1>2, <1>4, <2>2 DEF IsSubsTask
  <2>4. /\ DOMAIN new \subseteq Positions \ DOMAIN world[p].chunks
        /\ \A c \in DOMAIN new : c \in DOMAIN old \/ \E d \in Dimensions : new[c] = Blank(d)
    BY <1>2, <1>4, <1>5, <1>7, <2>2 DEF IsSubsTask
  <2> QED
    BY <1>2, <1>3, <2>2, <2>3, <2>4 DEF new
<1> QED
  BY <1>6, <1>7

\* The packet with one entry less.
LEMMA NextEntry ==
  ASSUME NEW t, NEW es, NEW old, NEW dim,
         t = [kind |-> "subs", entries |-> es, new |-> old, dimension |-> dim], NEW rest, NEW new
  PROVE  [t EXCEPT !.entries = rest, !.new = new]
           = [kind |-> "subs", entries |-> rest, new |-> new, dimension |-> dim]
<1> DEFINE x == [t EXCEPT !.entries = rest, !.new = new]
<1>1. t \in [kind : {"subs"}, entries : {es}, new : {old}, dimension : {dim}]
  OBVIOUS
<1>2. x \in [kind : {"subs"}, entries : {rest}, new : {new}, dimension : {dim}]
  BY <1>1
<1> HIDE DEF x
<1>3. x = [kind |-> "subs", entries |-> rest, new |-> new, dimension |-> dim]
  BY <1>2
<1> QED
  BY <1>3 DEF x

\* An entry without data leaves what is held.
LEMMA SubChunkEmptyCounts ==
  ASSUME Counts, NEW p \in Players, SubChunkEmpty(p)
  PROVE  Counts'
<1> DEFINE e == Head(task[p].entries)
           new == Begun(p, e.pos)
           t == [task[p] EXCEPT !.entries = Tail(task[p].entries), !.new = new]
<1>1. /\ task[p].kind = "subs" /\ task[p].entries # <<>>
      /\ task' = [task EXCEPT ![p] = [task[p] EXCEPT !.entries = Tail(task[p].entries), !.new = new]]
      /\ UNCHANGED cacheVars /\ UNCHANGED world /\ UNCHANGED drops /\ UNCHANGED mode /\ UNCHANGED request
  BY OneCounts DEF SubChunkEmpty, Counts, Shapes
<1>2. /\ Tail(task[p].entries) \in Seq(Entries) /\ request[p] /\ drops[p] = {}
      /\ IsSubsTask(world[p], task[p])
      /\ new \in [DOMAIN new -> Begin]
      /\ DOMAIN new \subseteq Positions \ DOMAIN world[p].chunks
      /\ DOMAIN task[p].new \subseteq DOMAIN new
  BY <1>1, BegunShape
<1> HIDE DEF new
<1>3. /\ t = [kind |-> "subs", entries |-> Tail(task[p].entries), new |-> new,
              dimension |-> task[p].dimension]
      /\ task[p].dimension \in Dimensions
  <2> DEFINE rest == Tail(task[p].entries)
             was == task[p]
             dim == task[p].dimension
  <2>1. PICK es, old : was = [kind |-> "subs", entries |-> es, new |-> old, dimension |-> dim]
    BY <1>2 DEF IsSubsTask
  <2>2. t = [was EXCEPT !.entries = rest, !.new = new] /\ dim \in Dimensions
    BY <1>2 DEF IsSubsTask
  <2> HIDE DEF rest, was, t, dim
  <2>3. t = [kind |-> "subs", entries |-> rest, new |-> new, dimension |-> dim]
    BY <2>1, <2>2, NextEntry
  <2> QED
    BY <2>2, <2>3 DEF rest, dim
<1>4. Shape(world[p], drops[p], task[p], mode[p], request[p])
  BY OneCounts
<1>5. /\ t.kind = "subs" /\ t.entries = Tail(task[p].entries) /\ t.new = new
      /\ t.dimension = task[p].dimension
  BY <1>3
<1>6. task' = [task EXCEPT ![p] = t]
  BY <1>1
<1> HIDE DEF t
<1>7. Shape(world[p], drops[p], t, mode[p], request[p])
  <2>1. WorldShape(world[p], t)
    BY <1>1, <1>2, <1>4, <1>5 DEF Shape, WorldShape, Begins
  <2>2. DropsShape(world[p], drops[p], t)
    BY <1>2 DEF DropsShape
  <2>3. IsSubsTask(world[p], t)
    BY <1>2, <1>3, <1>5 DEF IsSubsTask
  <2>4. OneKind(world[p], t, request[p])
    BY <1>2, <1>4, <1>5 DEF Shape, OneKind
  <2> QED
    BY <2>1, <2>2, <2>3, <2>4 DEF Shape, TaskShape
<1>8. RefsIn(world[p], drops[p], t) = References(p)
  BY <1>1, <1>5, OneCounts DEF RefsIn
<1>9. /\ world' = [world EXCEPT ![p] = world[p]] /\ drops' = [drops EXCEPT ![p] = drops[p]]
      /\ mode' = mode
      /\ request' = [request EXCEPT ![p] = request[p]] /\ request[p] \in BOOLEAN
      /\ UNCHANGED cacheVars
  BY <1>1, OneCounts
<1> QED
  BY <1>6, <1>7, <1>8, <1>9, HoldingCounts

\* The chunks that were begun are added, with the references their sub-chunks have.
LEMMA AddNewChunksCounts ==
  ASSUME Counts, NEW p \in Players, AddNewChunks(p)
  PROVE  Counts'
<1> DEFINE w == world[p]
           new == task[p].new
           ch == [c \in DOMAIN w.chunks \union DOMAIN new |->
                    IF c \in DOMAIN new
                    THEN [cached |-> FALSE, hash |-> <<>>, layers |-> new[c].layers,
                          dimension |-> new[c].dimension]
                    ELSE w.chunks[c]]
           ex == w.exempted \union DOMAIN new
           x == [w EXCEPT !.chunks = ch, !.exempted = ex]
<1>1. /\ task[p].kind = "subs"
      /\ world' = [world EXCEPT ![p] = x] /\ task' = [task EXCEPT ![p] = Idle]
      /\ UNCHANGED cacheVars /\ UNCHANGED drops /\ UNCHANGED mode /\ UNCHANGED request
  BY OneCounts DEF AddNewChunks, Counts, Shapes, lifeVars
<1>2. Shape(w, drops[p], task[p], mode[p], request[p])
  BY OneCounts
<1>3. IsSubsTask(w, task[p]) /\ request[p] /\ drops[p] = {}
  BY <1>1, <1>2 DEF Shape, TaskShape, IsChunkTask, Idle, OneKind, DropsShape
<1>4. /\ DOMAIN ch = DOMAIN w.chunks \union DOMAIN new
      /\ \A c \in DOMAIN new : ch[c] = [cached |-> FALSE, hash |-> <<>>, layers |-> new[c].layers,
                                       dimension |-> new[c].dimension]
      /\ \A c \in DOMAIN w.chunks : ch[c] = w.chunks[c]
      /\ ch = [c \in DOMAIN ch |-> ch[c]]
  BY <1>3 DEF IsSubsTask
<1> HIDE DEF ch
<1>5. IsWorld(x) /\ x.chunks = ch /\ x.exempted = ex /\ x.subChunks = w.subChunks
  BY <1>2 DEF Shape, WorldShape, IsWorld
<1> HIDE DEF x, w, new
<1>6. Shape(x, {}, Idle, mode[p], request[p])
  <2>1. WorldShape(x, Idle)
    <3>1. ASSUME NEW c \in DOMAIN ch PROVE ch[c] \in Infos
      <4>1. CASE c \in DOMAIN new
        <5>1. new[c].layers \in [Layers -> Blocks] /\ new[c].dimension \in Dimensions
          BY <1>3, <4>1 DEF IsSubsTask, Begin, new
        <5>2. Infos = [cached : BOOLEAN, hash : {<<>>} \union Hashes, layers : [Layers -> Blocks],
                       dimension : Dimensions]
          BY DEF Infos, Blocks, Hashes
        <5>3. [cached |-> FALSE, hash |-> <<>>, layers |-> new[c].layers, dimension |-> new[c].dimension]
                \in [cached : BOOLEAN, hash : {<<>>} \union Hashes, layers : [Layers -> Blocks],
                     dimension : Dimensions]
          BY <5>1
        <5> QED
          BY <1>4, <4>1, <5>2, <5>3
      <4>2. CASE c \in DOMAIN w.chunks
        BY <1>2, <1>4, <4>2 DEF Shape, WorldShape
      <4> QED
        BY <1>4, <4>1, <4>2
    <3>2. DOMAIN x.subChunks \subseteq DOMAIN x.chunks
      BY <1>1, <1>2, <1>4, <1>5 DEF Shape, WorldShape, Begins, new
    <3>3. DOMAIN x.chunks \subseteq Positions /\ x.exempted \subseteq Positions
      BY <1>2, <1>3, <1>4, <1>5 DEF Shape, WorldShape, IsSubsTask, new
    <3>4. x.chunks \in [DOMAIN x.chunks -> Infos]
      BY <1>4, <1>5, <3>1
    <3> QED
      BY <1>2, <1>5, <3>2, <3>3, <3>4 DEF Shape, WorldShape
  <2>2. OneKind(x, Idle, request[p])
    BY <1>2, <1>4, <1>5 DEF Shape, OneKind, Idle
  <2> QED
    BY <2>1, <2>2 DEF Shape, DropsShape, TaskShape, Idle
<1>7. RefsOf(x, Positions) = RefsOf(w, Positions)
  <2>1. {d \in Positions \cap DOMAIN x.chunks : x.chunks[d].cached}
          = {d \in Positions \cap DOMAIN w.chunks : w.chunks[d].cached}
    BY <1>4, <1>5
  <2>2. \A d \in DOMAIN w.chunks : x.chunks[d] = w.chunks[d]
    BY <1>4, <1>5
  <2> QED
    BY <1>5, <2>1, <2>2 DEF RefsOf
<1>8. RefsIn(x, {}, Idle) = References(p)
  BY <1>1, <1>3, <1>7, OneCounts DEF RefsIn, Idle, w
<1>9. /\ drops' = [drops EXCEPT ![p] = {}] /\ mode' = mode
      /\ request' = [request EXCEPT ![p] = request[p]] /\ request[p] \in BOOLEAN
  BY <1>1, <1>3, OneCounts
<1> QED
  BY <1>1, <1>6, <1>8, <1>9, HoldingCounts

\* A layer is written into a chunk of the world that is not cached.
Written(layers, l, sub) == [layers EXCEPT ![l] = sub]
IsWritten(y, w, new, c, l, sub) ==
  /\ IsWorld(y) /\ y.subChunks = w.subChunks /\ y.exempted = w.exempted
  /\ DOMAIN y.chunks = DOMAIN w.chunks /\ y.chunks \in [DOMAIN w.chunks -> Infos]
  /\ \A d \in DOMAIN w.chunks :
       /\ y.chunks[d].cached = w.chunks[d].cached /\ y.chunks[d].hash = w.chunks[d].hash
       /\ y.chunks[d].layers =
            IF d = c /\ c \notin DOMAIN new /\ ~w.chunks[c].cached
            THEN Written(w.chunks[d].layers, l, sub) ELSE w.chunks[d].layers
LEMMA WriteWorldShape ==
  ASSUME NEW w, NEW t, WorldShape(w, t), NEW new, NEW c \in Positions, NEW l \in Layers, NEW sub \in Blocks,
         c \in DOMAIN new \union DOMAIN w.chunks
  PROVE  IsWritten(WriteWorld(w, new, c, l, sub), w, new, c, l, sub)
<1> DEFINE y == WriteWorld(w, new, c, l, sub)
<1>1. CASE ~(c \notin DOMAIN new /\ ~w.chunks[c].cached)
  BY <1>1 DEF WriteWorld, WorldShape, IsWritten
<1>2. CASE c \notin DOMAIN new /\ ~w.chunks[c].cached
  <2> DEFINE lay == [w.chunks[c].layers EXCEPT ![l] = sub]
             info == [w.chunks[c] EXCEPT !.layers = lay]
             ch == [w.chunks EXCEPT ![c].layers[l] = sub]
  <2>1. y = [w EXCEPT !.chunks = ch]
    BY <1>2 DEF WriteWorld
  <2>2. ch = [d \in DOMAIN w.chunks |-> IF d = c THEN info ELSE w.chunks[d]]
    BY DEF WorldShape
  <2>3. Infos = [cached : BOOLEAN, hash : {<<>>} \union Hashes, layers : [Layers -> Blocks],
                 dimension : Dimensions]
    BY DEF Infos, Blocks, Hashes
  <2>4. c \in DOMAIN w.chunks /\ w.chunks[c] \in Infos
    BY <1>2 DEF WorldShape
  <2>5. lay \in [Layers -> Blocks]
    BY <2>3, <2>4
  <2> HIDE DEF lay
  <2>6. /\ info \in Infos /\ info.cached = w.chunks[c].cached /\ info.hash = w.chunks[c].hash
        /\ info.layers = lay
    BY <2>3, <2>4, <2>5
  <2> HIDE DEF info, ch
  <2>7. IsWorld(y) /\ y.chunks = ch /\ y.subChunks = w.subChunks /\ y.exempted = w.exempted
    BY <2>1 DEF WorldShape, IsWorld
  <2>8. ch \in [DOMAIN w.chunks -> Infos] /\ DOMAIN ch = DOMAIN w.chunks
    BY <2>2, <2>6 DEF WorldShape
  <2>9. \A d \in DOMAIN w.chunks : ch[d] = IF d = c THEN info ELSE w.chunks[d]
    BY <2>2
  <2> HIDE DEF y
  <2>10. \A d \in DOMAIN w.chunks :
           /\ y.chunks[d].cached = w.chunks[d].cached /\ y.chunks[d].hash = w.chunks[d].hash
           /\ y.chunks[d].layers = IF d = c THEN lay ELSE w.chunks[d].layers
    BY <2>6, <2>7, <2>9
  <2> QED
    BY <1>2, <2>7, <2>8, <2>10 DEF y, lay, Written, IsWritten
<1> QED
  BY <1>1, <1>2

\* AddSubChunk: one reference more, and nothing else.
LEMMA AddSubChunkShape ==
  ASSUME NEW w, NEW t, WorldShape(w, t), NEW y, IsWorld(y), y.subChunks = w.subChunks,
         DOMAIN y.chunks = DOMAIN w.chunks,
         \A d \in DOMAIN w.chunks :
            y.chunks[d].cached = w.chunks[d].cached /\ y.chunks[d].hash = w.chunks[d].hash,
         NEW c \in Positions, NEW hash \in SubHashes
  PROVE  LET x == AddSubChunk(y, c, hash)
         IN  /\ IsWorld(x) /\ x.chunks = y.chunks /\ x.exempted = y.exempted
             /\ DOMAIN x.subChunks = DOMAIN w.subChunks \union {c}
             /\ x.subChunks \in [DOMAIN x.subChunks -> Seq(SubHashes)]
             /\ \E i : /\ SubRef(c, hash, i) \notin RefsOf(w, Positions)
                       /\ RefsOf(x, Positions) = RefsOf(w, Positions) \union {SubRef(c, hash, i)}
<1> DEFINE x == AddSubChunk(y, c, hash)
           old == IF c \in DOMAIN w.subChunks THEN w.subChunks[c] ELSE <<>>
           subs == Put(w.subChunks, c, Append(old, hash))
           i == Len(old) + 1
<1>1. x = [y EXCEPT !.subChunks = subs]
  BY DEF AddSubChunk
<1>2. old \in Seq(SubHashes)
  BY DEF WorldShape
<1> HIDE DEF old
<1>3. /\ Append(old, hash) \in Seq(SubHashes) /\ DOMAIN Append(old, hash) = DOMAIN old \union {i}
      /\ i \notin DOMAIN old /\ Append(old, hash)[i] = hash
      /\ \A j \in DOMAIN old : Append(old, hash)[j] = old[j]
  BY <1>2
<1>4. /\ DOMAIN subs = DOMAIN w.subChunks \union {c} /\ subs[c] = Append(old, hash)
      /\ \A d \in DOMAIN w.subChunks : d # c => subs[d] = w.subChunks[d]
      /\ subs = [d \in DOMAIN subs |-> subs[d]]
  BY DEF Put
<1> HIDE DEF subs, i
<1>5. IsWorld(x) /\ x.subChunks = subs /\ x.chunks = y.chunks /\ x.exempted = y.exempted
  BY <1>1 DEF IsWorld
<1> HIDE DEF x
<1>6. x.subChunks \in [DOMAIN x.subChunks -> Seq(SubHashes)]
  <2>1. \A d \in DOMAIN subs : subs[d] \in Seq(SubHashes)
    BY <1>3, <1>4 DEF WorldShape
  <2> QED
    BY <1>4, <1>5, <2>1
<1> DEFINE new == SubRef(c, hash, i)
<1>7. ASSUME NEW ref, NEW z
      PROVE  ref \in RefsOf(z, Positions) <=>
               \/ \E b \in Positions \cap DOMAIN z.chunks :
                    z.chunks[b].cached /\ ref = ChunkRef(b, z.chunks[b].hash)
               \/ \E b \in Positions \cap DOMAIN z.subChunks : \E j \in DOMAIN z.subChunks[b] :
                    ref = SubRef(b, z.subChunks[b][j], j)
  BY DEF RefsOf
<1>8. new \notin RefsOf(w, Positions)
  <2>1. \A b, h : new # ChunkRef(b, h)
    BY DEF SubRef, ChunkRef
  <2>2. ASSUME NEW b \in DOMAIN w.subChunks, NEW j \in DOMAIN w.subChunks[b]
        PROVE  new # SubRef(b, w.subChunks[b][j], j)
    <3>1. CASE b = c
      <4>1. w.subChunks[b] = old
        BY <3>1 DEF old
      <4>2. j # i
        BY <1>3, <4>1
      <4> QED
        BY <4>2 DEF SubRef
    <3>2. CASE b # c
      BY <3>2 DEF SubRef
    <3> QED
      BY <3>1, <3>2
  <2> HIDE DEF new
  <2> QED
    BY <1>7, <2>1, <2>2
<1>9. RefsOf(x, Positions) = RefsOf(w, Positions) \union {new}
  <2>1. ASSUME NEW ref
        PROVE  (\E b \in Positions \cap DOMAIN x.chunks :
                    x.chunks[b].cached /\ ref = ChunkRef(b, x.chunks[b].hash))
               <=> \E b \in Positions \cap DOMAIN w.chunks :
                     w.chunks[b].cached /\ ref = ChunkRef(b, w.chunks[b].hash)
    BY <1>5
  <2>2. ASSUME NEW ref
        PROVE  (\E b \in Positions \cap DOMAIN x.subChunks : \E j \in DOMAIN x.subChunks[b] :
                    ref = SubRef(b, x.subChunks[b][j], j))
               <=> \/ ref = new
                   \/ \E b \in Positions \cap DOMAIN w.subChunks : \E j \in DOMAIN w.subChunks[b] :
                        ref = SubRef(b, w.subChunks[b][j], j)
    <3>1. ASSUME NEW b, NEW j
          PROVE  (b \in DOMAIN subs /\ j \in DOMAIN subs[b] /\ ref = SubRef(b, subs[b][j], j))
                 <=> \/ b = c /\ j = i /\ ref = new
                     \/ b \in DOMAIN w.subChunks /\ j \in DOMAIN w.subChunks[b]
                          /\ ref = SubRef(b, w.subChunks[b][j], j)
      <4>1. CASE b # c
        BY <1>4, <4>1
      <4>2. CASE b = c
        <5>1. b \in DOMAIN w.subChunks => w.subChunks[b] = old
          BY <4>2 DEF old
        <5>2. b \notin DOMAIN w.subChunks => DOMAIN old = {}
          BY <4>2 DEF old
        <5> QED
          BY <1>3, <1>4, <4>2, <5>1, <5>2
      <4> QED
        BY <4>1, <4>2
    <3>2. c \in DOMAIN subs /\ i \in DOMAIN subs[c] /\ new = SubRef(c, subs[c][i], i)
      BY <1>3, <1>4
    <3> HIDE DEF new
    <3> QED
      BY <1>5, <3>1, <3>2
  <2> HIDE DEF new
  <2>3. ASSUME NEW ref
        PROVE  ref \in RefsOf(x, Positions) <=> ref \in RefsOf(w, Positions) \/ ref = new
    BY <1>7, <2>1, <2>2, SMTT(40)
  <2> QED
    BY <2>3
<1> QED
  BY <1>4, <1>5, <1>6, <1>8, <1>9 DEF x

\* A layer is written into a chunk that was begun.
IsBegun(new) == new \in [DOMAIN new -> Begin]
IsWrittenNew(n2, new, c, l, sub, y) ==
  /\ DOMAIN n2 = DOMAIN new /\ IsBegun(n2)
  /\ \A d \in DOMAIN new :
       /\ n2[d].layers = IF d = c THEN Written(new[d].layers, l, sub) ELSE new[d].layers
       /\ n2[d].told = IF d = c THEN Tell(new[d].told, y, sub) ELSE new[d].told
LEMMA TellBlocks ==
  ASSUME NEW told \in [Layers -> SUBSET Blocks], NEW y, NEW sub \in Blocks
  PROVE  Tell(told, y, sub) \in [Layers -> SUBSET Blocks]
BY DEF Tell
LEMMA WriteNewShape ==
  ASSUME NEW new, IsBegun(new), NEW c, NEW l \in Layers, NEW sub \in Blocks, NEW y
  PROVE  IsWrittenNew(WriteNew(new, c, l, sub, y, sub), new, c, l, sub, y)
<1> DEFINE n2 == WriteNew(new, c, l, sub, y, sub)
<1>1. CASE c \notin DOMAIN new
  <2>1. n2 = new
    BY <1>1 DEF WriteNew
  <2> QED
    BY <1>1, <2>1 DEF IsWrittenNew
<1>2. CASE c \in DOMAIN new
  <2>0. new \in [DOMAIN new -> Begin]
    BY DEF IsBegun
  <2> DEFINE lay == [new[c].layers EXCEPT ![l] = sub]
             told == Tell(new[c].told, y, sub)
             one == [[new[c] EXCEPT !.layers = lay] EXCEPT !.told = told]
  <2>1. lay \in [Layers -> Blocks] /\ told \in [Layers -> SUBSET Blocks]
    BY <1>2, <2>0, TellBlocks DEF Begin
  <2>2. n2 = [d \in DOMAIN new |-> IF d = c THEN one ELSE new[d]]
    <3>1. n2 = [[new EXCEPT ![c].layers[l] = sub] EXCEPT ![c].told = Tell(@, y, sub)]
      BY <1>2 DEF WriteNew
    <3>2. [new EXCEPT ![c].layers[l] = sub] = [d \in DOMAIN new |-> IF d = c THEN [new[d] EXCEPT !.layers = lay] ELSE new[d]]
      BY <1>2, <2>0
    <3>3. [new[c] EXCEPT !.layers = lay].told = new[c].told
      BY <1>2, <2>0 DEF Begin
    <3> QED
      BY <1>2, <3>1, <3>2, <3>3
  <2> HIDE DEF lay, told
  <2>3. one \in Begin /\ one.layers = lay /\ one.told = told
    BY <1>2, <2>0, <2>1 DEF Begin
  <2> HIDE DEF one, n2
  <2>4. DOMAIN n2 = DOMAIN new /\ n2 \in [DOMAIN new -> Begin]
    BY <2>0, <2>2, <2>3
  <2>5. \A d \in DOMAIN new : /\ n2[d].layers = IF d = c THEN lay ELSE new[d].layers
                              /\ n2[d].told = IF d = c THEN told ELSE new[d].told
    BY <2>2, <2>3
  <2> QED
    BY <2>4, <2>5 DEF n2, lay, told, Written, IsWrittenNew, IsBegun
<1> QED
  BY <1>1, <1>2

\* What the handler of an entry with data does, with the layer it is given.
SubChunkWritten(p, e, hash, new, fresh, l, sub) ==
  /\ e \in Entries /\ sub = Decoded(e.data, mode[p]) /\ hash = SubHashOf(e, mode[p]) /\ hash \in SubHashes
  /\ e.pos \in Positions /\ l \in Layers /\ l \in Places(e.y) /\ sub \in Blocks
  /\ SubEntry(hash, fresh) /\ fresh.subs = 1 /\ "subs" \in DOMAIN fresh
  /\ request[p] /\ drops[p] = {} /\ IsSubsTask(world[p], task[p])
  /\ new \in [DOMAIN new -> Begin]
  /\ DOMAIN new \subseteq Positions \ DOMAIN world[p].chunks
  /\ DOMAIN task[p].new \subseteq DOMAIN new
  /\ e.pos \in DOMAIN new \union DOMAIN world[p].chunks
  /\ \A c \in DOMAIN task[p].new : new[c] = task[p].new[c]
  /\ \A c \in DOMAIN new : c \in DOMAIN task[p].new \/ \E d \in Dimensions : new[c] = Blank(d)
  /\ subCache' = Subscribed(subCache, hash, fresh) /\ UNCHANGED chunkCache
  /\ world' = [world EXCEPT ![p] = AddSubChunk(WriteWorld(world[p], new, e.pos, l, sub), e.pos, hash)]
  /\ task' = [task EXCEPT ![p] = [kind |-> "subs", entries |-> Tail(task[p].entries),
                                  new |-> WriteNew(new, e.pos, l, sub, e.y, sub),
                                  dimension |-> task[p].dimension]]
  /\ view' = IF e.pos \in DOMAIN new THEN view
             ELSE [view EXCEPT ![p][e.pos].layers = Tell(@, e.y, sub)]
  /\ UNCHANGED drops /\ UNCHANGED mode /\ UNCHANGED request
LEMMA SubChunkForm ==
  ASSUME Counts, NEW p \in Players, SubChunkSuccess(p)
  PROVE  \E e, hash, new, fresh, l, sub : SubChunkWritten(p, e, hash, new, fresh, l, sub)
<1> DEFINE e == Head(task[p].entries)
           m == mode[p]
           hash == SubHashOf(e, m)
           new == Begun(p, e.pos)
           dim == DimensionOf(world[p], new, e.pos)
           fresh == [subs |-> 1, layer |-> LayerOf[dim][e.y], sub |-> Decoded(e.data, m)]
           got == Found(subCache, hash, fresh)
           n2 == WriteNew(new, e.pos, got.layer, got.sub, e.y, Decoded(e.data, m))
           rest == Tail(task[p].entries)
<1>1. /\ task[p].kind = "subs" /\ task[p].entries # <<>>
      /\ subCache' = Subscribed(subCache, hash, fresh)
      /\ chunkCache' = WriteCache(chunkCache, world[p], new, e.pos, got.layer, got.sub)
      /\ world' = [world EXCEPT ![p] =
                     AddSubChunk(WriteWorld(world[p], new, e.pos, got.layer, got.sub), e.pos, hash)]
      /\ view' = IF e.pos \in DOMAIN new THEN view
                 ELSE [view EXCEPT ![p][e.pos].layers = Tell(@, e.y, Decoded(e.data, m))]
      /\ task' = [task EXCEPT ![p] = [task[p] EXCEPT !.entries = rest, !.new = n2]]
      /\ UNCHANGED drops /\ UNCHANGED mode /\ UNCHANGED request
  BY ZenonT(40) DEF SubChunkSuccess, Counts, Shapes, lifeVars
<1>2. /\ e \in Entries /\ rest \in Seq(Entries) /\ request[p] /\ drops[p] = {}
      /\ IsSubsTask(world[p], task[p])
      /\ new \in [DOMAIN new -> Begin]
      /\ DOMAIN new \subseteq Positions \ DOMAIN world[p].chunks
      /\ DOMAIN task[p].new \subseteq DOMAIN new
      /\ e.pos \in DOMAIN new \union DOMAIN world[p].chunks
      /\ \A c \in DOMAIN task[p].new : new[c] = task[p].new[c]
      /\ \A c \in DOMAIN new : c \in DOMAIN task[p].new \/ \E d \in Dimensions : new[c] = Blank(d)
  BY <1>1, BegunShape
<1>3. m \in Modes /\ OneKind(world[p], task[p], request[p]) /\ WorldShape(world[p], task[p])
  BY OneCounts DEF Shape
<1> HIDE DEF e, m, new, rest
<1>4. /\ e.pos \in Positions /\ e.y \in Heights /\ e.data \in Payloads
  BY <1>2 DEF Entries
<1>5. hash \in SubHashes /\ hash[1] = e.y /\ hash[2] = e.data /\ hash[3] = m
  BY <1>3, <1>4 DEF SubHashOf, SubHashes
<1>6. dim \in Dimensions
  <2>1. CASE e.pos \in DOMAIN new
    BY <1>2, <2>1 DEF DimensionOf, Begin
  <2>2. CASE e.pos \notin DOMAIN new
    BY <1>2, <1>3, <2>2 DEF DimensionOf, WorldShape, Infos
  <2> QED
    BY <2>1, <2>2
<1> HIDE DEF dim
<1>7. SubEntry(hash, fresh) /\ fresh.subs = 1 /\ "subs" \in DOMAIN fresh /\ \A y \in Heights : Places(y) \subseteq Layers
  BY <1>4, <1>5, <1>6, ChunkCacheAssumption DEF SubEntry, Places
<1> HIDE DEF fresh
<1>8. SubEntry(hash, got)
  BY <1>2, <1>3, <1>7, SubscribedShape
<1>9. got.sub = Decoded(e.data, m) /\ got.layer \in Places(e.y) /\ got.layer \in Layers
  BY <1>4, <1>5, <1>7, <1>8 DEF SubEntry
<1>10. Decoded(e.data, m) \in Blocks
  BY <1>3, <1>4, SMTT(40) DEF Decoded, Blocks, Hashes
<1> HIDE DEF got
<1>11. chunkCache' = chunkCache
  BY <1>1, <1>2, <1>3 DEF WriteCache, OneKind
<1>12. [task[p] EXCEPT !.entries = rest, !.new = n2]
         = [kind |-> "subs", entries |-> rest, new |-> n2, dimension |-> task[p].dimension]
  <2> DEFINE was == task[p]
             of == task[p].dimension
             is == [was EXCEPT !.entries = rest, !.new = n2]
  <2>1. PICK es, old : was = [kind |-> "subs", entries |-> es, new |-> old, dimension |-> of]
    BY <1>2 DEF IsSubsTask
  <2>2. is = [was EXCEPT !.entries = rest, !.new = n2]
    OBVIOUS
  <2> HIDE DEF was, n2, is, of
  <2>3. is = [kind |-> "subs", entries |-> rest, new |-> n2, dimension |-> of]
    BY <2>1, <2>2, NextEntry
  <2> QED
    BY <2>3 DEF was, is, of
<1>13. task' = [task EXCEPT ![p] = [kind |-> "subs", entries |-> rest, new |-> n2,
                                   dimension |-> task[p].dimension]]
  BY <1>1, <1>12
<1>14. SubChunkWritten(p, e, hash, new, fresh, got.layer, got.sub)
  BY <1>1, <1>2, <1>4, <1>5, <1>7, <1>9, <1>10, <1>11, <1>13 DEF SubChunkWritten, m, rest
<1> QED
  BY <1>14

LEMMA SubChunkSuccessCounts ==
  ASSUME Counts, NEW p \in Players, SubChunkSuccess(p)
  PROVE  Counts'
<1>1. PICK e, hash, new, fresh, l, sub : SubChunkWritten(p, e, hash, new, fresh, l, sub)
  BY SubChunkForm
<1> DEFINE w == world[p]
           y == WriteWorld(w, new, e.pos, l, sub)
           x == AddSubChunk(y, e.pos, hash)
           n2 == WriteNew(new, e.pos, l, sub, e.y, sub)
           t == [kind |-> "subs", entries |-> Tail(task[p].entries), new |-> n2, dimension |-> task[p].dimension]
<1>2. Shape(w, drops[p], task[p], mode[p], request[p])
  BY OneCounts
<1>3. /\ IsWorld(y) /\ y.subChunks = w.subChunks /\ y.exempted = w.exempted
      /\ DOMAIN y.chunks = DOMAIN w.chunks /\ y.chunks \in [DOMAIN w.chunks -> Infos]
      /\ \A d \in DOMAIN w.chunks :
           y.chunks[d].cached = w.chunks[d].cached /\ y.chunks[d].hash = w.chunks[d].hash
  <2>1. /\ WorldShape(w, task[p]) /\ e.pos \in Positions /\ l \in Layers /\ sub \in Blocks
        /\ e.pos \in DOMAIN new \union DOMAIN w.chunks
    BY <1>1, <1>2 DEF Shape, SubChunkWritten
  <2> HIDE DEF w
  <2>2. IsWritten(y, w, new, e.pos, l, sub)
    BY <2>1, WriteWorldShape
  <2> HIDE DEF y
  <2> QED
    BY <2>2 DEF IsWritten
<1> HIDE DEF y
<1>4. /\ IsWorld(x) /\ x.chunks = y.chunks /\ x.exempted = y.exempted
      /\ DOMAIN x.subChunks = DOMAIN w.subChunks \union {e.pos}
      /\ x.subChunks \in [DOMAIN x.subChunks -> Seq(SubHashes)]
      /\ \E i : /\ SubRef(e.pos, hash, i) \notin RefsOf(w, Positions)
                /\ RefsOf(x, Positions) = RefsOf(w, Positions) \union {SubRef(e.pos, hash, i)}
  BY <1>1, <1>2, <1>3, AddSubChunkShape DEF Shape, SubChunkWritten
<1>5. PICK i : /\ SubRef(e.pos, hash, i) \notin RefsOf(w, Positions)
               /\ RefsOf(x, Positions) = RefsOf(w, Positions) \union {SubRef(e.pos, hash, i)}
  BY <1>4
<1> HIDE DEF x
<1>6. /\ DOMAIN n2 = DOMAIN new
      /\ n2 \in [DOMAIN n2 -> Begin]
  <2>1. IsBegun(new) /\ l \in Layers /\ sub \in Blocks
    BY <1>1 DEF SubChunkWritten, IsBegun
  <2>2. IsWrittenNew(n2, new, e.pos, l, sub, e.y)
    BY <2>1, WriteNewShape
  <2> HIDE DEF n2
  <2> QED
    BY <2>2 DEF IsWrittenNew, IsBegun
<1> HIDE DEF n2
<1>7. /\ t.kind = "subs" /\ t.entries = Tail(task[p].entries) /\ t.new = n2
      /\ t.dimension = task[p].dimension
  OBVIOUS
<1>8. Tail(task[p].entries) \in Seq(Entries)
  <2>1. task[p].entries \in Seq(Entries) /\ task[p].kind = "subs" /\ task[p].entries # <<>>
    BY <1>1 DEF SubChunkWritten, IsSubsTask, SubChunkSuccess
  <2> QED
    BY <2>1, SMTT(40)
<1>9. Shape(x, {}, t, mode[p], request[p])
  <2>1. WorldShape(x, t)
    <3>1. DOMAIN x.subChunks \subseteq DOMAIN x.chunks \union Begins(t)
      BY <1>1, <1>2, <1>3, <1>4, <1>6, <1>7 DEF Shape, WorldShape, Begins, SubChunkWritten, IsSubsTask
    <3> QED
      BY <1>2, <1>3, <1>4, <3>1 DEF Shape, WorldShape
  <2>2. DropsShape(x, {}, t)
    BY DEF DropsShape
  <2>3. IsSubsTask(x, t)
    BY <1>1, <1>3, <1>4, <1>6, <1>7, <1>8 DEF IsSubsTask, SubChunkWritten
  <2>4. OneKind(x, t, request[p])
    BY <1>1, <1>2, <1>3, <1>4, <1>7 DEF Shape, OneKind, SubChunkWritten
  <2> QED
    BY <2>1, <2>2, <2>3, <2>4 DEF Shape, TaskShape
<1> DEFINE ref == SubRef(e.pos, hash, i)
           u == <<p, ref>>
<1>10. drops[p] = {} /\ task[p].kind = "subs"
  BY <1>1 DEF SubChunkWritten, IsSubsTask
<1>11. ref.of = "sub" /\ ref.hash = hash
  BY DEF SubRef
<1> HIDE DEF t, ref
<1>12. RefsIn(x, {}, t) = References(p) \union {ref} /\ ref \notin References(p)
  BY <1>5, <1>7, <1>10, OneCounts DEF RefsIn, w, ref
<1>13. /\ world' = [world EXCEPT ![p] = x] /\ drops' = [drops EXCEPT ![p] = {}]
       /\ task' = [task EXCEPT ![p] = t] /\ mode' = mode
       /\ request' = [request EXCEPT ![p] = request[p]] /\ request[p] \in BOOLEAN
       /\ subCache' = Subscribed(subCache, u[2].hash, fresh) /\ chunkCache' = chunkCache
  BY <1>1, <1>10, <1>11, OneCounts DEF SubChunkWritten, x, y, w, t, n2
<1>14. Shapes'
  BY <1>9, <1>13, OneShape DEF Counts
<1>15. Held' = Held \union {u} /\ u \notin Held
  <2>1. HoldsNext(p, RefsIn(x, {}, t))
    BY <1>13, OneHolds DEF Counts
  <2> QED
    BY <1>12, <2>1, HoldsMore
<1>16. u[2].of = "sub"
  BY <1>11
<1> HIDE DEF u
<1>17. Counted(subCache', Held', "sub")
  <2>1. fresh.subs = 1 /\ "subs" \in DOMAIN fresh
    BY <1>1 DEF SubChunkWritten
  <2> QED
    BY <2>1, <1>13, <1>15, <1>16, SubscribeCounts DEF Counts
<1>18. Counted(chunkCache', Held', "chunk")
  BY <1>13, <1>15, <1>16, OtherCounts DEF Counts
<1>19. SharedShape'
  <2>1. mode[p] \in Modes
    BY OneCounts
  <2>2. \A h \in DOMAIN subCache' : h \in SubHashes /\ SubEntry(h, subCache'[h])
    BY <1>1, <2>1, SubscribedShape DEF SubChunkWritten
  <2> QED
    BY <1>13, <2>2 DEF Counts, SharedShape
<1>20. IsFiniteSet(Held')
  BY <1>15, FS_AddElement DEF Counts
<1> QED
  BY <1>14, <1>17, <1>18, <1>19, <1>20 DEF Counts

\* Every step keeps the counts.
LEMMA CountsKept == Counts /\ [Next]_vars => Counts'
<1> SUFFICES ASSUME Counts, [Next]_vars PROVE Counts'
  OBVIOUS
<1>1. CASE UNCHANGED vars
  BY <1>1, NothingCounts DEF vars
<1>2. ASSUME NEW p \in Players,
             \/ Handler(p) \/ HandleLevelChunk(p) \/ HandleCorruptLevelChunk(p)
             \/ HandleSubChunk(p) \/ HandleBlobSubChunk(p)
             \/ Move(p) \/ SetServerChunkRadius(p) \/ SetChunkRadius(p)
             \/ TransferServerConn(p) \/ Close(p) \/ Purge(p) \/ TickStops(p)
      PROVE  Counts'
  <2>1. CASE Unsub(p) \/ ReplaceLevelChunk(p) \/ AddLevelChunk(p)
    BY <2>1, UnsubCounts, ReplaceLevelChunkCounts, AddLevelChunkCounts
  <2>2. CASE SubChunkSuccess(p) \/ SubChunkEmpty(p) \/ AddNewChunks(p)
    BY <2>2, SubChunkSuccessCounts, SubChunkEmptyCounts, AddNewChunksCounts
  <2>3. CASE HandleLevelChunk(p) \/ HandleSubChunk(p)
    BY <2>3, HandleLevelChunkCounts, HandleSubChunkCounts
  <2>4. CASE HandleCorruptLevelChunk(p) \/ HandleBlobSubChunk(p) \/ SetServerChunkRadius(p)
             \/ SetChunkRadius(p) \/ Close(p) \/ TickStops(p)
    <3>1. UNCHANGED <<chunkCache, subCache, world, drops, task, mode, request>>
      BY <2>4 DEF HandleCorruptLevelChunk, HandleBlobSubChunk, SetServerChunkRadius, SetChunkRadius, Close, TickStops,
                  cacheVars, lifeVars
    <3> QED
      BY <3>1, NothingCounts
  <2>5. CASE Move(p) \/ TransferServerConn(p) \/ Purge(p)
    BY <2>5, MoveCounts, ReleaseCounts
  <2> QED
    BY <1>2, <2>1, <2>2, <2>3, <2>4, <2>5 DEF Handler
<1> QED
  BY <1>1, <1>2 DEF Next

\* Nothing is cached and nothing held at first.
LEMMA CountsInit == Init => Counts
<1> SUFFICES ASSUME Init PROVE Counts
  OBVIOUS
<1>1. PICK s \in Sessions : mode = s.mode /\ request = s.request
  BY DEF Init
<1>2. mode \in [Players -> Modes] /\ request \in [Players -> BOOLEAN]
  BY <1>1, ChunkCacheAssumption DEF Modes
<1>3. \A p \in Players : world[p] = NewWorld /\ drops[p] = {} /\ task[p] = Idle
  BY DEF Init
<1>4. \A m, rq : Shape(NewWorld, {}, Idle, m, rq)
  <2>1. IsWorld(NewWorld)
    BY DEF IsWorld, NewWorld
  <2>2. /\ DOMAIN NewWorld.chunks = {} /\ DOMAIN NewWorld.subChunks = {} /\ NewWorld.exempted = {}
        /\ NewWorld.chunks = <<>> /\ NewWorld.subChunks = <<>>
    BY DEF NewWorld
  <2>3. \A S : <<>> \in [{} -> S]
    OBVIOUS
  <2>4. WorldShape(NewWorld, Idle)
    BY <2>1, <2>2, <2>3 DEF WorldShape
  <2>5. \A rq : OneKind(NewWorld, Idle, rq)
    BY <2>2 DEF OneKind, Idle
  <2> QED
    BY <2>4, <2>5 DEF Shape, DropsShape, TaskShape
<1>5. Shapes
  <2>1. /\ world = [p \in Players |-> world[p]] /\ drops = [p \in Players |-> drops[p]]
        /\ task = [p \in Players |-> task[p]]
    BY DEF Init
  <2> QED
    BY <1>2, <1>3, <1>4, <2>1 DEF Shapes
<1>6. Held = {}
  <2>1. RefsOf(NewWorld, Positions) = {}
    BY DEF RefsOf, NewWorld
  <2>2. \A p \in Players : References(p) = {}
    BY <1>3, <2>1 DEF References, Idle
  <2> QED
    BY <2>2 DEF Held
<1>7. chunkCache = <<>> /\ subCache = <<>>
  BY DEF Init
<1>8. SharedShape
  BY <1>7 DEF SharedShape
<1>9. \A of : Counted(<<>>, {}, of)
  BY DEF Counted
<1> QED
  BY <1>5, <1>6, <1>7, <1>8, <1>9, FS_EmptySet DEF Counts

\* The other types.
Types ==
  /\ closed \in [Players -> BOOLEAN] /\ purged \in [Players -> BOOLEAN]
  /\ \A p \in Players : purged[p] => closed[p]
  /\ radius \in [Players -> [server : Radii \union {0}, chunk : Radii \union {Unlimited}]]
LEMMA TypesKept == Types /\ Counts /\ [Next]_vars => Types'
<1> SUFFICES ASSUME Types, Counts, [Next]_vars PROVE Types'
  OBVIOUS
<1>1. CASE UNCHANGED vars
  BY <1>1 DEF vars, Types
<1>2. ASSUME NEW p \in Players,
             \/ Handler(p) \/ HandleLevelChunk(p) \/ HandleCorruptLevelChunk(p)
             \/ HandleSubChunk(p) \/ HandleBlobSubChunk(p)
             \/ Move(p) \/ SetServerChunkRadius(p) \/ SetChunkRadius(p)
             \/ TransferServerConn(p) \/ Close(p) \/ Purge(p) \/ TickStops(p)
      PROVE  Types'
  <2>1. CASE UNCHANGED <<closed, purged, radius>>
    BY <2>1 DEF Types
  <2>2. CASE \/ Unsub(p) \/ ReplaceLevelChunk(p) \/ AddLevelChunk(p) \/ SubChunkSuccess(p)
             \/ AddNewChunks(p) \/ HandleLevelChunk(p) \/ HandleSubChunk(p) \/ Move(p)
             \/ TransferServerConn(p)
    <3>1. UNCHANGED <<closed, purged, radius>>
      BY <2>2 DEF Unsub, ReplaceLevelChunk, AddLevelChunk, SubChunkSuccess, AddNewChunks,
                  HandleLevelChunk, HandleSubChunk, Move, TransferServerConn, lifeVars
    <3> QED
      BY <2>1, <3>1, SMTT(40)
  <2>3. CASE HandleCorruptLevelChunk(p) \/ HandleBlobSubChunk(p) \/ Close(p)
    BY <2>3 DEF HandleCorruptLevelChunk, HandleBlobSubChunk, Close, Types
  <2>4. CASE SubChunkEmpty(p)
    <3>1. PICK b \in BOOLEAN : closed' = [closed EXCEPT ![p] = closed[p] \/ b]
      BY <2>4 DEF SubChunkEmpty
    <3>2. UNCHANGED <<purged, radius>>
      BY <2>4 DEF SubChunkEmpty
    <3> QED
      BY <3>1, <3>2 DEF Types
  <2>5. CASE Purge(p)
    BY <2>5 DEF Purge, Types
  <2>6. CASE TickStops(p)
    BY <2>6 DEF TickStops, Types
  <2>7. CASE SetServerChunkRadius(p)
    <3>1. PICK r \in Radii : radius' = [radius EXCEPT ![p] = [server |-> r, chunk |-> r]]
      BY <2>7 DEF SetServerChunkRadius
    <3>2. UNCHANGED <<closed, purged>>
      BY <2>7 DEF SetServerChunkRadius, lifeVars
    <3> QED
      BY <3>1, <3>2 DEF Types
  <2>8. CASE SetChunkRadius(p)
    <3>1. PICK r \in Radii : radius' = [radius EXCEPT ![p].chunk =
            IF r > radius[p].server /\ radius[p].server # 0 THEN radius[p].server ELSE r]
      BY <2>8 DEF SetChunkRadius
    <3>2. UNCHANGED <<closed, purged>>
      BY <2>8 DEF SetChunkRadius, lifeVars
    <3> DEFINE n == IF r > radius[p].server /\ radius[p].server # 0 THEN radius[p].server ELSE r
    <3>3. n \in Radii
      BY DEF Types
    <3> HIDE DEF n
    <3>4. radius' = [radius EXCEPT ![p].chunk = n]
      BY <3>1 DEF n
    <3> QED
      BY <3>2, <3>3, <3>4 DEF Types
  <2> QED
    BY <1>2, <2>2, <2>3, <2>4, <2>5, <2>6, <2>7, <2>8 DEF Handler
<1> QED
  BY <1>1, <1>2 DEF Next

LEMMA TypesInit == Init => Types
BY DEF Init, Types

\* unsubC, unsubSC, CacheChunk, CacheSubChunk: the count of an entry is the number of references to
\* it, of all players together, between any two steps of their handlers, and no reference is to an
\* entry that is gone.
THEOREM EntriesCounted == Spec => []CountsExact
<1>1. Init => Counts /\ Types
  BY CountsInit, TypesInit
<1>2. (Counts /\ Types) /\ [Next]_vars => (Counts /\ Types)'
  BY CountsKept, TypesKept
<1>3. Counts /\ Types => CountsExact
  <2> SUFFICES ASSUME Counts, Types PROVE CountsExact
    OBVIOUS
  <2>1. \A of, h : Uses(of, h) = UsesOf(Held, of, h)
    BY DEF Uses, UsesOf
  <2>2. /\ \A h \in DOMAIN chunkCache : /\ chunkCache[h].subs = Cardinality(Uses("chunk", h))
                                        /\ chunkCache[h].subs \in Nat \ {0}
        /\ \A h \in DOMAIN subCache : /\ subCache[h].subs = Cardinality(Uses("sub", h))
                                      /\ subCache[h].subs \in Nat \ {0}
    BY <2>1 DEF Counts, Counted
  <2>3. TypeOK
    <3>1. ASSUME NEW p \in Players
          PROVE  /\ DOMAIN world[p].chunks \subseteq Positions /\ world[p].exempted \subseteq Positions
                 /\ \A c \in DOMAIN world[p].chunks : world[p].chunks[c] \in Infos
                 /\ task[p].kind = "subs" \/ DOMAIN world[p].subChunks \subseteq DOMAIN world[p].chunks
                 /\ task[p].kind \in {"idle", "chunk", "subs"}
      <4>1. Shape(world[p], drops[p], task[p], mode[p], request[p])
        BY OneCounts
      <4>2. task[p].kind \in {"idle", "chunk", "subs"}
        BY <4>1 DEF Shape, TaskShape, IsChunkTask, IsSubsTask, Idle
      <4>3. /\ DOMAIN world[p].chunks \subseteq Positions /\ world[p].exempted \subseteq Positions
            /\ world[p].chunks \in [DOMAIN world[p].chunks -> Infos]
            /\ DOMAIN world[p].subChunks \subseteq DOMAIN world[p].chunks \union Begins(task[p])
        BY <4>1 DEF Shape, WorldShape
      <4>4. task[p].kind = "subs" \/ Begins(task[p]) = {}
        BY DEF Begins
      <4> HIDE DEF Infos
      <4> QED
        BY <4>2, <4>3, <4>4
    <3> HIDE DEF Infos
    <3> QED
      BY <2>2, <3>1 DEF TypeOK, Types
  <2>4. ASSUME NEW p \in Players, NEW ref \in References(p)
        PROVE  ref.hash \in DOMAIN (IF ref.of = "chunk" THEN chunkCache ELSE subCache)
    <3>1. <<p, ref>> \in Held
      BY DEF Held
    <3>2. ref.of \in {"chunk", "sub"}
      <4>1. \A r \in RefsOf(world[p], Positions) : r.of \in {"chunk", "sub"}
        BY DEF RefsOf, ChunkRef, SubRef
      <4>2. \A r \in drops[p] : r.of \in {"chunk", "sub"}
        BY OneCounts DEF Shape, DropsShape
      <4>3. \A t : Arriving(t).of = "chunk"
        BY DEF Arriving
      <4> QED
        BY <4>1, <4>2, <4>3 DEF References
    <3>3. <<p, ref>>[2] = ref
      OBVIOUS
    <3> HIDE DEF References
    <3> QED
      BY <3>1, <3>2, <3>3 DEF Counts, Counted
  <2> QED
    BY <2>2, <2>3, <2>4 DEF CountsExact
<1> QED
  BY <1>1, <1>2, <1>3, PTL DEF Spec

-----------------------------------------------------------------------------
(* What a player reads.  A hash names which payload was decoded in which   *)
(* mode, although not for which dimension, and nobody writes into a        *)
(* decoded chunk.                                                          *)

OwnView(w, t, v) ==
  /\ t.kind = "subs" => \A c \in DOMAIN t.new : ReadAs(t.new[c].layers, t.new[c].told)
  /\ \A c \in DOMAIN w.chunks :
       /\ v[c].sent
       /\ IF w.chunks[c].cached
          THEN v[c].layers = MayRead(w.chunks[c].hash[1], w.chunks[c].hash[2])
          ELSE ReadAs(w.chunks[c].layers, v[c].layers)
Owns == \A p \in Players : OwnView(world[p], task[p], view[p])
ReadInv == IInv /\ Counts /\ Owns

\* A sub-chunk goes to a layer some dimension has for it, and the player was told of all of them.
LEMMA TellReads ==
  ASSUME NEW layers, layers = [k \in Layers |-> layers[k]], NEW told, ReadAs(layers, told),
         NEW y, NEW l \in Places(y), NEW sub
  PROVE  ReadAs(Written(layers, l, sub), Tell(told, y, sub))
BY DEF ReadAs, Written, Tell

\* A handler changes one player.
LEMMA OneOwns ==
  ASSUME ReadInv, NEW p \in Players, NEW w, NEW t, NEW v, OwnView(w, t, v),
         world' = [world EXCEPT ![p] = w], task' = [task EXCEPT ![p] = t],
         view' = [view EXCEPT ![p] = v]
  PROVE  Owns'
BY DEF ReadInv, IInv, Counts, Shapes, Owns

\* What holds of one player.
LEMMA OneReads ==
  ASSUME ReadInv, NEW p \in Players
  PROVE  /\ OwnView(world[p], task[p], view[p])
         /\ Shape(world[p], drops[p], task[p], mode[p], request[p]) /\ mode[p] \in Modes
         /\ IsViews(view[p])
         /\ view = [view EXCEPT ![p] = view[p]]
         /\ world = [world EXCEPT ![p] = world[p]] /\ task = [task EXCEPT ![p] = task[p]]
BY OneCounts DEF ReadInv, IInv, Good, Owns

\* Fewer chunks, of which the player has been told what it had.
LEMMA FewerOwns ==
  ASSUME NEW w, NEW t, NEW v, OwnView(w, t, v), IsWorld(w), NEW cs, t.kind # "subs",
         NEW v2, \A c \in DOMAIN w.chunks \ cs : v2[c].sent = v[c].sent /\ v2[c].layers = v[c].layers
  PROVE  OwnView(Without(w, cs), t, v2)
<1>1. Without(w, cs).chunks = [c \in DOMAIN w.chunks \ cs |-> w.chunks[c]]
  BY DEF IsWorld, Without, Restrict
<1> DEFINE x == Without(w, cs)
<1> HIDE DEF x
<1>2. x.chunks = [c \in DOMAIN w.chunks \ cs |-> w.chunks[c]]
  BY <1>1 DEF x
<1>3. OwnView(x, t, v2)
  BY <1>2 DEF OwnView
<1> QED
  BY <1>3 DEF x

LEMMA LevelChunkOwns ==
  ASSUME ReadInv, NEW p \in Players,
         HandleLevelChunk(p) \/ ReplaceLevelChunk(p) \/ AddLevelChunk(p)
  PROVE  Owns'
<1>0. /\ OwnView(world[p], task[p], view[p]) /\ IsWorld(world[p]) /\ IsViews(view[p])
      /\ DOMAIN world[p].chunks \subseteq Positions
  BY OneReads DEF Shape, WorldShape
<1>1. CASE HandleLevelChunk(p)
  <2>0. PICK at, hash, data, dim :
          task' = [task EXCEPT ![p] = [kind |-> "chunk", at |-> at, hash |-> hash, data |-> data,
                                       dimension |-> dim]]
    BY <1>1 DEF HandleLevelChunk
  <2> DEFINE t == [kind |-> "chunk", at |-> at, hash |-> hash, data |-> data, dimension |-> dim]
  <2>1. t.kind = "chunk" /\ task' = [task EXCEPT ![p] = t]
    BY <2>0
  <2> HIDE DEF t
  <2>2. UNCHANGED <<world, view>>
    BY <1>1 DEF HandleLevelChunk
  <2>3. OwnView(world[p], t, view[p])
    BY <1>0, <2>1 DEF OwnView
  <2>4. world' = [world EXCEPT ![p] = world[p]] /\ view' = [view EXCEPT ![p] = view[p]]
    BY <2>2, OneReads
  <2> QED
    BY <2>1, <2>3, <2>4, OneOwns
<1>2. CASE ReplaceLevelChunk(p)
  <2> DEFINE c == task[p].at
             v2 == [view[p] EXCEPT ![c] = Nowhere]
             x == Without(world[p], {c})
  <2>1. task[p].kind = "chunk" /\ world' = [world EXCEPT ![p] = x] /\ view' = [view EXCEPT ![p] = v2]
        /\ task' = task
    BY <1>2, OneReads DEF ReplaceLevelChunk
  <2>2. \A d \in DOMAIN world[p].chunks \ {c} : v2[d] = view[p][d]
    BY <1>0 DEF IsViews
  <2> HIDE DEF v2, c
  <2>3. OwnView(x, task[p], v2)
    BY <1>0, <2>1, <2>2, FewerOwns
  <2>4. task' = [task EXCEPT ![p] = task[p]]
    BY <2>1, OneReads
  <2> HIDE DEF x
  <2> QED
    BY <2>1, <2>3, <2>4, OneOwns
<1>3. CASE AddLevelChunk(p)
  <2> DEFINE t == task[p]
             c == t.at
             w == world[p]
             info == [cached |-> TRUE, hash |-> t.hash, layers |-> AllAir, dimension |-> t.dimension]
             x == AddChunk(w, c, info)
             sent == [sent |-> TRUE, layers |-> MayRead(t.data, mode[p]), stage |-> Stage(p, c)]
             v2 == [view[p] EXCEPT ![c] = sent]
  <2>1. /\ t.kind = "chunk" /\ c \notin DOMAIN w.chunks
        /\ world' = [world EXCEPT ![p] = x] /\ task' = [task EXCEPT ![p] = Idle]
        /\ view' = [view EXCEPT ![p] = v2]
    BY <1>3, OneReads DEF AddLevelChunk, SentTo
  <2>2. c \in Positions /\ t.hash[1] = t.data /\ t.hash[2] = mode[p]
    <3>1. TaskShape(world[p], task[p], mode[p])
      BY OneReads DEF Shape
    <3>2. IsChunkTask(t, mode[p])
      BY <2>1, <3>1 DEF TaskShape, IsSubsTask, Idle
    <3>3. t.hash = HashOf(t.data, mode[p]) /\ c \in Positions
      BY <3>2 DEF IsChunkTask
    <3> QED
      BY <3>3 DEF HashOf
  <2>3. x.chunks = Put(w.chunks, c, info)
    BY <1>0, AddChunkWorld
  <2>4. /\ DOMAIN x.chunks = DOMAIN w.chunks \union {c} /\ x.chunks[c] = info
        /\ \A d \in DOMAIN w.chunks : x.chunks[d] = w.chunks[d]
    BY <2>1, <2>3 DEF Put
  <2>5. v2[c] = sent /\ \A d \in DOMAIN w.chunks : v2[d] = view[p][d]
    BY <1>0, <2>1, <2>2 DEF IsViews
  <2>6. /\ info.cached /\ info.hash = t.hash /\ sent.sent
        /\ sent.layers = MayRead(t.hash[1], t.hash[2])
    BY <2>2
  <2> HIDE DEF x, v2, info, sent
  <2>7. OwnView(x, Idle, v2)
    BY <1>0, <2>4, <2>5, <2>6 DEF OwnView, Idle
  <2> QED
    BY <2>1, <2>7, OneOwns
<1> QED
  BY <1>1, <1>2, <1>3

\* The layers of chunks that were begun, and what the packet said of them.
LEMMA SubChunkOwns ==
  ASSUME ReadInv, NEW p \in Players, HandleSubChunk(p) \/ SubChunkEmpty(p) \/ AddNewChunks(p)
  PROVE  Owns'
<1>0. /\ OwnView(world[p], task[p], view[p]) /\ IsViews(view[p])
      /\ Shape(world[p], drops[p], task[p], mode[p], request[p]) /\ Counts
  BY OneReads DEF ReadInv
<1>1. CASE HandleSubChunk(p)
  <2>1. PICK es, dim :
          task' = [task EXCEPT ![p] = [kind |-> "subs", entries |-> es, new |-> <<>>, dimension |-> dim]]
    BY <1>1 DEF HandleSubChunk
  <2> DEFINE t == [kind |-> "subs", entries |-> es, new |-> <<>>, dimension |-> dim]
  <2>2. t.new = <<>> /\ task' = [task EXCEPT ![p] = t]
    BY <2>1
  <2> HIDE DEF t
  <2>3. OwnView(world[p], t, view[p])
    BY <1>0, <2>2 DEF OwnView
  <2>4. world' = [world EXCEPT ![p] = world[p]] /\ view' = [view EXCEPT ![p] = view[p]]
    BY <1>1, OneReads DEF HandleSubChunk
  <2> QED
    BY <2>2, <2>3, <2>4, OneOwns
<1>2. CASE SubChunkEmpty(p)
  <2> DEFINE e == Head(task[p].entries)
             new == Begun(p, e.pos)
             rest == Tail(task[p].entries)
             t == [task[p] EXCEPT !.entries = rest, !.new = new]
  <2>1. /\ task[p].kind = "subs" /\ task[p].entries # <<>>
        /\ task' = [task EXCEPT ![p] = [task[p] EXCEPT !.entries = rest, !.new = new]]
        /\ UNCHANGED <<world, view>>
    BY <1>0, <1>2 DEF SubChunkEmpty, Counts, Shapes
  <2>2. /\ IsSubsTask(world[p], task[p]) /\ DOMAIN task[p].new \subseteq DOMAIN new
        /\ \A c \in DOMAIN task[p].new : new[c] = task[p].new[c]
        /\ \A c \in DOMAIN new : c \in DOMAIN task[p].new \/ \E d \in Dimensions : new[c] = Blank(d)
    BY <1>0, <2>1, BegunShape
  <2> HIDE DEF new, rest
  <2>3. t.new = new
    BY <2>2 DEF IsSubsTask
  <2>4. task' = [task EXCEPT ![p] = t]
    BY <2>1
  <2> HIDE DEF t
  <2>7. \A d : ReadAs(Blank(d).layers, Blank(d).told)
    BY DEF Blank, ReadAs, AllAir, AirOnly
  <2>8. \A c \in DOMAIN new : ReadAs(new[c].layers, new[c].told)
    BY <1>0, <2>1, <2>2, <2>7 DEF OwnView
  <2>5. OwnView(world[p], t, view[p])
    BY <1>0, <2>3, <2>8 DEF OwnView
  <2>6. world' = [world EXCEPT ![p] = world[p]] /\ view' = [view EXCEPT ![p] = view[p]]
    BY <2>1, OneReads
  <2> QED
    BY <2>4, <2>5, <2>6, OneOwns
<1>3. CASE AddNewChunks(p)
  <2> DEFINE w == world[p]
             new == task[p].new
             ch == [c \in DOMAIN w.chunks \union DOMAIN new |->
                      IF c \in DOMAIN new
                      THEN [cached |-> FALSE, hash |-> <<>>, layers |-> new[c].layers,
                          dimension |-> new[c].dimension]
                      ELSE w.chunks[c]]
             x == [w EXCEPT !.chunks = ch, !.exempted = w.exempted \union DOMAIN new]
             v2 == [c \in Positions |->
                      IF c \in DOMAIN new
                      THEN [sent |-> TRUE, layers |-> new[c].told, stage |-> Stage(p, c)] ELSE view[p][c]]
  <2>1. /\ task[p].kind = "subs" /\ world' = [world EXCEPT ![p] = x]
        /\ task' = [task EXCEPT ![p] = Idle] /\ view' = [view EXCEPT ![p] = v2]
    BY <1>0, <1>3, OneReads DEF AddNewChunks, Counts, Shapes
  <2>2. /\ DOMAIN new \subseteq Positions \ DOMAIN w.chunks /\ DOMAIN w.chunks \subseteq Positions
        /\ IsWorld(w)
    BY <1>0, <2>1 DEF Shape, WorldShape, TaskShape, IsChunkTask, IsSubsTask, Idle
  <2>3. /\ DOMAIN ch = DOMAIN w.chunks \union DOMAIN new
        /\ \A c \in DOMAIN new : ~ch[c].cached /\ ch[c].layers = new[c].layers
        /\ \A c \in DOMAIN w.chunks : ch[c] = w.chunks[c]
    BY <2>2
  <2> HIDE DEF ch
  <2>4. x.chunks = ch
    BY <2>2 DEF IsWorld
  <2>5. /\ \A c \in DOMAIN new : v2[c].sent /\ v2[c].layers = new[c].told
        /\ \A c \in DOMAIN w.chunks : v2[c] = view[p][c]
    BY <2>2
  <2> HIDE DEF x, v2
  <2>6. OwnView(x, Idle, v2)
    BY <1>0, <2>1, <2>3, <2>4, <2>5 DEF OwnView, Idle
  <2> QED
    BY <2>1, <2>6, OneOwns
<1> QED
  BY <1>1, <1>2, <1>3

\* A sub-chunk is written where the player was told, and not into a decoded chunk.
LEMMA SubChunkSuccessOwns ==
  ASSUME ReadInv, NEW p \in Players, SubChunkSuccess(p)
  PROVE  Owns'
<1>0. /\ OwnView(world[p], task[p], view[p]) /\ IsViews(view[p])
      /\ Shape(world[p], drops[p], task[p], mode[p], request[p]) /\ Counts
  BY OneReads DEF ReadInv
<1>1. PICK e, hash, new, fresh, l, sub : SubChunkWritten(p, e, hash, new, fresh, l, sub)
  BY <1>0, SubChunkForm
<1> DEFINE w == world[p]
           c == e.pos
           y == WriteWorld(w, new, c, l, sub)
           x == AddSubChunk(y, c, hash)
           n2 == WriteNew(new, c, l, sub, e.y, sub)
           t == [kind |-> "subs", entries |-> Tail(task[p].entries), new |-> n2,
                 dimension |-> task[p].dimension]
           lay == Tell(view[p][c].layers, e.y, sub)
           v2 == IF c \in DOMAIN new THEN view[p] ELSE [view[p] EXCEPT ![c].layers = lay]
<1>2. /\ world' = [world EXCEPT ![p] = x] /\ task' = [task EXCEPT ![p] = t]
      /\ view' = [view EXCEPT ![p] = v2]
  <2>1. view' = IF c \in DOMAIN new THEN view ELSE [view EXCEPT ![p][c].layers = Tell(@, e.y, sub)]
    BY <1>1 DEF SubChunkWritten
  <2>2. view = [view EXCEPT ![p] = view[p]]
    BY OneReads
  <2> QED
    BY <1>1, <2>1, <2>2 DEF SubChunkWritten
<1>3. /\ c \in Positions /\ l \in Layers /\ sub \in Blocks /\ IsBegun(new) /\ hash \in SubHashes
      /\ l \in Places(e.y)
      /\ c \in DOMAIN new \union DOMAIN w.chunks /\ WorldShape(w, task[p]) /\ request[p]
      /\ task[p].kind = "subs"
      /\ \A d \in DOMAIN new : ReadAs(new[d].layers, new[d].told)
      /\ DOMAIN new \subseteq Positions \ DOMAIN w.chunks
  <2>1. task[p].kind = "subs"
    BY <1>1 DEF SubChunkWritten, IsSubsTask
  <2>3. \A d : ReadAs(Blank(d).layers, Blank(d).told)
    BY DEF Blank, ReadAs, AllAir, AirOnly
  <2>2. \A d \in DOMAIN new : ReadAs(new[d].layers, new[d].told)
    BY <1>0, <1>1, <2>1, <2>3 DEF OwnView, SubChunkWritten
  <2> QED
    BY <1>0, <1>1, <2>1, <2>2 DEF SubChunkWritten, IsBegun, Shape
<1>4. IsWritten(y, w, new, c, l, sub)
  <2> HIDE DEF w, c
  <2> QED
    BY <1>3, WriteWorldShape
<1>5. IsWrittenNew(n2, new, c, l, sub, e.y)
  <2> HIDE DEF c
  <2> QED
    BY <1>3, WriteNewShape
<1> HIDE DEF y
<1>6. x.chunks = y.chunks
  BY <1>4 DEF AddSubChunk, IsWritten, IsWorld
<1>7. t.kind = "subs" /\ t.new = n2
  OBVIOUS
<1> HIDE DEF x, n2, t
<1>8. \A d \in DOMAIN n2 : ReadAs(n2[d].layers, n2[d].told)
  <2> SUFFICES ASSUME NEW d \in DOMAIN n2 PROVE ReadAs(n2[d].layers, n2[d].told)
    OBVIOUS
  <2>1. d \in DOMAIN new /\ ReadAs(new[d].layers, new[d].told) /\ new[d].layers = [k \in Layers |-> new[d].layers[k]]
    BY <1>3, <1>5 DEF IsWrittenNew, IsBegun, Begin
  <2>2. ReadAs(Written(new[d].layers, l, sub), Tell(new[d].told, e.y, sub))
    BY <1>3, <2>1, TellReads
  <2> QED
    BY <1>5, <2>1, <2>2 DEF IsWrittenNew
<1>9. \A d \in DOMAIN w.chunks : w.chunks[d].cached = FALSE
  BY <1>0, <1>3 DEF Shape, OneKind, WorldShape, Infos
<1>10. ASSUME NEW d \in DOMAIN w.chunks
       PROVE  v2[d].sent /\ ReadAs(x.chunks[d].layers, v2[d].layers) /\ x.chunks[d].cached = FALSE
  <2>0. /\ view[p][d].sent /\ ReadAs(w.chunks[d].layers, view[p][d].layers) /\ d \in Positions
        /\ IsView(view[p][d]) /\ view[p][d] # Nowhere
        /\ w.chunks[d].layers = [k \in Layers |-> w.chunks[d].layers[k]]
    <3>1. /\ view[p][d].sent /\ ReadAs(w.chunks[d].layers, view[p][d].layers) /\ d \in Positions
          /\ w.chunks[d].layers = [k \in Layers |-> w.chunks[d].layers[k]]
      BY <1>0, <1>3, <1>9 DEF OwnView, WorldShape, Infos
    <3> QED
      BY <1>0, <3>1 DEF IsViews, Nowhere
  <2>1. CASE d = c /\ c \notin DOMAIN new
    <3>1. x.chunks[d].layers = Written(w.chunks[d].layers, l, sub) /\ x.chunks[d].cached = FALSE
      BY <1>4, <1>6, <1>9, <2>1 DEF IsWritten
    <3>2. v2[d] = [view[p][d] EXCEPT !.layers = lay]
      BY <1>0, <2>0, <2>1 DEF IsViews
    <3>3. ReadAs(Written(w.chunks[d].layers, l, sub), lay)
      BY <1>3, <2>0, <2>1, TellReads
    <3> HIDE DEF lay, v2
    <3>4. v2[d].sent /\ v2[d].layers = lay
      BY <2>0, <3>2 DEF IsView, IsSent
    <3> QED
      BY <3>1, <3>3, <3>4
  <2>2. CASE ~(d = c /\ c \notin DOMAIN new)
    <3>1. x.chunks[d].layers = w.chunks[d].layers /\ x.chunks[d].cached = FALSE
      BY <1>4, <1>6, <1>9, <2>2 DEF IsWritten
    <3>2. v2[d] = view[p][d]
      BY <1>0, <2>0, <2>2 DEF IsViews
    <3> QED
      BY <2>0, <3>1, <3>2
  <2> QED
    BY <2>1, <2>2
<1> HIDE DEF v2
<1>11. DOMAIN x.chunks = DOMAIN w.chunks
  BY <1>4, <1>6 DEF IsWritten
<1>12. OwnView(x, t, v2)
  BY <1>7, <1>8, <1>10, <1>11 DEF OwnView
<1> QED
  BY <1>2, <1>12, OneOwns

\* TransferServerConn, Close and CleanChunks.
LEMMA ReleaseOwns ==
  ASSUME ReadInv, NEW p \in Players, Move(p) \/ TransferServerConn(p) \/ Purge(p)
  PROVE  Owns'
<1>0. /\ OwnView(world[p], task[p], view[p]) /\ IsViews(view[p]) /\ IsWorld(world[p])
      /\ DOMAIN world[p].chunks \subseteq Positions
      /\ task' = [task EXCEPT ![p] = task[p]] /\ task[p] = Idle
  <2>1. task' = task /\ task[p] = Idle
    BY DEF Move, TransferServerConn, Purge, Free
  <2> QED
    BY <2>1, OneReads DEF Shape, WorldShape
<1>1. CASE TransferServerConn(p) \/ Purge(p)
  <2> DEFINE w == world[p]
             v2 == [c \in Positions |-> Nowhere]
  <2>1. /\ world' = [world EXCEPT ![p] = Without(w, DOMAIN w.chunks)]
        /\ view' = [view EXCEPT ![p] = v2]
    BY <1>1 DEF TransferServerConn, Purge, Forgotten, ReadInv, IInv
  <2>2. OwnView(Without(w, DOMAIN w.chunks), Idle, v2)
    BY <1>0, FewerOwns DEF Idle
  <2> HIDE DEF v2
  <2> QED
    BY <1>0, <2>1, <2>2, OneOwns
<1>2. CASE Move(p)
  <2> DEFINE w == world[p]
  <2>1. PICK at \in Positions :
          /\ view' = [view EXCEPT ![p] = [c \in Positions |-> Passed(@[c], c, radius[p].chunk, at)]]
          /\ world' = [world EXCEPT ![p] =
               IF at = w.lastCleanPos THEN w
               ELSE Without(Cleaned(w, radius[p].chunk, at), OutOfRange(w, radius[p].chunk, at))]
    BY <1>2 DEF Move
  <2> DEFINE v2 == [c \in Positions |-> Passed(view[p][c], c, radius[p].chunk, at)]
             k == Cleaned(w, radius[p].chunk, at)
             gone == OutOfRange(w, radius[p].chunk, at)
  <2>2. view' = [view EXCEPT ![p] = v2]
    BY <2>1 DEF ReadInv, IInv
  <2>3. ASSUME NEW c \in DOMAIN w.chunks
        PROVE  v2[c].sent = view[p][c].sent /\ v2[c].layers = view[p][c].layers
    <3>1. v2[c] = Passed(view[p][c], c, radius[p].chunk, at)
      BY <1>0
    <3> DEFINE v == view[p][c]
               s == IF InRange(radius[p].chunk, c, at) THEN "near"
                    ELSE IF v.stage = "near" THEN "behind" ELSE v.stage
    <3>2. v2[c] = v \/ v2[c] = [v EXCEPT !.stage = s]
      BY <3>1 DEF Passed
    <3> HIDE DEF v, s, v2
    <3>3. [v EXCEPT !.stage = s].sent = v.sent /\ [v EXCEPT !.stage = s].layers = v.layers
      OBVIOUS
    <3>4. v2[c].sent = v.sent /\ v2[c].layers = v.layers
      BY <3>2, <3>3
    <3> QED
      BY <3>4 DEF v
  <2>4. IsWorld(k) /\ k.chunks = w.chunks
    BY <1>0 DEF IsWorld, Cleaned
  <2> HIDE DEF v2, k, gone
  <2>5. OwnView(w, Idle, v2) /\ OwnView(k, Idle, view[p])
    BY <1>0, <2>3, <2>4 DEF OwnView, Idle
  <2>6. OwnView(Without(k, gone), Idle, v2)
    BY <2>3, <2>4, <2>5, FewerOwns DEF Idle
  <2>7. world' = [world EXCEPT ![p] = IF at = w.lastCleanPos THEN w ELSE Without(k, gone)]
    BY <2>1 DEF k, gone
  <2> HIDE DEF w
  <2> QED
    BY <1>0, <2>2, <2>5, <2>6, <2>7, OneOwns
<1> QED
  BY <1>1, <1>2

LEMMA OwnsKept == ReadInv /\ [Next]_vars => ReadInv'
<1> SUFFICES ASSUME ReadInv, [Next]_vars PROVE ReadInv'
  OBVIOUS
<1>1. IInv' /\ Counts'
  BY Invariance, CountsKept DEF ReadInv
<1>2. CASE UNCHANGED <<world, task, view>>
  BY <1>1, <1>2 DEF ReadInv, Owns
<1>3. ASSUME NEW p \in Players,
             \/ Handler(p) \/ HandleLevelChunk(p) \/ HandleCorruptLevelChunk(p)
             \/ HandleSubChunk(p) \/ HandleBlobSubChunk(p)
             \/ Move(p) \/ SetServerChunkRadius(p) \/ SetChunkRadius(p)
             \/ TransferServerConn(p) \/ Close(p) \/ Purge(p) \/ TickStops(p)
      PROVE  Owns' \/ UNCHANGED <<world, task, view>>
  <2>1. CASE HandleLevelChunk(p) \/ ReplaceLevelChunk(p) \/ AddLevelChunk(p)
    BY <2>1, LevelChunkOwns
  <2>2. CASE HandleSubChunk(p) \/ SubChunkEmpty(p) \/ AddNewChunks(p)
    BY <2>2, SubChunkOwns
  <2>3. CASE SubChunkSuccess(p)
    BY <2>3, SubChunkSuccessOwns
  <2>4. CASE Move(p) \/ TransferServerConn(p) \/ Purge(p)
    BY <2>4, ReleaseOwns
  <2>5. CASE Unsub(p)
    BY <2>5 DEF Unsub
  <2>6. CASE HandleCorruptLevelChunk(p) \/ HandleBlobSubChunk(p) \/ SetServerChunkRadius(p)
             \/ SetChunkRadius(p) \/ Close(p) \/ TickStops(p)
    BY <2>6 DEF HandleCorruptLevelChunk, HandleBlobSubChunk, SetServerChunkRadius, SetChunkRadius, Close, TickStops
  <2> QED
    BY <1>3, <2>1, <2>2, <2>3, <2>4, <2>5, <2>6 DEF Handler
<1>4. CASE UNCHANGED vars
  BY <1>2, <1>4 DEF vars
<1> QED
  BY <1>1, <1>2, <1>3, <1>4 DEF Next, ReadInv

LEMMA OwnsInit == Init => ReadInv
<1> SUFFICES ASSUME Init PROVE ReadInv
  OBVIOUS
<1>1. IInv /\ Counts
  BY Initially, CountsInit
<1>2. ASSUME NEW p \in Players PROVE OwnView(world[p], task[p], view[p])
  <2>1. world[p] = NewWorld /\ task[p] = Idle
    BY DEF Init
  <2> QED
    BY <2>1 DEF OwnView, NewWorld, Idle
<1> QED
  BY <1>1, <1>2 DEF ReadInv, Owns

\* CacheChunk, CacheSubChunk and SubChunkUpdate.Run: in every layer a world reads a decoding of a
\* payload its own backend sent for the place, in the representation of its own session, although
\* the decoded chunks are shared; which dimension it was decoded in, the caches leave open.
THEOREM OwnChunksRead == Spec => []ReadsOwnChunks
<1>1. Init => ReadInv
  BY OwnsInit
<1>2. ReadInv /\ [Next]_vars => ReadInv'
  BY OwnsKept
<1>3. ReadInv => ReadsOwnChunks
  <2> SUFFICES ASSUME ReadInv, NEW p \in Players, NEW c \in DOMAIN world[p].chunks
               PROVE  view[p][c].sent /\ \A l \in Layers : Reads(p, c)[l] \in view[p][c].layers[l]
    BY DEF ReadsOwnChunks
  <2>1. OwnView(world[p], task[p], view[p]) /\ Counts
    BY OneReads DEF ReadInv
  <2>2. CASE world[p].chunks[c].cached
    <3> DEFINE ref == ChunkRef(c, world[p].chunks[c].hash)
    <3>1. c \in Positions
      BY OneReads DEF Shape, WorldShape
    <3>2. <<p, ref>> \in Held
      BY <2>2, <3>1 DEF Held, References, RefsOf
    <3>3. ref.of = "chunk" /\ ref.hash = world[p].chunks[c].hash
      BY DEF ChunkRef
    <3>4. <<p, ref>>[2] = ref
      OBVIOUS
    <3> HIDE DEF ref
    <3>5. world[p].chunks[c].hash \in DOMAIN chunkCache
      BY <2>1, <3>2, <3>3, <3>4 DEF Counts, Counted
    <3> DEFINE h == world[p].chunks[c].hash
    <3>6. PICK pk \in Decodable : pk.data = h[1] /\ chunkCache[h].layers = DecodedChunk(pk, h[2])
      BY <2>1, <3>5 DEF Counts, SharedShape, WholeEntry
    <3>7. view[p][c].sent /\ view[p][c].layers = MayRead(h[1], h[2]) /\ Reads(p, c) = chunkCache[h].layers
      BY <2>1, <2>2 DEF OwnView, Reads
    <3> HIDE DEF h
    <3> QED
      BY <3>6, <3>7 DEF MayRead, DecodedChunk
  <2>3. CASE ~world[p].chunks[c].cached
    BY <2>1, <2>3 DEF OwnView, Reads, ReadAs
  <2> QED
    BY <2>2, <2>3
<1> QED
  BY <1>1, <1>2, <1>3, PTL DEF Spec
=============================================================================
