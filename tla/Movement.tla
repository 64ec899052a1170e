------------------------------- MODULE Movement -------------------------------
(***************************************************************************)
(* The authoritative movement of a player: the component's Update for each *)
(* input (player/component/movement.go), the simulation it runs            *)
(* (player/simulation/movement.go), and the acknowledgements through which *)
(* the server's changes reach it (component/acknowledgement/movement.go).  *)
(*                                                                         *)
(* Lengths and speeds are whole units (see Collision).  A force is a unit  *)
(* of velocity; friction halves a velocity towards zero on the ground and  *)
(* leaves it alone in the air.  The versions of the game are those above   *)
(* 1.20.60, which have no slide offset and adjust the speed at once.       *)
(***************************************************************************)
EXTENDS Collision, Sequences

CONSTANTS
    Width, Height,      \* size of the player's box
    StepHeight, JumpHeight, JumpDelayTicks,
    Terminal,           \* bound on the velocity along y
    MaxSpeed,           \* bound on the velocity along x
    Loaded,             \* the columns whose chunks are loaded
    Inputs,             \* what a PlayerAuthInput may say
    Updates,            \* what the server may send
    Spawns,             \* where a backend may place the player
    MaxKnockbackDelay,  \* MaxKnockbackDelay of the options
    Budget, ChangeCost  \* bound: an input costs one, an update or a transfer ChangeCost

VARIABLES
    m,          \* the movement component
    pending,    \* the server's changes the client has not acknowledged, oldest first
    spent,      \* how much of the budget is spent
    from,       \* where the simulation of the last frame started
    last,       \* which way the last frame went
    inside,     \* for the last two frames: simulated from inside a block
    kbRuns,     \* how often the knockback of each update was set
    granted     \* flight was allowed since the last transfer

vars == <<m, pending, spent, from, last, inside, kbRuns, granted>>

BoundingBox(pos) == Box(pos, <<pos[1] + Width, pos[2] + Height>>)
\* The cell a point of the player's middle axis, n units above the feet, is in.
CellAt(pos, n) == <<(pos[1] + Width \div 2) \div Unit, (pos[2] + n) \div Unit>>
Free(pos) == ~HasNearbyBBoxes(BoundingBox(pos))
Clamp(v, n) == Greater(-n, Lesser(n, v))
Halve(v) == IF v >= 0 THEN v \div 2 ELSE -((-v) \div 2)
Slow(v) == Clamp(v, 1)
Still == <<0, 0>>
InBounds(pos) == pos[1] \in 0..Columns * Unit /\ pos[2] \in 0..Rows * Unit

HasKnockback(s) == s.sinceKb = 0
HasTeleport(s) == s.sinceTp <= s.completion
RemainingTeleportTicks(s) == s.completion - s.sinceTp

Vectors == Int \X Int

\* What the client can say in an input and what the server can change.
Input ==
    [dx : Int, jump : BOOLEAN, hold : BOOLEAN, sneak : BOOLEAN, fly : {"none", "start", "stop"},
     sprint : {"none", "start", "stop", "both"}, glide : {"none", "start", "stop"}, elytra : BOOLEAN,
     glideVel : Vectors, move : Vectors]
Update ==
    [kind : {"knockback"}, vel : Vectors]
    \cup [kind : {"teleport"}, pos : Vectors, onGround : BOOLEAN, smoothed : BOOLEAN]
    \cup [kind : {"abilities"}, mayFly : BOOLEAN, flying : BOOLEAN, noClip : BOOLEAN]
    \cup [kind : {"data"}, immobile : BOOLEAN, sprint : BOOLEAN, gravity : BOOLEAN]
    \cup [kind : {"health"}, alive : BOOLEAN]
    \cup [kind : {"effect"}, add : BOOLEAN]
    \cup [kind : {"mode"}, survival : BOOLEAN]

ASSUME MovementAssumption ==
    /\ Inputs \subseteq Input /\ Updates \subseteq Update /\ Spawns \subseteq Vectors
    /\ Width \in Nat \ {0} /\ Height \in Nat \ {0} /\ StepHeight \in Nat
    /\ Terminal \in Nat /\ JumpHeight \in 1..Terminal /\ JumpDelayTicks \in Nat /\ MaxSpeed \in Nat
    /\ MaxKnockbackDelay \in Nat \ {0} /\ Budget \in Nat /\ ChangeCost \in Nat \ {0}
    /\ \A p \in Spawns : Free(p)

-----------------------------------------------------------------------------
(* tryCollisions *)

\* From where a first part of the way, by, left the box: what is left of the rest, v.
Onward(boxes, backwards, box, by, v, oneWay) ==
    Add(by, ClipAll(boxes, backwards, Translate(box, by), v, oneWay))

\* Along y, then along x, each from the end of the list.
PenetratesAny(boxes, box) == \E n \in boxes : Penetrates(Boxes[n], box)
SweepX(boxes, box, y, vx, oneWay) ==
    [vel |-> Onward(boxes, TRUE, box, y, <<vx, 0>>, oneWay),
     penetrates |-> PenetratesAny(boxes, box) \/ PenetratesAny(boxes, Translate(box, y))]
Sweep(boxes, box, v, oneWay) == SweepX(boxes, box, ClipAll(boxes, TRUE, box, <<0, v[2]>>, oneWay), v[1], oneWay)

\* Up by the height of a step, along x, and down again, each from the start of the list.
StepOver(boxes, box, up, vx, oneWay) ==
    Onward(boxes, FALSE, box, Onward(boxes, FALSE, box, up, <<vx, 0>>, oneWay), <<-up[1], -up[2]>>, oneWay)
Step(boxes, box, vx, oneWay) ==
    StepOver(boxes, box, ClipAll(boxes, FALSE, box, <<0, StepHeight>>, oneWay), vx, oneWay)

Square(n) == n * n

\* Defect: a step is taken although something is where it ends.
StepTaken_Blind(box, step, plain, client) ==
    Square(plain[1]) < Square(step[1]) /\ client # Translate(box, plain).lo

\* The step ends in the open, leads further, and the client did not stay behind.
StepTaken(box, step, plain, client) ==
    /\ ~HasNearbyBBoxes(Translate(box, step))
    /\ Square(plain[1]) < Square(step[1])
    /\ client # Translate(box, plain).lo

\* findSupportingBlock: of the blocks under a box, the one nearest to the player.
SupportUnder(box, pos) ==
    LET under == {c \in CellsOver(Grow(box, Unit)) :
                    \E s \in BlockCollisions(c) : IntersectsWith(s, Extend(box, <<0, -1>>))}
        dist(c) == Square(2 * (c[1] - CellAt(pos, 0)[1]) - 1) + Square(2 * (c[2] - CellAt(pos, 0)[2]) - 1)
    IN  {c \in under : \A d \in under : dist(c) <= dist(d)}

\* checkSupportingBlockPos, and the block that counts as the one underfoot.
Underfoot(pos, support) ==
    IF support # {} THEN Block(CHOOSE c \in support : TRUE)
    ELSE IF Block(CellAt(pos, -1)) = "air" /\ Block(CellAt(pos, -Unit)) = "fence" THEN "fence"
    ELSE Block(CellAt(pos, -1))
Behind(here, pos, vel) ==
    IF here # {} THEN here ELSE SupportUnder(Translate(BoundingBox(pos), <<-vel[1], 0>>), pos)
BlockUnder(s, vel) ==
    Underfoot(s.pos, IF s.onGround THEN Behind(SupportUnder(BoundingBox(s.pos), s.pos), s.pos, vel) ELSE {})

\* Defect: one frame inside of a block is enough to be stuck in it.
Moved_Once(s, vel, penetrates) ==
    [s EXCEPT !.pos = Add(s.pos, vel), !.vel = vel, !.stuck = penetrates, !.penetrated = penetrates]

\* What the component is left with when the velocity it had became vel.
Moved(s, vel, penetrates) ==
    [s EXCEPT !.pos = Add(s.pos, vel), !.vel = vel,
              !.stuck = s.penetrated /\ penetrates, !.penetrated = penetrates,
              !.collideX = s.vel[1] # vel[1], !.collideY = s.vel[2] # vel[2],
              !.onGround = \/ s.vel[2] # vel[2] /\ s.vel[2] < 0
                           \/ s.onGround /\ s.vel[2] = vel[2] /\ s.vel[2] = 0]

\* The step, if it is taken, or else the plain way.
Best(box, plain, step, client) == IF StepTaken(box, step, plain, client) THEN step ELSE plain
Stepped(s, boxes, plain, prevented, client) ==
    IF /\ s.onGround \/ ((s.vel[2] # plain[2] \/ prevented) /\ s.vel[2] < 0)
       /\ s.vel[1] # plain[1]
    THEN Best(BoundingBox(s.pos), plain, Step(boxes, BoundingBox(s.pos), s.vel[1], s.stuck), client)
    ELSE plain
Collide(s, boxes, sweep, prevented, client) ==
    Moved(s, Stepped(s, boxes, sweep.vel, prevented, client), sweep.penetrates)
Within(s, boxes, prevented, client) ==
    Collide(s, boxes, Sweep(boxes, BoundingBox(s.pos), IF prevented THEN <<s.vel[1], 0>> ELSE s.vel, s.stuck),
            prevented, client)
tryCollisions(s, prevented, client) ==
    Within(s, NearbyBBoxes(Extend(BoundingBox(s.pos), s.vel)), prevented, client)

-----------------------------------------------------------------------------
(* the forces *)

attemptKnockback(s) == IF HasKnockback(s) THEN [s EXCEPT !.vel = s.kb] ELSE s

moveRelative(s, in) == [s EXCEPT !.vel[1] = Clamp(@ + in.dx, MaxSpeed)]

\* isJumpBlocked: up first, the way along x is not free; along x first, the way up is not.
Blocked(boxes, box, vel, y, x) ==
    /\ y[2] = vel[2] /\ Onward(boxes, TRUE, box, y, <<vel[1], 0>>, FALSE)[1] # y[1] + vel[1]
    /\ x[1] = vel[1] /\ Onward(boxes, TRUE, box, x, <<0, vel[2]>>, FALSE)[2] # x[2] + vel[2]
isJumpBlocked(boxes, box, vel) ==
    Blocked(boxes, box, vel, ClipAll(boxes, TRUE, box, <<0, vel[2]>>, FALSE), ClipAll(boxes, TRUE, box, <<vel[1], 0>>, FALSE))

\* attemptJump: whether there is a jump, and the velocity it leaves.
Jumps(s, in) == in.jump /\ s.onGround /\ s.jumpDelay = 0
attemptJump(s, in) ==
    IF Jumps(s, in)
    THEN [s EXCEPT !.jumpDelay = JumpDelayTicks,
                   !.vel = <<IF s.sprinting THEN Clamp(s.vel[1] + in.dx, MaxSpeed) ELSE s.vel[1],
                             Greater(JumpHeight, s.vel[2])>>]
    ELSE s
JumpPrevented(s, in) ==
    /\ Jumps(s, in) /\ ~HasKnockback(s) /\ ~HasTeleport(s)
    /\ LET vel == attemptJump(s, in).vel
       IN  isJumpBlocked(NearbyBBoxes(Extend(BoundingBox(s.pos), vel)), BoundingBox(s.pos), vel)

Climb(s, in) ==
    IF Block(CellAt(s.pos, 0)) # "vine" THEN s
    ELSE [s EXCEPT !.vel[2] = IF in.hold \/ s.collideX THEN 1
                              ELSE IF s.sneaking /\ @ < 0 THEN 0 ELSE Greater(@, -1)]

isInsideCobweb(pos) ==
    \E c \in NearbyBlocks(Grow(BoundingBox(pos), Unit)) :
        Block(c) = "web" /\ IntersectsWith(BoundingBox(pos), CellBox(c))
InWeb(s) == IF isInsideCobweb(s.pos) THEN [s EXCEPT !.vel = <<Slow(@[1]), Slow(@[2])>>] ELSE s

\* Something is within the height of a step below the feet.
Supported(pos) ==
    HasNearbyBBoxes(Box(<<pos[1], pos[2] - StepHeight - 1>>, <<pos[1] + Width, pos[2] - StepHeight + Height>>))

\* Defect: a player that sneaks only looks where the feet are.
avoidEdge_Here(s) ==
    IF s.sneaking /\ s.onGround /\ s.vel[2] <= 0 /\ ~Supported(s.pos) THEN [s EXCEPT !.vel[1] = 0] ELSE s

\* avoidEdge: the way along x is shortened, unit by unit, until it keeps a support.
Shortened(pos, vx) ==
    LET dir == IF vx > 0 THEN 1 ELSE -1
        safe == {0} \cup {n \in 1..dir * vx : Supported(Add(pos, <<n * dir, 0>>))}
    IN  dir * (CHOOSE n \in safe : \A k \in safe : k <= n)
avoidEdge(s) ==
    IF s.sneaking /\ s.onGround /\ s.vel[2] <= 0 THEN [s EXCEPT !.vel[1] = Shortened(s.pos, @)] ELSE s

walkOnBlock(s, oldY, under) ==
    IF s.pos[2] = oldY /\ s.onGround /\ ~s.sneaking /\ under = "slime" /\ s.vel[2] = 0
    THEN [s EXCEPT !.vel[1] = Halve(@)] ELSE s

\* landOnBlock: the velocity along y of who lands with old.
landOnBlock(old, in, under) ==
    IF old >= 0 \/ in.sneak THEN 0
    ELSE IF under = "slime" THEN -old
    ELSE IF under = "bed" THEN Lesser(1, -old) ELSE 0

setPostCollisionMotion(s, old, in, under) ==
    [s EXCEPT !.vel = <<IF s.collideX THEN 0 ELSE @[1],
                        IF ~s.collideY THEN @[2]
                        ELSE IF old.onGround THEN 0 ELSE landOnBlock(old.vel[2], in, under)>>]

Fall(v, s) ==
    IF s.levitation THEN v + Clamp(1 - v, 1)
    ELSE IF s.hasGravity THEN Greater(v - 1, -Terminal) ELSE v

-----------------------------------------------------------------------------
(* SimulatePlayerMovement *)

\* What every frame that is not simulated clears.
Skipped(s) == [s EXCEPT !.penetrated = FALSE, !.stuck = FALSE]

simulationIsReliable(s) ==
    \/ RemainingTeleportTicks(s) > 0
    \/ LET box == BoundingBox(s.pos)
           near == NearbyBlocks(Grow(box, Unit))
       IN  /\ ~\E c \in near : Block(c) = "water" /\ IntersectsWith(box, CellBox(c))
           /\ ~\E c \in near : Block(c) = "bamboo"
           /\ s.survival /\ s.alive
           /\ ~s.flying /\ ~s.justDisabled /\ ~s.noClip

\* Reset: the movement becomes what the client says it is.
Reset(s, in) == [s EXCEPT !.pos = Add(s.pos, in.move), !.vel = in.move,
                          !.onGround = s.onGround /\ ~s.flying]

\* Defect: every frame covers the same share of what is left of the way.
Glided_Equal(s) ==
    [s EXCEPT !.pos = [i \in Axes |-> @[i] + (s.tpPos[i] - @[i]) \div (s.completion + 1)], !.jumpDelay = 0]
\* A smoothed teleport covers its equal share of the rest of the way.
Glided(s) ==
    LET remaining == RemainingTeleportTicks(s) + 1
    IN  [s EXCEPT !.pos = [i \in Axes |-> @[i] + (s.tpPos[i] - @[i]) \div remaining], !.jumpDelay = 0]

attemptTeleport(s, in) ==
    IF ~HasTeleport(s) THEN [end |-> FALSE, s |-> s]
    ELSE IF ~s.smoothed
    THEN [end |-> TRUE, s |-> attemptJump([s EXCEPT !.pos = s.tpPos, !.vel = Still, !.jumpDelay = 0], in)]
    ELSE [end |-> RemainingTeleportTicks(s) > 0, s |-> Glided(s)]

\* simulateGlide: the look and the boost give some velocity, the collisions limit it.
simulateGlide(s, in) == tryCollisions([s EXCEPT !.vel = in.glideVel], FALSE, Add(s.pos, in.move))

\* The frame of a player on foot, in the order of the code: the forces, the collisions,
\* the block underfoot, gravity and friction.
Drag(s, vel) == <<IF s.onGround THEN Halve(vel[1]) ELSE vel[1], Fall(vel[2], s)>>
Settle(s, end) == [end EXCEPT !.vel = Drag(s, IF isInsideCobweb(s.pos) THEN Still ELSE @)]
Land(s, old, moved, under, in) ==
    Settle(s, setPostCollisionMotion(walkOnBlock(moved, s.pos[2], under), old, in, under))
Touch(s, old, moved, in) == Land(s, old, moved, BlockUnder(moved, old.vel), in)
Move(s, old, prevented, in) == Touch(s, old, tryCollisions(old, prevented, Add(s.pos, in.move)), in)
Walk(s, pushed, in) ==
    Move(s, avoidEdge(InWeb(Climb(attemptJump(pushed, in), in))), JumpPrevented(pushed, in), in)

LoadedAt(pos) == CellAt(pos, 0)[1] \in Loaded

\* A frame on foot in which nothing but the sneaking player's own step moves it.
Creeps(s, in) ==
    /\ s.sneaking /\ s.onGround /\ s.vel[2] <= 0
    /\ ~Jumps(s, in) /\ ~HasKnockback(s) /\ Block(CellAt(s.pos, 0)) # "vine"

\* The way a frame goes once its teleport is dealt with.
Way(tp, in) ==
    IF tp.end THEN "teleport"
    ELSE IF ~simulationIsReliable(tp.s) THEN "client"
    ELSE IF ~LoadedAt(tp.s.pos) \/ tp.s.immobile THEN "frozen"
    ELSE IF tp.s.gliding /\ in.elytra /\ ~tp.s.onGround THEN "glide"
    ELSE IF Creeps(tp.s, in) THEN "creep" ELSE "walk"
Simulated == {"glide", "creep", "walk"}

SimulatePlayerMovement(s, way, in) ==
    CASE way = "teleport" -> Skipped(s)
      [] way = "client" -> Reset(Skipped(s), in)
      [] way = "frozen" -> [Skipped(s) EXCEPT !.vel = Still]
      [] way = "glide" -> simulateGlide(s, in)
      [] way \in {"creep", "walk"} -> Walk(s, moveRelative(attemptKnockback([s EXCEPT !.gliding = FALSE]), in), in)

-----------------------------------------------------------------------------
(* Update *)

\* The flags of an input: flight, sprint (the server's word if the client says nothing), sneak, glide.
FlyFlags(s, in) ==
    CASE in.fly = "start" -> [s EXCEPT !.toggledFly = TRUE, !.flying = s.flying \/ s.trustFly]
      [] in.fly = "stop" -> [s EXCEPT !.toggledFly = FALSE, !.flying = FALSE,
                                      !.justDisabled = s.justDisabled \/ s.flying]
      [] OTHER -> s
SprintFlags(s, in) ==
    [s EXCEPT !.serverSprintApplied = TRUE,
              !.sprinting = CASE in.sprint = "start" -> TRUE
                              [] in.sprint \in {"stop", "both"} -> FALSE
                              [] OTHER -> IF s.serverSprintApplied THEN @ ELSE s.serverSprint]
Flags(s, in) ==
    [SprintFlags(FlyFlags(s, in), in) EXCEPT
        !.sneaking = in.sneak,
        !.jumpDelay = IF in.hold THEN @ ELSE 0,
        !.gliding = CASE in.glide = "stop" -> FALSE [] in.glide = "start" -> TRUE [] OTHER -> @]

\* Defect: the jump delay is taken down below zero.
Counted_Below(s) == [s EXCEPT !.sinceKb = Lesser(@ + 1, 2), !.sinceTp = Lesser(@ + 1, 4), !.jumpDelay = @ - 1]

Counted(s) == [s EXCEPT !.sinceKb = Lesser(@ + 1, 2), !.sinceTp = Lesser(@ + 1, 4),
                        !.jumpDelay = Greater(@ - 1, 0), !.justDisabled = FALSE]

\* ResetTransferState.
Defaults(pos) ==
    [pos |-> pos, vel |-> Still, kb |-> Still, sinceKb |-> 1,
     tpPos |-> pos, sinceTp |-> 1, completion |-> 0, smoothed |-> FALSE,
     sprinting |-> FALSE, serverSprint |-> FALSE, serverSprintApplied |-> FALSE,
     sneaking |-> FALSE, jumpDelay |-> 0, collideX |-> FALSE, collideY |-> FALSE,
     onGround |-> FALSE, penetrated |-> FALSE, stuck |-> FALSE, immobile |-> FALSE,
     noClip |-> FALSE, gliding |-> FALSE, hasGravity |-> TRUE, flying |-> FALSE,
     trustFly |-> FALSE, toggledFly |-> FALSE, justDisabled |-> FALSE,
     survival |-> TRUE, alive |-> TRUE, levitation |-> FALSE]

\* Defect: a transfer leaves the player trusted to fly.
ResetTransferState_Trust(s, pos) == [Defaults(pos) EXCEPT !.alive = s.alive, !.trustFly = s.trustFly]

ResetTransferState(s, pos) == [Defaults(pos) EXCEPT !.alive = s.alive]

-----------------------------------------------------------------------------
(* the acknowledgements *)

SetKnockback(s, vel) == [s EXCEPT !.kb = vel, !.sinceKb = 0]

Teleport(s, u) == [s EXCEPT !.tpPos = u.pos, !.onGround = u.onGround, !.smoothed = u.smoothed,
                            !.sinceTp = 0, !.completion = IF u.smoothed THEN 2 ELSE 0]

UpdateAbilities(s, u) ==
    [s EXCEPT !.flying = u.flying, !.noClip = u.noClip,
              !.trustFly = IF s.toggledFly THEN u.flying \/ u.mayFly ELSE @,
              !.toggledFly = FALSE]

UpdateActorData(s, u) ==
    [s EXCEPT !.immobile = u.immobile, !.serverSprint = u.sprint, !.serverSprintApplied = FALSE,
              !.hasGravity = u.gravity]

\* What an acknowledgement does to the component; a knockback that ran does nothing.
Apply(s, u) ==
    CASE u.kind = "teleport" -> Teleport(s, u)
      [] u.kind = "abilities" -> UpdateAbilities(s, u)
      [] u.kind = "data" -> UpdateActorData(s, u)
      [] u.kind = "health" -> [s EXCEPT !.alive = u.alive]
      [] u.kind = "effect" -> [s EXCEPT !.levitation = u.add]
      [] u.kind = "mode" -> [s EXCEPT !.survival = u.survival]

\* Defect: a knockback that expired runs again when it is acknowledged.
KnockbackRuns_Again(e) == e.u.kind = "knockback"
KnockbackRuns(e) == e.u.kind = "knockback" /\ ~e.ran

Spend(n) == spent + n <= Budget /\ spent' = spent + n

\* ServerUpdate: the change waits for the client, unless it is a knockback and the
\* client is too far behind.
ServerUpdate(u, cutoff) ==
    /\ Spend(ChangeCost)
    /\ IF u.kind = "knockback" /\ cutoff
       THEN /\ m' = SetKnockback(m, u.vel)
            /\ kbRuns' = Append(kbRuns, 1)
            /\ UNCHANGED pending
       ELSE /\ pending' = Append(pending, [u |-> u, id |-> Len(kbRuns) + 1, ran |-> FALSE, left |-> MaxKnockbackDelay])
            /\ kbRuns' = Append(kbRuns, 0)
            /\ UNCHANGED m
    /\ UNCHANGED <<from, last, inside, granted>>

\* The client answers for the oldest change.
ExecuteACK ==
    /\ pending # <<>>
    /\ LET e == Head(pending)
       IN  /\ IF e.u.kind = "knockback"
              THEN /\ m' = IF KnockbackRuns(e) THEN SetKnockback(m, e.u.vel) ELSE m
                   /\ kbRuns' = IF KnockbackRuns(e) THEN [kbRuns EXCEPT ![e.id] = @ + 1] ELSE kbRuns
              ELSE m' = Apply(m, e.u) /\ UNCHANGED kbRuns
           /\ granted' = (granted \/ (e.u.kind = "abilities" /\ (e.u.mayFly \/ e.u.flying)))
    /\ pending' = Tail(pending)
    /\ UNCHANGED <<spent, from, last, inside>>

\* Knockback.Tick: one input less to wait for; the knockbacks that are due run now.
Due(e) == e.u.kind = "knockback" /\ ~e.ran /\ e.left <= 1
Ticked(e) == IF e.u.kind = "knockback" /\ ~e.ran THEN [e EXCEPT !.left = @ - 1, !.ran = e.left <= 1] ELSE e

\* An input: the acknowledgements are ticked, then Update runs a frame of the simulation.
Simulate(start, way, in) ==
    /\ m' = Counted(SimulatePlayerMovement(start.s, way, in))
    /\ InBounds(m'.pos)
    /\ from' = start.s.pos
    /\ last' = way
    /\ inside' = <<inside[2], way \in Simulated /\ ~Free(start.s.pos)>>
Latest(due) == CHOOSE i \in due : \A j \in due : j <= i
Pushed(due) == IF due = {} THEN m ELSE SetKnockback(m, pending[Latest(due)].u.vel)
PlayerAuthInput(in) ==
    /\ Spend(1)
    /\ \E due \in {{i \in DOMAIN pending : Due(pending[i])}} :
        /\ kbRuns' = [id \in DOMAIN kbRuns |-> IF \E i \in due : pending[i].id = id THEN kbRuns[id] + 1 ELSE kbRuns[id]]
        /\ \E start \in {attemptTeleport(Flags(Pushed(due), in), in)} :
            \E way \in {Way(start, in)} : Simulate(start, way, in)
    /\ pending' = [i \in DOMAIN pending |-> Ticked(pending[i])]
    /\ UNCHANGED granted

\* SetServerConn: the acknowledgements are dropped and the component starts over.
TransferServerConn(pos, survival) ==
    /\ Spend(ChangeCost)
    /\ m' = [ResetTransferState(m, pos) EXCEPT !.survival = survival]
    /\ pending' = <<>>
    /\ from' = pos /\ last' = "none"
    /\ inside' = <<FALSE, FALSE>>
    /\ granted' = FALSE
    /\ UNCHANGED kbRuns

Init ==
    /\ \E pos \in Spawns : m = Defaults(pos) /\ from = pos
    /\ last = "none"
    /\ pending = <<>> /\ kbRuns = <<>>
    /\ spent = 0
    /\ inside = <<FALSE, FALSE>>
    /\ granted = FALSE

Next ==
    \/ \E u \in Updates, cutoff \in BOOLEAN : ServerUpdate(u, cutoff)
    \/ ExecuteACK
    \/ \E in \in Inputs : PlayerAuthInput(in)
    \/ \E pos \in Spawns, survival \in BOOLEAN : TransferServerConn(pos, survival)

Spec == Init /\ [][Next]_vars

-----------------------------------------------------------------------------
(* properties *)

\* The component is well formed and its counters are within their bounds; a change that
\* waits has a place in kbRuns.
Component ==
    [pos : Vectors, vel : Vectors, kb : Vectors, sinceKb : 0..2,
     tpPos : Vectors, sinceTp : 0..4, completion : {0, 2}, smoothed : BOOLEAN,
     sprinting : BOOLEAN, serverSprint : BOOLEAN, serverSprintApplied : BOOLEAN,
     sneaking : BOOLEAN, jumpDelay : 0..JumpDelayTicks, collideX : BOOLEAN, collideY : BOOLEAN,
     onGround : BOOLEAN, penetrated : BOOLEAN, stuck : BOOLEAN, immobile : BOOLEAN,
     noClip : BOOLEAN, gliding : BOOLEAN, hasGravity : BOOLEAN, flying : BOOLEAN,
     trustFly : BOOLEAN, toggledFly : BOOLEAN, justDisabled : BOOLEAN,
     survival : BOOLEAN, alive : BOOLEAN, levitation : BOOLEAN]
Waiting == [u : Updates, id : Nat, ran : BOOLEAN, left : 0..MaxKnockbackDelay]
TypeOK ==
    /\ m \in Component
    /\ pending \in Seq(Waiting) /\ kbRuns \in Seq(Nat)
    /\ \A i \in DOMAIN pending : pending[i].id \in DOMAIN kbRuns
    /\ spent \in 0..Budget /\ from \in Vectors
    /\ last \in Simulated \cup {"none", "teleport", "client", "frozen"}
    /\ inside \in BOOLEAN \X BOOLEAN /\ granted \in BOOLEAN

\* tryCollisions: a player who is not in a block, and is not being teleported, is not in
\* one after a simulated frame, whatever way it went: falling, jumping, up a step that has
\* a ceiling over it, past a fence that is higher than its cell, out of a glide.  The
\* one-way collisions that let a player out of a block need two simulated frames in a row
\* inside it: "stale values from a previous frame must not survive frames that skip it".
NoEntry ==
    /\ TypeOK
    /\ last \in Simulated /\ Free(from) => Free(m.pos)
    /\ m.stuck => inside = <<TRUE, TRUE>>

\* avoidEdge: a player who sneaks on the ground and is held back by nothing still has
\* something within the height of a step below the feet.
EdgeSafe ==
    last = "creep" /\ Free(from) /\ Supported(from) /\ ~m.collideX => Supported(<<m.pos[1], from[2]>>)

\* attemptTeleport: the frame in which a teleport ends starts from the place it leads to,
\* after one frame if it is not smoothed and after three if it is.  Knockback.Run: a
\* knockback is set once, by its acknowledgement, by its expiry or by the cutoff, however
\* they come together.
MovedOnce ==
    /\ m.sinceTp = m.completion + 1 => from = m.tpPos
    /\ \A i \in DOMAIN kbRuns : kbRuns[i] <= 1

\* UpdateAbilities, Update: who flies was allowed to by the backend that is connected.
FlightGranted == m.flying => granted
=============================================================================
