-------------------------- MODULE BlockInteraction --------------------------
(***************************************************************************)
(* What a click with an item, and a block break, do to the copy of the     *)
(* world: AttemptItemInteractionWithBlock and ValidateInteraction of the   *)
(* world updater (player/component/world.go), ActivateBlock and UseOnBlock *)
(* (utils/interaction.go), PlaceBlock and handleBlockActions of the player *)
(* (player/world.go).                                                      *)
(*                                                                         *)
(* The world is a slice one block deep: cells <<x, y>> with the faces up,  *)
(* down, west and east.  UseOnBlock has a case for each kind of block; the *)
(* cases are kept, by the name of the kind, as the rule each of them       *)
(* applies to the place.  Which way a block faces is left out.             *)
(***************************************************************************)
EXTENDS Integers, FiniteSets, Sequences

CONSTANTS
    Width, Height,      \* the cells are (0..Width - 1) \X (0..Height - 1)
    Hands,              \* what the player may hold: kinds of UseOnBlock and others
    Terrains,           \* the worlds to start from
    Stands,             \* the cells the player and the entity may stand in
    Targets,            \* the cells that block actions name
    MaxSteps,           \* bound on the clicks, inputs with block actions and updates
    MaxActions          \* bound on the block actions of one input

VARIABLES
    world,          \* the blocks of the copy
    self,           \* the cell the player stands in
    other,          \* the cell of another entity
    taken,          \* items the placements took from the hand so far
    accepted,       \* initalInteractionAccepted
    serverAuth,     \* isFullServerAuthBlockBreaking
    breakPos,       \* breakingBlockPos
    inProgress,     \* blockBreakInProgress
    progress,       \* blockBreakProgress, in sixths
    steps,          \* clicks, inputs and updates so far
    spent,          \* the cells the current progress was made on
    disturbed,      \* a block was removed or changed other than by placing
    blocked         \* something was in the way of a block that was to be placed

clickVars == <<taken, accepted>>
breakVars == <<breakPos, inProgress, progress, spent>>
interactionVars == <<world, self, other, taken, accepted, serverAuth, breakPos, inProgress, progress,
          steps, spent, disturbed, blocked>>

Cells == (0..Width - 1) \X (0..Height - 1)
Faces == {"up", "down", "west", "east"}
Horizontal == {"west", "east"}
Opposite(f) == CASE f = "up" -> "down" [] f = "down" -> "up"
                 [] f = "west" -> "east" [] f = "east" -> "west"
Side(c, f) == CASE f = "up" -> <<c[1], c[2] + 1>> [] f = "down" -> <<c[1], c[2] - 1>>
                [] f = "west" -> <<c[1] - 1, c[2]>> [] f = "east" -> <<c[1] + 1, c[2]>>
Down(c) == Side(c, "down")
Up(c) == Side(c, "up")

Step == steps < MaxSteps /\ steps' = steps + 1

\* World.Block: air outside of the world.
BlockIn(w, c) == IF c \in Cells THEN w[c] ELSE "Air"
Block(c) == BlockIn(world, c)

ASSUME InteractionAssumption ==
    /\ Width \in Nat \ {0} /\ Height \in Nat \ {0}
    /\ \A w \in Terrains : w = [c \in Cells |-> w[c]]
    /\ Stands \subseteq Cells /\ Targets \subseteq Cells
    /\ MaxSteps \in Nat /\ MaxActions \in Nat

-----------------------------------------------------------------------------
(* external: what Dragonfly says of its blocks *)

Replaceables == {"Air", "Water", "ShallowWater", "ShortGrass", "Fern", "DeadBush", "Vines",
                 "NetherSprouts", "DoubleTallGrass", "DoubleTallGrassTop"}
ReplaceableBy(b, with) == b \in Replaceables /\ b # with
Solids == {"Stone", "Dirt", "Sand", "Farmland", "SoulSand", "Glass", "JungleLog", "Log"}
FaceSolid(b) == b \in Solids
NoCollision == Replaceables \cup {"Torch", "Flower", "BeetrootSeeds", "SugarCane", "Kelp",
                                  "DoubleFlower", "DoubleFlowerTop", "PinkPetals", "Banner"}
EmptyModel == NoCollision
Diffusers == Replaceables \cup {"Glass", "Torch"}           \* LightDiffuser
Opaque(b) == b \notin Diffusers
WaterKinds == {"Water", "ShallowWater"}
SoilFor(b, plant) == IF plant = "Cactus" THEN b \in {"Sand", "Cactus"}
                     ELSE IF plant = "SugarCane" THEN b \in {"Dirt", "Sand"} ELSE b \in {"Dirt", "Farmland"}
Activatables == {"WoodDoor", "WoodDoorTop", "OpenWoodDoor", "OpenWoodDoorTop", "Cake",
                 "CakeLast", "Chest", "Composter", "FullComposter", "TNT"}

-----------------------------------------------------------------------------
(* UseOnBlock *)

supportsVegetation(plant, b) == SoilFor(b, plant)

\* canSugarCaneGrowOn: down the cane, to the lowest at height y, which stands on soil
\* with water beside it.
canSugarCaneGrowOn(c) ==
    \E y \in 0..c[2] :
        /\ \A z \in y..(c[2] - 1) : Block(<<c[1], z>>) = "SugarCane"
        /\ supportsVegetation("SugarCane", Block(<<c[1], y - 1>>))
        /\ \E f \in Horizontal : Block(Side(<<c[1], y - 1>>, f)) \in WaterKinds

\* canCactusGrowOn: air beside it, and beside all the cactus it stands on, down to the
\* lowest at height y.
canCactusGrowOn(c) ==
    \E y \in 0..c[2] :
        /\ \A z \in y..c[2], f \in Horizontal : Block(Side(<<c[1], z>>, f)) = "Air"
        /\ \A z \in y..(c[2] - 1) : Block(<<c[1], z>>) = "Cactus"
        /\ Block(<<c[1], y - 1>>) # "Cactus"
        /\ supportsVegetation("Cactus", Block(<<c[1], y - 1>>))

seaPickleCanSurvive(c) ==
    /\ FaceSolid(Block(Down(c)))
    /\ Block(c) # "ShallowWater"
    /\ Opaque(Block(Down(c)))

replaceableWith(c, with) == c \in Cells /\ ReplaceableBy(Block(c), with)

\* firstReplaceable: the clicked cell, as if on its top, or the one at the face.
firstReplaceable(c, f, with) ==
    IF replaceableWith(c, with) THEN [pos |-> c, face |-> "up", used |-> TRUE]
    ELSE [pos |-> Side(c, f), face |-> f, used |-> replaceableWith(Side(c, f), with)]

\* The rules, for a block placed at c from the face f; at and clicked are the cell
\* and the face as the client sent them.
Suits(rule, kind, c, f, at, clicked) ==
    CASE rule = "free" -> TRUE
      [] rule = "notDown" -> f # "down"
      [] rule = "farmland" -> Block(Down(c)) = "Farmland"
      [] rule = "notOnAir" -> Block(Down(c)) # "Air"
      [] rule = "notOnCampfire" -> Block(Down(c)) # "Campfire"
      [] rule = "soil" -> supportsVegetation(kind, Block(Down(c)))
      [] rule = "soulSand" -> Block(Down(c)) = "SoulSand"
      [] rule = "cactus" -> canCactusGrowOn(c)
      [] rule = "cane" -> canSugarCaneGrowOn(c)
      [] rule = "pickle" -> seaPickleCanSurvive(c)
      [] rule = "cocoa" -> clicked \in Horizontal /\ Block(Side(c, Opposite(clicked))) = "JungleLog"
      [] rule = "coral" -> FaceSolid(Block(Down(c))) /\ Block(c) # "ShallowWater"
      [] rule = "kelp" -> /\ Block(Down(c)) = "Kelp" \/ FaceSolid(Block(Down(c)))
                          /\ Block(c) = "Water"
      [] rule = "lily" -> Block(Down(c)) = "Water"
      [] rule = "hangs" -> FaceSolid(Block(Up(c)))
      [] rule = "frame" -> Block(Side(c, Opposite(f))) \notin EmptyModel
      [] rule = "ladder" -> /\ f \in Horizontal
                            /\ \/ Block(Side(c, Opposite(f))) \notin Diffusers
                               \/ \E i \in Horizontal : Opaque(Block(Side(c, i)))
      [] rule = "lantern" -> \/ f = "down" /\ (Block(Up(c)) = "IronChain" \/ FaceSolid(Block(Up(c))))
                             \/ FaceSolid(Block(Down(c)))
      [] rule = "torch" -> /\ f # "down"
                           /\ \E g \in Horizontal \cup {Opposite(f)} : FaceSolid(Block(Side(c, g)))
      [] rule = "vines" -> clicked \in Horizontal /\ Block(at) \in Solids /\ Block(c) # "Vines"

Rule(kinds, rule) == [k \in kinds |-> rule]
\* The cases of f and, for other kinds, those of g.
f ++ g == [k \in DOMAIN f \cup DOMAIN g |-> IF k \in DOMAIN f THEN f[k] ELSE g[k]]

\* The cases of the switch in UseOnBlock, in its order.
RulesAnvilToCocoa ==
    Rule({"Anvil", "Barrel", "Basalt", "BlastFurnace", "Bone", "BrewingStand", "IronChain",
          "Chest"}, "free")
    ++ Rule({"Banner"}, "notDown") ++ Rule({"BeetrootSeeds", "Carrot"}, "farmland")
    ++ Rule({"Cactus"}, "cactus") ++ Rule({"Cake", "Carpet"}, "notOnAir")
    ++ Rule({"Campfire"}, "notOnCampfire") ++ Rule({"CocoaBean"}, "cocoa")

RulesCopperToGlazed ==
    Rule({"CopperDoor"}, "door") ++ Rule({"Coral"}, "coral")
    ++ Rule({"CopperTrapdoor", "DeadBush", "DecoratedPot", "Deepslate", "EndRod", "EnderChest",
             "Froglight", "Furnace", "GlazedTerracotta"}, "free")
    ++ Rule({"DoubleFlower", "DoubleTallGrass"}, "tall") ++ Rule({"Fern", "Flower"}, "soil")

RulesGrindstoneToLoom ==
    Rule({"Grindstone", "HayBale", "Hopper", "Leaves", "Lectern", "LitPumpkin", "Log", "Loom"},
         "free")
    ++ Rule({"ItemFrame"}, "frame") ++ Rule({"Kelp"}, "kelp") ++ Rule({"Ladder"}, "ladder")
    ++ Rule({"Lantern"}, "lantern") ++ Rule({"LilyPad"}, "lily")

RulesMelonToShortGrass ==
    Rule({"MelonSeeds", "Potato", "PumpkinSeeds"}, "farmland") ++ Rule({"MossCarpet"}, "notOnAir")
    ++ Rule({"MuddyMangroveRoots", "Pumpkin", "PurpurPillar", "QuartzPillar"}, "free")
    ++ Rule({"NetherSprouts", "ShortGrass"}, "soil") ++ Rule({"NetherWart"}, "soulSand")
    ++ Rule({"PinkPetals"}, "petals") ++ Rule({"SeaPickle"}, "pickles")

RulesSignToVines ==
    Rule({"Sign", "Skull"}, "notDown") ++ Rule({"Slab"}, "slab")
    ++ Rule({"Smoker", "Sponge", "Stairs", "Stonecutter"}, "free")
    ++ Rule({"SporeBlossom"}, "hangs") ++ Rule({"SugarCane"}, "cane")
    ++ Rule({"Torch"}, "torch") ++ Rule({"Vines"}, "vines")

RulesWallToWood ==
    Rule({"Wall", "WoodFenceGate", "WoodTrapdoor", "Wood"}, "free")
    ++ Rule({"WheatSeeds"}, "farmland") ++ Rule({"WoodDoor"}, "door")

Rules == RulesAnvilToCocoa ++ RulesCopperToGlazed ++ RulesGrindstoneToLoom
         ++ RulesMelonToShortGrass ++ RulesSignToVines ++ RulesWallToWood

Top == [k \in {"CopperDoor", "WoodDoor", "DoubleFlower", "DoubleTallGrass"} |->
            CASE k = "CopperDoor" -> "CopperDoorTop" [] k = "WoodDoor" -> "WoodDoorTop"
              [] k = "DoubleFlower" -> "DoubleFlowerTop"
              [] k = "DoubleTallGrass" -> "DoubleTallGrassTop"]

\* What PlaceBlock is asked for is a function from cells to blocks: one, or the two
\* cells of a door or a tall plant.
Placing(c, b) == [d \in {c} |-> b]
PlacingTwo(c, kind) == [d \in {c, Up(c)} |-> IF d = c THEN kind ELSE Top[kind]]
Nothing == [d \in {} |-> "Air"]

\* One block at the first cell that can be replaced, if the rule suits it.
Single(rule, kind, at, f) ==
    LET t == firstReplaceable(at, f, kind)
    IN  IF t.used /\ Suits(rule, kind, t.pos, t.face, at, f)
        THEN Placing(t.pos, kind) ELSE Nothing

\* A door stands on the clicked block, and only on its top.
\* Defect: the cell of the upper half is not looked at.
DoorBlocks_LowerOnly(kind, at, f) ==
    IF f = "up" /\ replaceableWith(Up(at), kind) /\ FaceSolid(Block(at))
    THEN PlacingTwo(Up(at), kind) ELSE Nothing

DoorBlocks(kind, at, f) ==
    IF /\ f = "up" /\ replaceableWith(Up(at), kind) /\ replaceableWith(Up(Up(at)), kind)
       /\ FaceSolid(Block(at))
    THEN PlacingTwo(Up(at), kind) ELSE Nothing

TallBlocks(kind, at, f) ==
    LET t == firstReplaceable(at, f, kind)
    IN  IF t.used /\ replaceableWith(Up(t.pos), kind) /\ supportsVegetation(kind, Block(Down(t.pos)))
        THEN PlacingTwo(t.pos, kind) ELSE Nothing

\* Petals and pickles are added to the ones that are there, up to four.
HeapBlocks(rule, kind, full, at, f) ==
    IF Block(at) = full THEN Nothing
    ELSE IF Block(at) = kind THEN Placing(at, full) ELSE Single(rule, kind, at, f)

\* A slab completes the one that is clicked on its top, or the one beside it.
SlabBlocks(at, f) ==
    IF Block(at) = "Slab" /\ f = "up" THEN Placing(at, "DoubleSlab")
    ELSE IF Block(Side(at, f)) = "Slab" /\ ~replaceableWith(at, "Slab")
    THEN Placing(Side(at, f), "DoubleSlab") ELSE Single("free", "Slab", at, f)

\* UseOnBlock: the blocks it asks PlaceBlock for.
UseOnBlock(kind, at, f) ==
    LET rule == Rules[kind]
    IN  CASE rule = "door" -> DoorBlocks(kind, at, f)
          [] rule = "tall" -> TallBlocks(kind, at, f)
          [] rule = "petals" -> HeapBlocks("soil", kind, "PinkPetalsFull", at, f)
          [] rule = "pickles" -> HeapBlocks("pickle", kind, "SeaPickleFull", at, f)
          [] rule = "slab" -> SlabBlocks(at, f)
          [] OTHER -> Single(rule, kind, at, f)

-----------------------------------------------------------------------------
(* A click *)

Collides(b) == b \notin NoCollision

\* World.SetBlock, for each of the cells; cells beside the slice are not kept.
Set(cells, bs) == [c \in Cells |-> IF c \in cells THEN bs[c] ELSE world[c]]

\* PlaceBlock, for each block: it takes an item, unless the cell cannot be replaced or a
\* player or an entity is in it.
\* Defect: what can be replaced is left to the caller.
PlaceBlocks_Unchecked(bs) ==
    LET inTheWay == {c \in DOMAIN bs : Collides(bs[c]) /\ c \in {self, other}}
        done == DOMAIN bs \ inTheWay
    IN  /\ world' = Set(done, bs)
        /\ taken' = taken + Cardinality(done)
        /\ blocked' = (blocked \/ inTheWay # {})
        /\ UNCHANGED disturbed

\* Defect: only other entities are looked at.
PlaceBlocks_IntoSelf(bs) ==
    LET inTheWay == {c \in DOMAIN bs : Collides(bs[c]) /\ c = other}
        done == {c \in DOMAIN bs \ inTheWay : Block(c) \in Replaceables}
    IN  /\ world' = Set(done, bs)
        /\ taken' = taken + Cardinality(done)
        /\ blocked' = (blocked \/ inTheWay # {})
        /\ UNCHANGED disturbed

PlaceBlocks(bs) ==
    LET inTheWay == {c \in DOMAIN bs : Collides(bs[c]) /\ c \in {self, other}}
        done == {c \in DOMAIN bs \ inTheWay : Block(c) \in Replaceables}
    IN  /\ world' = Set(done, bs)
        /\ taken' = taken + Cardinality(done)
        /\ blocked' = (blocked \/ inTheWay # {})
        /\ UNCHANGED disturbed

\* ActivateBlock: a cake is eaten, a full composter emptied, TNT lit, and the
\* clicked half of a door turned; of the others nothing shows in the world.
Activated(b, hand) ==
    CASE b = "Cake" -> "CakeLast"
      [] b \in {"CakeLast", "FullComposter"} -> "Air"
      [] b = "WoodDoor" -> "OpenWoodDoor"
      [] b = "OpenWoodDoor" -> "WoodDoor"
      [] b = "WoodDoorTop" -> "OpenWoodDoorTop"
      [] b = "OpenWoodDoorTop" -> "WoodDoorTop"
      [] b = "TNT" /\ hand = "FlintAndSteel" -> "Air"
      [] OTHER -> b

ActivateBlock(at, hand) ==
    /\ world' = [world EXCEPT ![at] = Activated(@, hand)]
    /\ disturbed' = (disturbed \/ world' # world)
    /\ UNCHANGED <<taken, blocked>>

\* The block in the hand goes to the clicked cell if it can replace what is there.
PlainBlock(b, at, f) ==
    Placing(IF ReplaceableBy(Block(at), b) THEN at ELSE Side(at, f), b)

\* AttemptItemInteractionWithBlock.  The client may have predicted a failure, and
\* the block may be out of reach: then nothing but a synchronisation follows.
AttemptItemInteractionWithBlock(hand, at, f, sneaking, predictedFailure, tooFar) ==
    IF \/ hand \in DOMAIN Rules \cup {"Stone", "Glowstone", "Unregistered"} /\ predictedFailure
       \/ Block(at) = "Air" \/ tooFar
    THEN UNCHANGED <<world, taken, disturbed, blocked>>
    ELSE IF Block(at) \in Activatables /\ (~sneaking \/ hand = "Nothing") THEN ActivateBlock(at, hand)
    ELSE IF hand \in DOMAIN Rules THEN PlaceBlocks(UseOnBlock(hand, at, f))
    ELSE IF hand \in {"Stone", "Unregistered"} \/ (hand = "Glowstone" /\ Block(at) # "RespawnAnchor")
    THEN PlaceBlocks(PlainBlock(IF hand = "Unregistered" THEN "Stone" ELSE hand, at, f))
    ELSE UNCHANGED <<world, taken, disturbed, blocked>>

\* ValidateInteraction, for a player in survival: a container or a door must be in
\* reach with nothing in between.
ValidateInteraction(at, predictedFailure, tooFar, obstructed) ==
    predictedFailure \/ Block(at) \notin Activatables \/ ~(tooFar \/ obstructed)

\* An InventoryTransaction that clicks a block: it is validated, then attempted.
Click(hand, at, f, sneaking, predictedFailure, reach) ==
    /\ Step
    /\ IF ValidateInteraction(at, predictedFailure, reach = "far", reach = "obstructed")
       THEN /\ AttemptItemInteractionWithBlock(hand, at, f, sneaking, predictedFailure, reach = "far")
            /\ accepted' = (accepted \/ (Block(at) \in Activatables /\ ~predictedFailure))
       ELSE /\ accepted' = FALSE
            /\ UNCHANGED <<world, taken, disturbed, blocked>>
    /\ UNCHANGED <<self, other, serverAuth, breakVars>>

-----------------------------------------------------------------------------
(* Breaking *)

NoPos == <<>>
Full == 6               \* a progress of one; 0.999 is passed by nothing less

\* expectedBlockBreakTime in ticks, as the progress of one tick: nothing for air.
TickProgress(w, c) == IF c \notin Cells \/ w[c] = "Air" THEN Full
                      ELSE CASE w[c] = "Stone" -> 2 [] w[c] = "Dirt" -> 3 [] OTHER -> Full

\* What a block action may change, as a record.
BreakState == [world |-> world, pos |-> breakPos, inProgress |-> inProgress,
               progress |-> progress, spent |-> spent, disturbed |-> disturbed]

Cap(n) == IF n > Full THEN Full ELSE n
\* Progress of one tick on the block at c.
Advance(s, c) == [s EXCEPT !.progress = Cap(@ + TickProgress(s.world, c)), !.spent = @ \cup {c}]
NoProgress(s) == [s EXCEPT !.progress = 0, !.spent = {}]
AdvanceCurrent(s) == IF s.pos # NoPos /\ s.inProgress /\ serverAuth THEN Advance(s, s.pos) ELSE s

\* blockInteractable: from the faces the player can see, the one that is hit must
\* be among them and one of them must be free; at eye height all are.
blockInteractable(w, c, f) ==
    LET eye == Up(self)
        seen == {g \in Faces : \/ g = "down" /\ eye[2] < c[2]
                               \/ g = "up" /\ eye[2] > c[2]
                               \/ g = "west" /\ eye[1] < c[1]
                               \/ g = "east" /\ eye[1] > c[1]}
    IN  \/ eye[2] = c[2]
        \/ f \in seen /\ \E g \in seen : Side(c, g) \notin Cells \/ w[Side(c, g)] \notin Solids

\* tryBreakBlock: whether the block is broken, and the progress it leaves.
tryBreakBlock(s, f) ==
    LET t == Advance(s, s.pos)
    IN  IF t.progress >= Full /\ blockInteractable(t.world, t.pos, f)
        THEN [broken |-> TRUE, state |-> t] ELSE [broken |-> FALSE, state |-> NoProgress(t)]

\* The block at c is broken.
Broken(s, c) ==
    [NoProgress(s) EXCEPT !.inProgress = FALSE, !.disturbed = TRUE,
                          !.world = [d \in Cells |-> IF d = c THEN "Air" ELSE @[d]]]

\* PlayerActionPredictDestroyBlock: the block being broken is judged, the one that
\* is named removed.
PredictDestroy(s, c, f) ==
    IF ~serverAuth \/ s.pos = NoPos THEN s
    ELSE LET r == tryBreakBlock(s, f) IN IF r.broken THEN Broken(r.state, c) ELSE r.state

\* PlayerActionStopBreak
StopBreak(s, f) ==
    IF s.pos = NoPos THEN s
    ELSE LET r == tryBreakBlock(s, f) IN IF r.broken THEN Broken(r.state, s.pos) ELSE r.state

\* PlayerActionStartBreak and PlayerActionCrackBreak
\* Defect: what was done to another block counts.
CrackBreak_Keep(s, c) == [Advance(s, c) EXCEPT !.pos = c]

CrackBreak(s, c) == [Advance(IF s.pos = c THEN s ELSE NoProgress(s), c) EXCEPT !.pos = c]
StartBreak(s, c) == CrackBreak([NoProgress(s) EXCEPT !.inProgress = TRUE], c)

\* PlayerActionContinueDestroyBlock
ContinueDestroy(s, c) ==
    [Advance(IF s.inProgress /\ s.pos \in {NoPos, c} THEN s ELSE NoProgress(s), c)
        EXCEPT !.pos = c, !.inProgress = TRUE]

\* PlayerActionAbortBreak
\* Defect: the break is still in progress.
AbortBreak_InProgress(s) == [NoProgress(s) EXCEPT !.pos = NoPos]

AbortBreak(s) == [NoProgress(s) EXCEPT !.pos = NoPos, !.inProgress = FALSE]

ActOn(s, a) ==
    CASE a.type = "start" -> StartBreak(s, a.pos)
      [] a.type = "crack" -> CrackBreak(s, a.pos)
      [] a.type = "continue" -> ContinueDestroy(s, a.pos)
      [] a.type = "abort" -> AbortBreak(s)
      [] a.type = "stop" -> StopBreak(s, a.face)
      [] a.type = "predict" -> PredictDestroy(s, a.pos, a.face)

\* handleBlockActions: a tick on the block being broken, before the actions or,
\* when they start the break, after them.
handleBlockActions(actions) ==
    /\ Step
    /\ LET handled == breakPos # NoPos /\ inProgress /\ serverAuth
           after[i \in 0..Len(actions)] ==
               IF i = 0 THEN AdvanceCurrent(BreakState) ELSE ActOn(after[i - 1], actions[i])
           acted == after[Len(actions)]
           s == IF handled THEN acted ELSE AdvanceCurrent(acted)
       IN  /\ world' = s.world /\ breakPos' = s.pos /\ inProgress' = s.inProgress
           /\ progress' = s.progress /\ spent' = s.spent /\ disturbed' = s.disturbed
    /\ UNCHANGED <<self, other, serverAuth, clickVars, blocked>>

\* The player goes to a cell that no block closes; it passes through entities.
Walk(c) ==
    /\ ~Collides(Block(c)) /\ c # self
    /\ self' = c
    /\ UNCHANGED <<world, other, serverAuth, steps, clickVars, breakVars, disturbed, blocked>>

\* An update of the server is acknowledged.
ServerSetBlock(c, b) ==
    /\ Step /\ world[c] # b
    /\ world' = [world EXCEPT ![c] = b]
    /\ disturbed' = TRUE
    /\ UNCHANGED <<self, other, serverAuth, clickVars, breakVars, blocked>>

-----------------------------------------------------------------------------

InteractionInit ==
    /\ world \in Terrains
    /\ serverAuth \in BOOLEAN
    /\ self \in Stands /\ other \in Stands \ {self}
    /\ world[self] = "Air" /\ world[other] = "Air"
    /\ taken = 0 /\ accepted = TRUE /\ steps = 0
    /\ breakPos = NoPos /\ inProgress = FALSE /\ progress = 0
    /\ spent = {} /\ disturbed = FALSE /\ blocked = FALSE

BlockActions ==
    [type : {"start", "crack", "continue"}, pos : Targets, face : {"up"}]
        \cup [type : {"abort"}, pos : {NoPos}, face : {"up"}]
        \cup [type : {"stop"}, pos : {NoPos}, face : Faces]
        \cup [type : {"predict"}, pos : Targets, face : Faces]

InteractionNext ==
    \/ \E hand \in Hands, at \in Cells, f \in Faces, sneaking \in BOOLEAN :
          \/ Click(hand, at, f, sneaking, FALSE, "near")
          \/ f = "up" /\ Click(hand, at, f, sneaking, TRUE, "near")
          \/ f = "up" /\ \E reach \in {"far", "obstructed"} : Click(hand, at, f, sneaking, FALSE, reach)
    \/ \E n \in 0..MaxActions : \E actions \in [1..n -> BlockActions] : handleBlockActions(actions)
    \/ \E c \in Stands : Walk(c)
    \/ \E c \in Targets : ServerSetBlock(c, "Stone")

InteractionSpec == InteractionInit /\ [][InteractionNext]_interactionVars

-----------------------------------------------------------------------------
(* Properties *)

\* The state is of its type, and a break in progress has a block: handleBlockActions
\* adds progress for the block at BlockBreakPos on every input, and StopBreak reads it.
InteractionTypeOK ==
    /\ world = [c \in Cells |-> world[c]] /\ self \in Cells /\ other \in Cells
    /\ taken \in Nat /\ accepted \in BOOLEAN /\ serverAuth \in BOOLEAN
    /\ breakPos \in Cells \cup {NoPos} /\ progress \in 0..Full
    /\ inProgress \in BOOLEAN /\ (inProgress => breakPos # NoPos)

\* Progress is made on one block and is not carried to another: whatever order the
\* client starts, cracks, continues, aborts and stops in, all of blockBreakProgress
\* was made on the block it will be held against.
ProgressBelongs == InteractionTypeOK /\ (progress # 0 => spent = {breakPos})

\* A door or a double flower has both its halves in the world w.  Tall grass is not
\* held to that: PlaceBlock puts a block where either half is, and the other one stays.
Whole(w, c) ==
    \A kind \in DOMAIN Top \ Replaceables :
        /\ w[c] = kind => BlockIn(w, Up(c)) = Top[kind]
        /\ w[c] = Top[kind] => BlockIn(w, Down(c)) = kind

\* The block below is one that b may stand on, for the kinds UseOnBlock asks that of.
\* A lily pad is not among them: it stands on water, which a block may then replace.
\* Nor is a campfire, beneath which another may be put, nor what hangs from a block or
\* is fixed to the side of one.
Placed(b, rules) == b \in DOMAIN Rules /\ Rules[b] \in rules
Footing(b, below) ==
    /\ Placed(b, {"farmland"}) => below = "Farmland"
    /\ Placed(b, {"soulSand"}) => below = "SoulSand"
    /\ Placed(b, {"door", "coral"}) => below \in Solids
    /\ Placed(b, {"pickles"}) => below \in Solids /\ Opaque(below)
    /\ Placed(b, {"kelp"}) => below = "Kelp" \/ below \in Solids
    /\ Placed(b, {"soil", "tall", "petals"}) => SoilFor(below, b)
    /\ Placed(b, {"notOnAir"}) => below # "Air"
    /\ b \in {"SugarCane", "Cactus"} => below = b \/ SoilFor(below, b)

\* The worlds the server starts with are whole.
ASSUME TerrainAssumption ==
    \A w \in Terrains, c \in Cells : Footing(w[c], BlockIn(w, Down(c))) /\ Whole(w, c)

\* No sequence of clicks places one of the blocks that Footing names without the block
\* it stands on, or replaces that block by one it may not stand on: of those blocks, only
\* cakes and carpets stand on what can be replaced, and they stand on any other as well.
\* Nor is half a door or half of a double flower left, as UseOnBlock looks at both cells
\* before it places the first half, unless a player or an entity stands in one of them.
\* Blocks that were broken, turned or sent by the server excepted.
Standing ==
    ~disturbed => \A c \in Cells :
        /\ Footing(world[c], Block(Down(c)))
        /\ ~blocked => Whole(world, c)

\* However the player walks and clicks, no block is placed into the cell the player
\* stands in, also not the second half of a door.
NotWalledIn == ~disturbed => ~Collides(world[self])

=============================================================================
