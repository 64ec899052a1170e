SPECIFICATION InteractionSpec
CONSTANTS
    Width = 3
    Height = 4
    Hands = {"WoodDoor", "BeetrootSeeds", "SugarCane", "Stone", "DoubleFlower", "Nothing", "Slab", "DoubleTallGrass", "Cactus", "Coral", "Carpet", "LilyPad", "Unregistered"}
    Terrains <- MCTerrains
    Stands <- MCStands
    Targets <- MCTargets
    MaxSteps = 3
    MaxActions = 2
INVARIANTS
    ProgressBelongs
    Standing
    NotWalledIn
CHECK_DEADLOCK FALSE
