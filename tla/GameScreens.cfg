CONSTANTS
    N = 4
    FlipLimit = 2
    Faces = {f1, f2}
    Deals <- MCDeals
    Runaway = 8
    MaxLives = 2
    LifeModulus = 8
    PreviewTicks = 4
    VictoryTicks = 2
SPECIFICATION Spec
SYMMETRY FaceSymmetry
CHECK_DEADLOCK FALSE
CONSTANTS
    Spots <- ButtonSpots
    Keys = {"P", "I", "E", "ESC"}
INVARIANTS
    LivesInPlay
    VerdictIsTrue
    NewGameIsFresh

