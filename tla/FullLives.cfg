CONSTANTS
    N = 16
    FlipLimit = 10
    Faces = {0, 1, 2, 3, 4, 5, 6, 7}
    Deals <- UnlikeDeal
    Runaway = 20
    MaxLives = 5
    LifeModulus = 1000000
    PreviewTicks = 4
    VictoryTicks = 2
    Spots <- ThreeCards
    Keys = {"P"}
SPECIFICATION Spec
PROPERTY OneLifePerChoice
CHECK_DEADLOCK FALSE
