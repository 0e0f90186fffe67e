CONSTANTS
    N = 4
    FlipLimit = 2
    Faces = {0, 1}
    Deals <- NeighbourDeal
    Runaway = 4
    MaxLives = 1
    LifeModulus = 8
    PreviewTicks = 4
    VictoryTicks = 2
    Spots <- CardSpots
    Keys = {"P", "E", "ESC"}
SPECIFICATION FairSpec
PROPERTIES
    PreviewEnds
    ExitLeads
    FlipEnds
    AllMatchedWins
CHECK_DEADLOCK FALSE
