CONSTANTS
    XResolution = 800
    YResolution = 600
    Moves <- MCMoves
SPECIFICATION Spec
INVARIANTS
    PointerInReach
    OneSpotUnder
PROPERTY FollowsMouse
