SPECIFICATION LabsSpec
CONSTANTS
    HZ = 3
    Seconds = {0, 1, 2}
    MaxInputs = 3
    MaxIdle = 9
    MaxKeys = 4
    x_len = 12
    tolerance = 1
    Deltas = {0, 1, 2, 3, 5}
    MinDisplacement = 6
    MaxSide = 3
    MaxSpeed = 3
    XResolution = 4
    YResolution = 3
    Margin = 2
INVARIANTS
    EndsInTime
    InterruptsBack
    LinesAreLong
    DrawnAsAsked
    ZeroMeansLetGo SomeoneListens
PROPERTIES EndsWhenIdle PrintsAsSent Arrives
CHECK_DEADLOCK FALSE
