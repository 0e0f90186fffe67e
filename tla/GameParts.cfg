SPECIFICATION PartsSpec
CONSTANTS
    MaxData = 2
    MaxQueue = 2
    TIMER_FREQ = 1193182
    Freqs = {18, 19, 2000, 200000, 1193182, 1193183}
    CountBytes = {0, 255}
    MaxCalls = 2
    Clocks <- MCClocks
    Junk = {255}
    Half = 3
    Suits = 2
    Numbers = 2
    RAND_MAX = 37
INVARIANTS
    MouseGetsEach SentOnReturn
    CountAsAsked ShowsItsTimer
    DateIsRecent
    PairsOnTable PicksEveryRest
PROPERTIES CommandTakesEffect KeepsLowBits
CHECK_DEADLOCK FALSE
