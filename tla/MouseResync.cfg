CONSTANTS
    Packets = 3
    CounterBound = 4
SPECIFICATION Spec
PROPERTY ClickAgainSyncs
