CONSTANTS
    Packets = 3
    CounterBound = 4
    Cnt = 6
SPECIFICATION MouseSpec
INVARIANTS
    InPhase
    ThreeMovesPerPacket
    OneTickPerPacket
    PacketPerRequest
PROPERTIES
    PacketsAreReal
    RecoversOnBytes
    EndsOrStarves
CHECK_DEADLOCK FALSE
