SPECIFICATION Spec
CONSTANTS
    PacketSize = 188
    CcModulus = 3
    Lead = 2
    Lengths <- Frames
    Rooms <- Buffers
    FirstDts <- Firsts
    Gaps <- Steps
    MaxTime = 4
    Fresh = Fresh
INVARIANTS
    PacketsReassemble
    CountersContinue
PROPERTIES
    ClockHolds
