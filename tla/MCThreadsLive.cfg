SPECIFICATION LiveSpec
CONSTANTS
    a = a
    NULL = NULL
    Invalid = Invalid
    Packets <- OnePacket
    Threads = 2
    CpuSetSize = 4
    IntMax = 5
    Resources <- TwoCores
    Faults <- AllFaults
PROPERTIES RunEnds LimitEndsThreads
CHECK_DEADLOCK FALSE
