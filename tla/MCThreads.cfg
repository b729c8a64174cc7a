SPECIFICATION Spec
CONSTANTS
    a = a
    NULL = NULL
    Invalid = Invalid
    Packets <- OnePacket
    Threads = 3
    CpuSetSize = 4
    IntMax = 5
    Resources <- TwoCores
    Faults <- NoFaults
INVARIANT FailureHasCause
CHECK_DEADLOCK FALSE
