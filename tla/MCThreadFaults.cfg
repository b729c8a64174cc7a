SPECIFICATION Spec
CONSTANTS
    a = a
    NULL = NULL
    Invalid = Invalid
    Packets <- OnePacket
    Threads = 3
    CpuSetSize = 4
    IntMax = 5
    Resources <- AnyCores
    Faults <- AllFaults
INVARIANTS ThreadsTypeOK SuccessIsWhole ArgsOutliveThreads UnfitRangesFail LockIsLostOnlyPastLimit
PROPERTY CallSpec
CHECK_DEADLOCK FALSE
