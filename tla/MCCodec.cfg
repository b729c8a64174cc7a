SPECIFICATION Spec
CONSTANTS
    ByteBase = 4
    HeaderSize = 2
    SizeMax = 15
    Count = 3
    ItemSize = 2
    NULL = NULL
    Results <- Some
    Foreign <- ShortPackets
    Faults <- NoFaults
INVARIANTS
    WritesStayInside PacketIsFull RefusalHasCause UnpackInvertsPack
    ReadsStayInside OnlyItemsAreAdded
CHECK_DEADLOCK FALSE
