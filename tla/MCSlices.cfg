SPECIFICATION Spec
CONSTANTS
    Spacings <- PowersOfTwo
    Full = 4096
    One = 8192
    Ends <- SomeEnds
    Workers = 5
    ThreadCounts <- SomeCounts
INVARIANTS EachNumberOnce
CHECK_DEADLOCK FALSE
