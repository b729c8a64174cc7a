SPECIFICATION LiveSpec
CONSTANTS
    Second = 3
    Timeouts <- SomeTimeouts
    MaxUses = 3
    MaxDelay = 2
    MaxClock = 7
    Faults <- AllFaults
INVARIANTS NeverKilled UseLeavesNoTrace DeadlineIsDue
PROPERTY LimitInterrupts
CHECK_DEADLOCK FALSE
