SPECIFICATION LiveSpec
CONSTANTS
    Second = 4
    RetryMs = 3
    MaxTimes <- SomeTimes
    SynTimeout = 5
    Latency = 1
    Faults <- AllFaults
INVARIANTS ConnectTypeOK NoBlindSpot AttemptsInTime EndsInTime
PROPERTY ConnectEnds
CHECK_DEADLOCK FALSE
