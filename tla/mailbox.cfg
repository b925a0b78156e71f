CONSTANTS
    Second = 5
    DefaultTTL = 5
    MaxTTL = 10
    MaxInt = 31
    LastBody = 2
    Durations = {3}
    RawSeconds = {7}
    RespLimit = 2
    MaxStored = 3
    MaxTime = 1
    MaxFaults = 2
SPECIFICATION MSpec
CHECK_DEADLOCK FALSE
INVARIANTS TTLAsPromised HandledInOrder
PROPERTIES ImplementsAtLeastOnce EventuallyHandled
