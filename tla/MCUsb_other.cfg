CONSTANTS
    EventSize = 28
    RingSize = 4
    NPorts = 2
    MaxFaults = 0
    MaxReads = 1
    Keys = {1, 2}
    FdSize = 2
    MaxReports = 3
SPECIFICATION Spec
INVARIANT DetectedIsStorage
CHECK_DEADLOCK FALSE
