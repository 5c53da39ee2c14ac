CONSTANTS
    EventSize = 28
    RingSize = 4
    NPorts = 2
    MaxFaults = 1
    MaxReads = 1
    Keys = {1, 2}
    FdSize = 2
    MaxReports = 3
SPECIFICATION FairSpec
INVARIANTS
    TypeOK
    EventsToldApart
    OwnAnswers
    
    KeysInOrder
PROPERTIES
    BootCompletes
    KeysArrive
CHECK_DEADLOCK FALSE
