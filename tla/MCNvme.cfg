SPECIFICATION FairSpec
CONSTANTS
    QueueDepth = 3
    PageSize = 2
    Requests <- MCRequests
INVARIANTS
    TypeOK
    OneCommandAtATime
    PhaseTellsNew
    ExaminesOwnStatus
PROPERTIES
    ImplementsBlockDevice
    CallsReturn
CHECK_DEADLOCK FALSE
