CONSTANTS
    Task = {t1, t2, t3, t4, t5}
    Null = Null
SYMMETRY TaskSymmetry
SPECIFICATION ApiSpec
INVARIANTS
    TypeOK
    QueueWellFormed
    RunningIsCurrent
    NoTaskLost
PROPERTY ImplementsRoundRobin
