CONSTANTS
    Task = {t1, t2, t3, t4}
    Null = Null
SPECIFICATION USpec
INVARIANT SyscallFramesIntact
