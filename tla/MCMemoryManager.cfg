CONSTANTS
    FrameSize = 2
    MemMaps <- MCMemMaps
    KernelFrames <- MCKernelFrames
    Sizes = {0, 1, 2, 3, 5, 8}
SPECIFICATION FairSpec
INVARIANTS
    TypeOK
    BlocksApart
    FramesConserved
PROPERTIES
    ImplementsFrameAllocator
    SearchEnds
