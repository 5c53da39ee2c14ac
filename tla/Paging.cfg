CONSTANTS
    NumFrames = 40
    Proc = {1, 2, 3}
    MaxCreations = 5
SPECIFICATION Spec
CHECK_DEADLOCK FALSE
INVARIANTS
    StackPrivate
    KernelSeesMemory
    TablesApart
