\* Two threads, a pool of four objects, arguments that may be borrowed from a container or an error.
CONSTANTS
    t1 = t1
    t2 = t2
    NONE = NONE
    Threads <- TwoThreads
    Keys <- MCKeys
    NObjects = 4
    MaxLen = 2
    MaxRef = 2
    BorrowedArgs = TRUE
    FdNums = {}
    CreateKinds <- LeafAndArray

SPECIFICATION Spec

INVARIANT MemorySafe

CHECK_DEADLOCK FALSE
