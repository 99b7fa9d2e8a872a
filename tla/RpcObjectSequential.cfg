\* One thread and a pool of three objects: long sequences of calls on trees of up to three nodes.
CONSTANTS
    t1 = t1
    t2 = t2
    NONE = NONE
    Threads <- OneThread
    Keys <- MCKeys
    NObjects = 3
    MaxLen = 2
    MaxRef = 2
    BorrowedArgs = FALSE
    FdNums = {}
    CreateKinds <- AllKinds

SPECIFICATION Spec

INVARIANT RefcountCoversOwners
INVARIANT NoDanglingReference

\* The library is passive: once its caller stops calling, nothing runs.
CHECK_DEADLOCK FALSE
