\* Two threads share a pool of two objects and hand references to each other.
CONSTANTS
    t1 = t1
    t2 = t2
    NONE = NONE
    Threads <- TwoThreads
    Keys <- MCKeys
    NObjects = 2
    MaxLen = 2
    MaxRef = 2
    BorrowedArgs = FALSE
    FdNums = {0, 1}
    CreateKinds <- AllKinds

SPECIFICATION Spec
SYMMETRY ThreadSymmetry

INVARIANT TypeOK
INVARIANT RefcountCoversOwners
INVARIANT NoDanglingReference
INVARIANT ShmemClosedOnce

\* The library is passive: once its callers stop calling, nothing runs.
CHECK_DEADLOCK FALSE
