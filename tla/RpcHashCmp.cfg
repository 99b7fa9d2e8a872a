\* size_t and int scaled from 64 and 32 bits to 8 and 4.
CONSTANTS
    SizeBits = 8
    IntBits = 4
    Objects <- MCObjects

SPECIFICATION Spec

INVARIANT CmpConsistent

\* One comparison per triple; nothing runs after it.
CHECK_DEADLOCK FALSE
