\* One sender; the uninitialised err may read as non-NULL, and a payload
\* write may be short.
CONSTANTS
    s1 = s1
    s2 = s2
    NONE = NONE
    Senders <- OneSender
    MaxSends = 2
    Lens = {1, 2}
    ErrGarbage <- ErrAny
    ShortWrites = TRUE
SPECIFICATION Spec
INVARIANT FrameIntact
\* The reader stops for good once it has crashed, and the senders stop
\* after MaxSends messages; nothing runs after that.
CHECK_DEADLOCK FALSE
